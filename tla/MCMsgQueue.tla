----------------------------- MODULE MCMsgQueue -----------------------------
EXTENDS MsgQueueInvariant, TLC

MessageOps == {"create"} \cup MsgCalls

\* No queue is ever removed.
LastingOps == MessageOps \ {"msgctl"}

\* The threads but Root, the Qcbs, the keys and the types are interchangeable.
Symmetry ==
  {f @@ g @@ h @@ i : f \in Permutations(Thread \ {Root}), g \in Permutations(Qcb),
                      h \in Permutations(Key), i \in Permutations(Type)}
=============================================================================
