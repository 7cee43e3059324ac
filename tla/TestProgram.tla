---------------------------- MODULE TestProgram ----------------------------
(***************************************************************************)
(* The test program of src/disk2 at the disk's real size: testcase.c, run  *)
(* as "format 1", "readwrite 2", "readwrite 3" and "readwrite 4", each run *)
(* a process.  One call is one step.                                       *)
(***************************************************************************)
EXTENDS FileSystemProperties

LOCAL INSTANCE SequencesExt
LOCAL INSTANCE TLC

VARIABLES
  pc,  \* the call that is next
  fd   \* the variables of the test cases that keep descriptors

testVars == <<pc, fd>>

\* A call: its name, its path or its variable for the descriptor, its length
\* in blocks, what the buffer begins with.
Call(op, path, n, m, v) == [op |-> op, path |-> path, fd |-> n, len |-> m, data |-> v]

Make(path) == Call("MakeDir", path, 0, 0, "")
Rmdir(path) == Call("RemoveDir", path, 0, 0, "")
ListDirContents(path) == Call("EnumerateDirStatus", path, 0, 0, "")
Open(path, n) == Call("OpenFile", path, n, 0, "")
Create(path, n) == Call("CreateFile", path, n, 0, "")
WriteTo(n, m, v) == Call("WriteFile", <<>>, n, m, v)
ReadBack(n, v) == Call("ReadFile", <<>>, n, 1, v)
Close(n) == Call("CloseFile", <<>>, n, 0, "")
Rm(path) == Call("RemoveFile", path, 0, 0, "")

Numbered(name, i) == name \o ToString(i)
UserDir(i) == <<"home", Numbered("user", i)>>
UserFile(i, j) == UserDir(i) \o <<Numbered("file", j)>>
TestFile(i) == <<"home", "test", Numbered("file", i)>>
Dev(i) == <<"etc", Numbered("dev", i)>>
FileName(i, j) == Numbered("user", i) \o Numbered("/file", j)
Char(i) == Numbered("char", i)

\* f(first), ..., f(last), one after the other.
For(first, last, f(_)) == FlattenSeq([i \in 1 .. last - first + 1 |-> f(first + i - 1)])
ForDown(first, last, f(_)) == For(0, first - last, LAMBDA i : f(first - i))

---------------------------------------------------------------------------
TestCase1 ==
  <<Make(<<"tmp">>), Make(<<"usr">>), Make(<<"etc">>), Make(<<"home">>)>>
  \o For(0, 6, LAMBDA i : <<Make(UserDir(i))>>)
  \o For(0, 23, LAMBDA i : <<Make(Dev(i))>>)
  \o <<ListDirContents(<<"home">>), ListDirContents(<<"etc">>)>>
  \o ForDown(23, 0, LAMBDA i : <<Rmdir(Dev(i))>>)
  \o <<ListDirContents(<<"etc">>),
       Rmdir(<<"etc">>), Rmdir(<<"usr">>), Rmdir(<<"tmp">>)>>

TestCase2 ==
  <<ListDirContents(<<"home">>)>>
  \o For(0, 6, LAMBDA i : For(0, 6, LAMBDA j :
       <<Create(UserFile(i, j), 0), WriteTo(0, 1, FileName(i, j)), Close(0)>>))
  \o For(0, 6, LAMBDA i : <<ListDirContents(UserDir(i))>>)

\* The four files get the characters of alphabet in turn and are read again.
TestCase3 ==
  <<Make(<<"home", "test">>)>>
  \o For(0, 3, LAMBDA i : <<Create(TestFile(i), i)>>)
  \o For(0, 71, LAMBDA k : <<WriteTo(k % 4, 1, Char(k))>>)
  \o For(0, 3, LAMBDA i : <<Close(i)>>)
  \o For(0, 3, LAMBDA i : <<Open(TestFile(i), i)>>)
  \o For(0, 71, LAMBDA k : <<ReadBack(k % 4, Char(k))>>)

\* 513 bytes are nine blocks.
TestCase4 ==
  For(0, 3, LAMBDA i : <<Rm(UserFile(6, 2 * i))>>)
  \o For(0, 2, LAMBDA i :
       <<Open(UserFile(6, 2 * i + 1), 0), WriteTo(0, 9, FileName(6, 2 * i + 1)), Close(0)>>)
  \o <<ListDirContents(UserDir(6))>>
  \o For(0, 3, LAMBDA i :
       <<Create(UserFile(6, 2 * i), 0), WriteTo(0, 9, FileName(6, 2 * i)),
         WriteTo(0, 9, FileName(6, 2 * i)), Close(0)>>)
  \o <<ListDirContents(UserDir(6))>>

Run(mount, test) ==
  <<Call(mount, <<>>, 0, 0, "")>> \o test \o <<Call("Unmount", <<>>, 0, 0, "")>>

main ==
  Run("MountFormat", TestCase1) \o Run("MountReadWrite", TestCase2)
  \o Run("MountReadWrite", TestCase3) \o Run("MountReadWrite", TestCase4)

\* What the calls are made with.
TestDirs == {<<"tmp">>, <<"usr">>, <<"etc">>, <<"home">>, <<"home", "test">>}
            \cup {UserDir(i) : i \in 0 .. 6} \cup {Dev(i) : i \in 0 .. 23}
TestFiles == {UserFile(i, j) : i \in 0 .. 6, j \in 0 .. 6} \cup {TestFile(i) : i \in 0 .. 3}
TestPayload == {FileName(i, j) : i \in 0 .. 6, j \in 0 .. 6} \cup {Char(k) : k \in 0 .. 71}

---------------------------------------------------------------------------
Do(c) ==
  \/ c.op = "MountFormat" /\ MountFormat
  \/ c.op = "MountReadWrite" /\ MountReadWrite
  \/ c.op = "Unmount" /\ Unmount
  \/ c.op = "MakeDir" /\ MakeDir(c.path)
  \/ c.op = "RemoveDir" /\ RemoveDir(c.path)
  \/ c.op = "EnumerateDirStatus" /\ EnumerateDirStatus(c.path)
  \/ c.op = "OpenFile" /\ OpenFile(c.path, FALSE)
  \/ c.op = "CreateFile" /\ OpenFile(c.path, TRUE)
  \/ c.op = "RemoveFile" /\ RemoveFile(c.path)
  \/ c.op = "WriteFile" /\ WriteFile(fd[c.fd], c.len, c.data)
  \/ c.op = "ReadFile" /\ ReadFile(fd[c.fd], c.len)
  \/ c.op = "CloseFile" /\ CloseFile(fd[c.fd])

TestInit == Init /\ ViewInit /\ pc = 1 /\ fd = [n \in 0 .. 3 |-> 0]

TestStep ==
  /\ pc <= Len(main) /\ pc' = pc + 1
  /\ Do(main[pc]) /\ ViewNext
  /\ fd' = IF main[pc].op \in {"OpenFile", "CreateFile"}
             THEN [fd EXCEPT ![main[pc].fd] = result'[2]] ELSE fd

Finished == pc > Len(main) /\ UNCHANGED <<vars, view, testVars>>

TestSpec == TestInit /\ [][TestStep \/ Finished]_<<vars, view, testVars>>

---------------------------------------------------------------------------
\* No call of the test program fails, and test case 3 reads what it wrote: it
\* never prints "TestCase 3 : error!!" (testcase.c 244-250).
TestsPass ==
  pc > 1 =>
    LET c == main[pc - 1]
    IN  /\ result # Ret(-1)
        /\ c.op = "ReadFile" => result = <<"read", <<DataBlock(c.data)>>>>
=============================================================================
