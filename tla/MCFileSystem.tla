--------------------------- MODULE MCFileSystem ---------------------------
EXTENDS FileSystemInvariant, TLC

\* A directory with three names; a file can be in its place.
TreeDirs == {<<"a">>, <<"a", "x">>}
TreeFiles == {<<"a">>, <<"a", "y">>, <<"a", "z">>}

\* Nothing depends on what is written, only on whether it is the same.
Symmetry == Permutations(Payload)
=============================================================================
