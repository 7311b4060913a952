-------------------------------- MODULE MCFs --------------------------------
EXTENDS Fs, TLC

ProcSymmetry == Permutations(Procs)

MCPaths == {<<"a">>, <<"a", "b">>, <<"c">>, <<>>}

Entry(n, k, z) == [name |-> n, kind |-> k, size |-> z]

\* An archive that unpacks, with "." inside a name, a special file and a
\* directory that is there already; one with a file where a directory is
\* needed; one with a name twice; one with a bad header.
MCArchives ==
    {<<Entry(<<".">>, DIR, 0), Entry(<<".", "a", ".", "b">>, REG, 1),
       Entry(<<"c">>, "fifo", 0), Entry(<<"a">>, DIR, 0)>>,
     <<Entry(<<"a">>, REG, 2), Entry(<<"a", "b">>, REG, 1)>>,
     <<Entry(<<"a">>, REG, 0), Entry(<<".", "a">>, REG, 1)>>,
     <<Entry(<<"a">>, DIR, 0), Entry(<<"b">>, "bad", 0)>>}
=============================================================================
