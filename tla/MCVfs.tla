------------------------------- MODULE MCVfs --------------------------------
EXTENDS Vfs

\* /tmp/a, /dev/null, /, a and ../a; a file is renamed to b
MCArgs == {[abs |-> TRUE, parts |-> <<"tmp", "a">>], [abs |-> TRUE, parts |-> <<"dev", "null">>],
           [abs |-> TRUE, parts |-> <<"">>],
           [abs |-> FALSE, parts |-> <<"a">>], [abs |-> FALSE, parts |-> <<"..", "a">>]}
MCNewName == [abs |-> FALSE, parts |-> <<"b">>]
=============================================================================
