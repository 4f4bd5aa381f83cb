------------------------------ MODULE MCConsole ------------------------------
EXTENDS Console

MCCommands == {<<"c">>, <<"c", "c">>, <<"d">>}
MCExternal == {<<"c">>, <<"c", "c">>}
MCNoEntry == {<<"c", "c">>}
MCExit == <<"d">>
MCNumbers == {IntMin, -10, 0, 105, IntMax}

=============================================================================
