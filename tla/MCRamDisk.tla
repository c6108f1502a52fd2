-------------------------------- MODULE MCRamDisk --------------------------------
EXTENDS RamDisk
MCName == {"a", "ab", "d", "dx"}
MCPrefix == {<<n, n>> : n \in MCName} \cup {<<"a", "ab">>, <<"d", "dx">>}
MCPath == {<<"a">>, <<"ab">>, <<"d">>, <<"d", "a">>, <<"d", "ab">>}
MCStray == {<<>>, <<"a">>, <<"dx">>}
MCContent == {<<"x">>, <<"y", "z", "x">>}
================================================================================
