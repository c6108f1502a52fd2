------------------------------- MODULE MCTerminal -------------------------------
EXTENDS Terminal, TLC
\* The cores are alike, and so are tasks scheduled for the same byte, whatever their
\* numbers.
Cores == Permutations(Writers)
Bytes == {k.data : k \in scheduled}
Alike == <<vars, keyboard, shift, termE0Key, key, chars, hurried,
           [d \in Bytes |-> Cardinality({k \in scheduled : k.data = d})]>>
================================================================================
