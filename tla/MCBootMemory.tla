------------------------------ MODULE MCBootMemory ------------------------------
EXTENDS BootMemory
MCMaps == {<<[at |-> 1, pages |-> 3], [at |-> 10, pages |-> 2], [at |-> 20, pages |-> 14]>>,
  <<[at |-> 1, pages |-> 5], [at |-> 20, pages |-> 15], [at |-> 40, pages |-> 4]>>,
  <<[at |-> 1, pages |-> 2], [at |-> 10, pages |-> 14]>>,
  <<[at |-> 1, pages |-> 14], [at |-> 20, pages |-> 6]>>}
================================================================================
