----------------------------- MODULE BindingHash -----------------------------
(***************************************************************************)
(* The hash table of the intercept bindings (client/client/intercept.c):   *)
(* init_bindings_hash inserts the indexes of spindle_bindings by linear    *)
(* probing on hash_func (djb2, % HASH_TABLE_SIZE, UINT_MAX for names       *)
(* longer than MAX_BINDING_STR_SIZE); index 0, the "" entry, marks an      *)
(* empty slot.  lookup_in_binding_hash probes from the same slot.          *)
(* A name is a sequence of byte values.  The binding table is chosen in    *)
(* Init among all tables of BindingCount names over a small alphabet, and  *)
(* the insertion loop runs one probe per step.                             *)
(***************************************************************************)
EXTENDS Naturals, Sequences

CONSTANTS
  HASH_TABLE_SIZE,       \* a power of two, as 128 is
  MAX_BINDING_STR_SIZE,
  BindingCount,          \* named bindings between the "" entry and NULL
  Names                  \* the names a binding may have

ASSUME \E k \in 1 .. 30 : HASH_TABLE_SIZE = 2^k

\* UINT_MAX, no slot: TLC's integers end at 2^31 - 1, which stands for it.
UINT_MAX == 2147483647
Slots == 0 .. HASH_TABLE_SIZE - 1

\* hash_func: hash = hash * 33 + c over the bytes, unsigned 32 bit, then
\* % HASH_TABLE_SIZE.  As HASH_TABLE_SIZE divides 2^32, reducing modulo
\* HASH_TABLE_SIZE after every step gives the same result as the 32-bit
\* arithmetic.  The length test comes after the update, so a name of
\* exactly MAX_BINDING_STR_SIZE bytes is hashed.
RECURSIVE Djb2(_, _, _)
Djb2(str, i, hash) ==
  IF i > Len(str) THEN hash % HASH_TABLE_SIZE
  ELSE IF i > MAX_BINDING_STR_SIZE THEN UINT_MAX
  ELSE Djb2(str, i + 1, (hash * 33 + str[i]) % HASH_TABLE_SIZE)

hash_func(str) == Djb2(str, 1, 5381 % HASH_TABLE_SIZE)

\* The slot after pos, wrapping at HASH_TABLE_SIZE.
NextSlot(pos) == IF pos + 1 = HASH_TABLE_SIZE THEN 0 ELSE pos + 1

VARIABLES
  bindings,   \* spindle_bindings[0 .. BindingCount]: the names, "" first
  table,      \* binding_hash_table
  cur,        \* the binding being inserted
  pos,        \* the slot being probed
  phase       \* "next", "probe", "done" or "assert" (an assertion failed)

vars == <<bindings, table, cur, pos, phase>>

Init ==
  /\ bindings \in {b \in [0 .. BindingCount -> Names \cup {<<>>}] :
                    b[0] = <<>> /\ \A i \in 1 .. BindingCount : b[i] # <<>>}
  /\ table = [s \in Slots |-> 0]
  /\ cur = 0
  /\ pos = 0
  /\ phase = "next"

\* Variant: the probe start is not reset to the hash of the new name.
NextBindingNoReset ==
  /\ phase = "next"
  /\ IF BindingCount + 2 >= HASH_TABLE_SIZE
     THEN phase' = "assert" /\ UNCHANGED <<cur, pos>>
     ELSE IF cur > BindingCount
     THEN phase' = "done" /\ UNCHANGED <<cur, pos>>
     ELSE IF bindings[cur] = <<>>
     THEN cur' = cur + 1 /\ UNCHANGED <<pos, phase>>
     ELSE LET h == hash_func(bindings[cur]) IN
          /\ phase' = IF h = UINT_MAX THEN "assert" ELSE "probe"
          /\ UNCHANGED <<cur, pos>>
  /\ UNCHANGED <<bindings, table>>

\* The for loop of init_bindings_hash: the size assertion (the array, with
\* the "" and NULL entries, is smaller than the table), the end of the
\* array, an empty name skipped, or the hash of the next name.
NextBinding ==
  /\ phase = "next"
  /\ IF BindingCount + 2 >= HASH_TABLE_SIZE
     THEN phase' = "assert" /\ UNCHANGED <<cur, pos>>
     ELSE IF cur > BindingCount
     THEN phase' = "done" /\ UNCHANGED <<cur, pos>>
     ELSE IF bindings[cur] = <<>>
     THEN cur' = cur + 1 /\ UNCHANGED <<pos, phase>>
     ELSE LET h == hash_func(bindings[cur]) IN
          /\ phase' = IF h = UINT_MAX THEN "assert" ELSE "probe"
          /\ pos' = IF h = UINT_MAX THEN pos ELSE h
          /\ UNCHANGED cur
  /\ UNCHANGED <<bindings, table>>

\* Variant: the slot gets the index of the next binding.
ProbeOffByOne ==
  /\ phase = "probe"
  /\ IF table[pos] # 0
     THEN pos' = NextSlot(pos) /\ UNCHANGED <<table, cur, phase>>
     ELSE /\ table' = [table EXCEPT ![pos] = cur + 1]
          /\ cur' = cur + 1
          /\ phase' = "next"
          /\ UNCHANGED pos
  /\ UNCHANGED bindings

\* One turn of the while loop: step past an occupied slot, or place the
\* index in an empty one and go on with the next binding.
Probe ==
  /\ phase = "probe"
  /\ IF table[pos] # 0
     THEN pos' = NextSlot(pos) /\ UNCHANGED <<table, cur, phase>>
     ELSE /\ table' = [table EXCEPT ![pos] = cur]
          /\ cur' = cur + 1
          /\ phase' = "next"
          /\ UNCHANGED pos
  /\ UNCHANGED bindings

Next == NextBinding \/ Probe

Spec == Init /\ [][Next]_vars /\ WF_vars(Next)

\* Variant: the lookup gives up at the first slot holding another name.
ProbingFirstOnly(name, p, fuel) ==
  IF table[p] = 0 THEN 0
  ELSE IF bindings[table[p]] = name THEN table[p]
  ELSE 0

\* lookup_in_binding_hash: UINT_MAX gives NULL (0 here); otherwise probe
\* until an empty slot, returning the first index whose name matches.  The
\* probe is cut after a full turn of the table ("loops").
RECURSIVE Probing(_, _, _)
Probing(name, p, fuel) ==
  IF fuel = 0 THEN "loops"
  ELSE IF table[p] = 0 THEN 0
  ELSE IF bindings[table[p]] = name THEN table[p]
  ELSE Probing(name, NextSlot(p), fuel - 1)

lookup_in_binding_hash(name) ==
  IF hash_func(name) = UINT_MAX THEN 0
  ELSE Probing(name, hash_func(name), HASH_TABLE_SIZE)
-----------------------------------------------------------------------------
TypeOK ==
  /\ table \in [Slots -> 0 .. BindingCount]
  /\ cur \in 0 .. BindingCount + 1
  /\ pos \in Slots
  /\ phase \in {"next", "probe", "done", "assert"}

\* The slots from a to b, going round the table.
RECURSIVE SlotsFrom(_, _)
SlotsFrom(a, b) == IF a = b THEN {b} ELSE {a} \cup SlotsFrom(NextSlot(a), b)

\* The linear-probing invariant of init_bindings_hash, at every step of
\* the loop: no empty slot lies between the hash slot of an inserted
\* binding and the slot that holds it, so a probe from the hash slot finds
\* it before it stops.
ProbeChainsUnbroken ==
  \A s \in Slots :
    table[s] # 0 =>
      \A t \in SlotsFrom(hash_func(bindings[table[s]]), s) : table[t] # 0

\* The names looked up: the binding names, the empty name, and a name too
\* long to be hashed.
LookupNames == Names \cup {<<>>, [i \in 1 .. MAX_BINDING_STR_SIZE + 1 |-> 1]}

\* Reference definition: the first binding of that name, NULL (0) for none
\* and for a name longer than MAX_BINDING_STR_SIZE.
RefLookup(name) ==
  IF Len(name) > MAX_BINDING_STR_SIZE
     \/ ~\E i \in 1 .. BindingCount : bindings[i] = name
  THEN 0
  ELSE CHOOSE i \in 1 .. BindingCount :
         bindings[i] = name /\ \A j \in 1 .. i - 1 : bindings[j] # name

\* Once the table is built, lookup_in_binding_hash returns, for every name,
\* exactly the binding the reference definition names, and terminates.
LookupMatchesReference ==
  phase = "done" => \A n \in LookupNames : lookup_in_binding_hash(n) = RefLookup(n)
=============================================================================
