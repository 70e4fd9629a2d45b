-------------------------------- MODULE EnvHash --------------------------------
(***************************************************************************)
(* The hash table of environment variables, lib/hashtable.c, as used by     *)
(* setenv and "env import": open addressing with double hashing, deleted    *)
(* slots that stay behind, and changes that are refused or run out of       *)
(* memory half way.                                                         *)
(*                                                                          *)
(* The hash of a name is an arbitrary number, fixed at the start; a text is  *)
(* the sequence of its lines.  env_flags_validate and the callbacks of       *)
(* variables are the caller's choice of a verdict.                          *)
(***************************************************************************)
EXTENDS Integers, Sequences, FiniteSets, FiniteSetsExt, SequencesExt

CONSTANTS Keys, Vals, None, Texts,
          NoName,       \* the name of a line such as "=value"
          Lists,        \* lists of variables given to "env import" and "env default"
          Denied,       \* sets of variables an import may not change
          Nels,         \* numbers of entries asked of hcreate_r
          Hashes,       \* assignments of hash values to names
          MaxOom        \* bound: how often memory runs out

ASSUME TableAssumption ==
    /\ None \notin Keys \cup Vals
    /\ NoName \notin Keys
    /\ Nels \subseteq Nat \ {0, 1}
    /\ Lists \subseteq SUBSET Keys

VARIABLES htab,     \* struct hsearch_data: table, size, filled
          hash,     \* name -> hash value, before it is reduced
          oom       \* history: memory ran out so often

vars == <<htab, hash, oom>>

EmptySlot == [used |-> 0, key |-> None, data |-> None]
DeletedSlot == [used |-> -1, key |-> None, data |-> None]

-------------------------------------------------------------------------------
(* hcreate_r                                                                *)

(* No even number is passed.                                                *)
isprime(n) ==
    LET Stops(div) == div * div >= n \/ n % div = 0
        div == CHOOSE d \in {3 + 2 * i : i \in 0..n} :
                  Stops(d) /\ \A i \in 0..n : 3 + 2 * i < d => ~Stops(3 + 2 * i)
    IN n % div # 0

MakeOdd(n) == IF n % 2 = 0 THEN n + 1 ELSE n

hcreate_r(nel) ==
    LET size == Min({n \in {MakeOdd(nel) + 2 * i : i \in 0..nel} : isprime(n)})
    IN [table |-> [i \in 1..size |-> EmptySlot], size |-> size, filled |-> 0]

-------------------------------------------------------------------------------
(* hsearch_r                                                                *)

Home(h, k) == LET m == hash[k] % h.size IN IF m = 0 THEN 1 ELSE m

Step(h, home, idx) ==
    LET hval2 == 1 + (home % (h.size - 2))
    IN IF idx <= hval2 THEN h.size + idx - hval2 ELSE idx - hval2

(* The n-th slot tried.                                                     *)
Probe(h, home) ==
    LET p[n \in 0..h.size] == IF n = 0 THEN home ELSE Step(h, home, p[n - 1]) IN p

Hit(h, k, idx) == /\ h.table[idx].key = k
                  /\ h.table[idx].used = Home(h, k)

(* Where the search ends: at the name, at an empty slot, or back at home.   *)
SearchEnd_AtDeleted(h, k) ==
    LET home == Home(h, k)
        from[idx \in 1..h.size] ==
            LET next == Step(h, home, idx)
            IN IF h.table[idx].used <= 0 \/ Hit(h, k, idx) THEN idx
               ELSE IF next = home THEN home ELSE from[next]
    IN from[home]

SearchEnd(h, k) ==
    LET home == Home(h, k)
        from[idx \in 1..h.size] ==
            LET next == Step(h, home, idx)
            IN IF h.table[idx].used = 0 \/ Hit(h, k, idx) THEN idx
               ELSE IF next = home THEN home ELSE from[next]
    IN from[home]

Found(h, k) == Hit(h, k, SearchEnd(h, k))

Put(h, idx, slot, more) ==
    [h EXCEPT !.table[idx] = slot, !.filled = @ + more]

(* _hdelete: the slot is marked, not emptied.                               *)
Deleted_Emptied(h, idx) == Put(h, idx, EmptySlot, -1)

Deleted(h, idx) == Put(h, idx, DeletedSlot, -1)

(* env_flags_validate and the callback of a variable accept or refuse a      *)
(* change; strdup may find no memory for the name or for the value.          *)
Verdicts == {"ok", "refused", "nokey", "nodata"}

Overwrite(h, idx, v, verdict) ==
    CASE verdict = "ok"      -> [h EXCEPT !.table[idx].data = v]
      [] verdict = "refused" -> h
      [] OTHER               -> [h EXCEPT !.table[idx].data = None]

(* The new entry is in the table before it is checked.                      *)
Create(h, idx, k, v, verdict) ==
    LET used == Home(h, k)
        entered == Put(h, idx, [used |-> used, key |-> k, data |-> v], 1)
    IN CASE verdict = "ok"      -> entered
         [] verdict = "refused" -> Deleted(entered, idx)
         [] verdict = "nokey"   -> Put(h, idx, [used |-> used, key |-> None, data |-> None], 0)
         [] verdict = "nodata"  -> Put(h, idx, [used |-> used, key |-> k, data |-> None], 0)

(* first_deleted: only the first slot tried is considered for reuse.        *)
NewSlot(h, k) == LET home == Home(h, k)
                 IN IF h.table[home].used = -1 THEN home ELSE SearchEnd(h, k)

(* hsearch_r with action ENTER                                              *)
hsearch_r(h, k, v, verdict) ==
    IF Found(h, k) THEN Overwrite(h, SearchEnd(h, k), v, verdict)
    ELSE IF h.filled = h.size THEN h
    ELSE Create(h, NewSlot(h, k), k, v, verdict)

hdelete_r(h, k, verdict) ==
    IF Found(h, k) /\ verdict = "ok" THEN Deleted(h, SearchEnd(h, k)) ELSE h

(* hsearch_r with action FIND, and getenv: the value of k                   *)
Lookup(h) == [k \in Keys |-> LET idx == SearchEnd(h, k)
                             IN IF Hit(h, k, idx) THEN h.table[idx].data ELSE None]

-------------------------------------------------------------------------------
(* himport_r and hexport_r                                                  *)

(* Memory may run out for the copies made for one line of a text.           *)
Short(line, what) == [line |-> line, what |-> what]
Ample == Short(0, "nodata")

(* One line: left holds the listed variables not seen yet (localvars).  The  *)
(* copies for a new entry are made before it is checked, those for an old    *)
(* one after.  A line that cannot be entered is reported and passed over.    *)
ImportLine(list, deny, short, acc, line) ==
    LET refused == line.name \in deny
        old == Found(acc.h, line.name)
        allowed == IF refused THEN "refused" ELSE "ok"
        verdict == IF acc.n = short.line /\ ~(refused /\ old) THEN short.what ELSE allowed
        h == IF line.value = None THEN hdelete_r(acc.h, line.name, allowed)
                                  ELSE hsearch_r(acc.h, line.name, line.value, verdict)
        next == [acc EXCEPT !.n = @ + 1]
    IN IF acc.failed THEN acc
       ELSE IF line.name = NoName THEN [acc EXCEPT !.failed = TRUE]
       ELSE IF list # {} /\ line.name \notin acc.left THEN next
       ELSE [next EXCEPT !.h = h, !.left = @ \ {line.name}]

(* Listed variables that the text does not mention are deleted.             *)
DropRest(h, rest, deny) ==
    FoldSet(LAMBDA k, acc : hdelete_r(acc, k, IF k \in deny THEN "refused" ELSE "ok"), h, rest)

Imported(h, text, list, deny, short) ==
    FoldLeft(LAMBDA acc, line : ImportLine(list, deny, short, acc, line),
             [h |-> h, left |-> list, failed |-> FALSE, n |-> 1], text)

himport_r_RestAlways(h, text, list, deny, clear, nel, short) ==
    LET end == Imported(IF clear THEN hcreate_r(nel) ELSE h, text, list, deny, short)
    IN DropRest(end.h, end.left, deny)

(* The table is destroyed and created anew, or kept.                        *)
himport_r(h, text, list, deny, clear, nel, short) ==
    LET end == Imported(IF clear THEN hcreate_r(nel) ELSE h, text, list, deny, short)
    IN IF end.failed THEN end.h ELSE DropRest(end.h, end.left, deny)

(* The lines of all entries; hexport_r sorts them, one for each name.       *)
hexport_r_Short(h) ==
    SetToSeq({[name |-> h.table[i].key, value |-> h.table[i].data] :
                 i \in {j \in 1..(h.size - 1) : h.table[j].used > 0}})

hexport_r(h) ==
    SetToSeq({[name |-> h.table[i].key, value |-> h.table[i].data] :
                 i \in {j \in 1..h.size : h.table[j].used > 0}})

-------------------------------------------------------------------------------
Init == /\ \E nel \in Nels : htab = hcreate_r(nel)
        /\ hash \in Hashes
        /\ oom = 0

(* setenv with a value                                                      *)
Setenv(k, v, verdict) ==
    /\ verdict \in {"nokey", "nodata"} => oom < MaxOom
    /\ verdict = "nokey" => ~Found(htab, k)
    /\ htab' = hsearch_r(htab, k, v, verdict)
    /\ oom' = IF verdict \in {"nokey", "nodata"} THEN oom + 1 ELSE oom
    /\ UNCHANGED hash

(* setenv without one, and "env delete"                                     *)
Unsetenv(k, verdict) ==
    /\ verdict \in {"ok", "refused"}
    /\ htab' = hdelete_r(htab, k, verdict)
    /\ UNCHANGED <<hash, oom>>

(* "env import", "env default" and the import at start-up.  Only             *)
(* set_default_vars gives a list, and it keeps the table.  Without memory for  *)
(* the copy of the text nothing happens.                                      *)
Import(text, list, deny, clear, nel, short) ==
    /\ list # {} => ~clear
    /\ short # Ample => oom < MaxOom
    /\ htab' = himport_r(htab, text, list, deny, clear, nel, short)
    /\ oom' = IF short # Ample THEN oom + 1 ELSE oom
    /\ UNCHANGED hash

Next == \/ \E k \in Keys, v \in Vals, verdict \in Verdicts : Setenv(k, v, verdict)
        \/ \E k \in Keys, verdict \in Verdicts : Unsetenv(k, verdict)
        \/ \E text \in Texts, list \in Lists, deny \in Denied, clear \in BOOLEAN, nel \in Nels :
              \E short \in {Ample} \union {Short(i, what) : i \in 1..Len(text), what \in {"nokey", "nodata"}} :
                 Import(text, list, deny, clear, nel, short)

Spec == Init /\ [][Next]_vars
-------------------------------------------------------------------------------
(* Properties                                                               *)

Live(h) == {i \in 1..h.size : h.table[i].used > 0}
Empty(h) == {i \in 1..h.size : h.table[i].used = 0}

Slot == [used : Int, key : Keys \cup {None}, data : Vals \cup {None}]

(* The table has the shape hcreate_r gave it, and filled counts its slots.  *)
TypeOK == /\ htab.size \in Nat
          /\ htab.table \in [1..htab.size -> Slot]
          /\ htab.filled \in -MaxOom..htab.size
          /\ \A i \in 1..htab.size : htab.table[i].used \in -1..(htab.size - 1)
          /\ oom \in 0..MaxOom

(* hsearch_r finds every entry of the table under its own name, whatever    *)
(* was entered, refused and deleted before; so no name is in it twice.      *)
Findable == \A i \in Live(htab) :
               htab.table[i].key # None => SearchEnd(htab, htab.table[i].key) = i

Map == INSTANCE EnvMap WITH env <- Lookup(htab)

(* While a slot is still empty, an accepted setenv changes the one variable *)
(* it names and nothing else, and a refused one changes none; an accepted    *)
(* deletion removes the one variable.                                        *)
ExactChanges ==
    \A k \in Keys :
       /\ Empty(htab) # {} =>
             \A v \in Vals :
                /\ Lookup(hsearch_r(htab, k, v, "ok")) = [Lookup(htab) EXCEPT ![k] = v]
                /\ Lookup(hsearch_r(htab, k, v, "refused")) = Lookup(htab)
       /\ Lookup(hdelete_r(htab, k, "ok")) = [Lookup(htab) EXCEPT ![k] = None]

(* himport_r gives each variable the value of the last line that counts for *)
(* it (of the first one, for variables that are listed), deletes the listed  *)
(* variables the text does not mention, keeps what is protected, and stops   *)
(* at a line without a name; provided slots enough are empty and memory      *)
(* does not run out during the import.                                      *)
ImportIsExact ==
    \A text \in Texts, list \in Lists, deny \in Denied, clear \in BOOLEAN, nel \in Nels :
       (list = {} \/ ~clear) /\ (clear \/ Cardinality(Empty(htab)) >= Len(text)) =>
          Lookup(himport_r(htab, text, list, deny, clear, nel, Ample))
             = Map!Applied(Lookup(htab), text, list, deny, clear)

(* saveenv writes what hexport_r returns, and the next start imports it:    *)
(* the environment is the same, whatever happened to the table before.      *)
RoundTrip ==
    oom = 0 => \A nel \in Nels :
       Lookup(himport_r(htab, hexport_r(htab), {}, {}, TRUE, nel, Ample)) = Lookup(htab)

(* The whole promise, without a condition on empty slots: "This version     *)
(* will create a new entry or update an existing one" (hsearch_r).          *)
ImplementsMap == Map!Spec
===============================================================================
