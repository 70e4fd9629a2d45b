-------------------------------- MODULE EnvMap --------------------------------
(***************************************************************************)
(* What the environment promises its users: a map from names to values.    *)
(* setenv changes one variable, himport_r applies a text line by line.     *)
(* EnvHash shows how far lib/hashtable.c keeps this promise.               *)
(***************************************************************************)
EXTENDS Integers, Sequences, FiniteSets, SequencesExt

CONSTANTS Keys,     \* names of variables
          Vals,     \* non-empty values
          None,     \* no value: the variable does not exist
          Texts     \* imported texts: sequences of [name, value] lines,
                    \* where value None stands for "name" and "name="

VARIABLE env

TypeOK == env \in [Keys -> Vals \cup {None}]

Init == env = [k \in Keys |-> None]

Set(k, v) == env' = [env EXCEPT ![k] = v]

Unset(k) == env' = [env EXCEPT ![k] = None]

(* A line without a name ends the import.                                   *)
Read(text) == SelectInSeq(text, LAMBDA line : line.name \notin Keys)

Lines(text) == IF Read(text) = 0 THEN DOMAIN text ELSE 1..(Read(text) - 1)

(* The lines that count: all of them, or the first one for each listed      *)
(* name; never those of the names protected by deny.                        *)
Counts(text, list, deny, i) ==
    /\ text[i].name \notin deny
    /\ list # {} => /\ text[i].name \in list
                    /\ \A j \in 1..(i - 1) : text[j].name # text[i].name

(* The value a text gives k, where m has the old ones.                      *)
Given(m, text, list, deny, k) ==
    LET lines == {i \in Lines(text) : text[i].name = k /\ Counts(text, list, deny, i)}
        missing == k \in list /\ \A i \in DOMAIN text : text[i].name # k
    IN IF lines # {} THEN text[Max(lines)].value
       ELSE IF missing /\ k \notin deny /\ Read(text) = 0 THEN None
       ELSE m[k]

(* A text is applied to the old variables, or to none when they are cleared *)
Applied(m, text, list, deny, clear) ==
    LET old == IF clear THEN [k \in Keys |-> None] ELSE m
    IN [k \in Keys |-> Given(old, text, list, deny, k)]

Import(text, list, deny, clear) == env' = Applied(env, text, list, deny, clear)

Next == \/ \E k \in Keys : Unset(k) \/ \E v \in Vals : Set(k, v)
        \/ \E text \in Texts, list, deny \in SUBSET Keys, clear \in BOOLEAN :
              Import(text, list, deny, clear)

Spec == Init /\ [][Next]_env
===============================================================================
