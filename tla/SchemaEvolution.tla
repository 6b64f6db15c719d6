---------------------------- MODULE SchemaEvolution ----------------------------
(* What `migrate` promises of the schema, with the rows left aside: a          *)
(* migration that is applied has changed the schema by each of its operations, *)
(* and each found what it needed; it stops at an operation that does not fit   *)
(* the schema or that rows may refuse, and in a transaction it then changes    *)
(* nothing.  What an operation needs, does and may be refused for is up to the *)
(* module that uses this one.                                                  *)
EXTENDS Integers, Sequences

CONSTANTS
    None,
    All, Migration(_),      \* the migrations: [after, atomic, ops]
    First,                  \* the schema before the first of them
    Fits(_, _),             \* the operation finds what it needs in the schema
    Change(_, _),           \* the schema after the operation
    MayRefuse(_, _)         \* rows can make the store refuse the operation

VARIABLES schema, applied, current, done, cut, failed

evolutionVars == <<schema, applied, current, done, cut, failed>>

EvolutionInit ==
    /\ schema = First
    /\ applied = {} /\ current = None /\ done = 0 /\ cut = {} /\ failed = None

(* The schema after each of the operations.                                    *)
Changed(ops, s) ==
    LET after[n \in 0 .. Len(ops)] == IF n = 0 THEN s ELSE Change(ops[n], after[n - 1])
    IN after
AllFit(ops, s, n) == \A k \in 1 .. n : Fits(ops[k], Changed(ops, s)[k - 1])

(* A data step leaves checks pending, for which later operations of its        *)
(* transaction may be refused.                                                 *)
Stirred(ops, n) == \E k \in 1 .. n : ops[k].op = "RunPython"
MayStopAt(ops, s, n) ==
    /\ AllFit(ops, s, n - 1)
    /\ LET before == Changed(ops, s)[n - 1] IN
       ~Fits(ops[n], before) \/ MayRefuse(ops[n], before) \/ Stirred(ops, n - 1)

Due(m) ==
    /\ failed = None /\ current = None
    /\ m \in All \ applied /\ Migration(m).after \subseteq applied

Apply(m) ==
    /\ Due(m) /\ Migration(m).atomic
    /\ LET ops == Migration(m).ops IN
       /\ AllFit(ops, schema, Len(ops))
       /\ schema' = Changed(ops, schema)[Len(ops)]
    /\ applied' = applied \union {m}
    /\ UNCHANGED <<current, done, cut, failed>>

Stop(m) ==
    /\ Due(m) /\ Migration(m).atomic
    /\ \E n \in 1 .. Len(Migration(m).ops) : MayStopAt(Migration(m).ops, schema, n)
    /\ failed' = m
    /\ UNCHANGED <<schema, applied, current, done, cut>>

Start(m) ==
    /\ Due(m) /\ ~Migration(m).atomic
    /\ current' = m /\ done' = 0
    /\ UNCHANGED <<schema, applied, cut, failed>>

UnderWay == current # None /\ done < Len(Migration(current).ops)
NextOperation == Migration(current).ops[done + 1]

Step ==
    /\ UnderWay /\ Fits(NextOperation, schema)
    /\ schema' = Change(NextOperation, schema)
    /\ done' = done + 1
    /\ UNCHANGED <<applied, current, cut, failed>>

StopInside ==
    /\ UnderWay
    /\ ~Fits(NextOperation, schema) \/ MayRefuse(NextOperation, schema)
    /\ failed' = current /\ current' = None /\ done' = 0
    /\ UNCHANGED <<schema, applied, cut>>

Complete ==
    /\ current # None /\ done = Len(Migration(current).ops)
    /\ applied' = applied \union {current}
    /\ current' = None /\ done' = 0
    /\ UNCHANGED <<schema, cut, failed>>

Die ==
    /\ current # None
    /\ cut' = IF done = 0 THEN cut ELSE cut \union {current}
    /\ current' = None /\ done' = 0
    /\ UNCHANGED <<schema, applied, failed>>

(* An index that is built outside a transaction outlives the crash.            *)
DieInside ==
    /\ UnderWay /\ NextOperation.op = "AddIndex" /\ Fits(NextOperation, schema)
    /\ schema' = Change(NextOperation, schema)
    /\ cut' = cut \union {current}
    /\ current' = None /\ done' = 0
    /\ UNCHANGED <<applied, failed>>

EvolutionNext ==
    \/ \E m \in All : Apply(m) \/ Stop(m) \/ Start(m)
    \/ Step \/ StopInside \/ Complete \/ Die \/ DieInside

EvolutionSpec == EvolutionInit /\ [][EvolutionNext]_evolutionVars
==============================================================================
