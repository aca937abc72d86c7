------------------------- MODULE SubscriptionsProofs -------------------------
(***************************************************************************)
(* For any number of subscriptions, requests, workers and failures: the    *)
(* types, one successful delete, a cache that is never ahead of the        *)
(* database, and that the statements implement the atomic Registry.        *)
(*                                                                         *)
(* The argument is of the rely-guarantee kind: Mine(a) is what a handler a *)
(* may conclude from where it is, and every step of another keeps it,      *)
(* because such a step changes the tables, the locks and the counters only *)
(* in the ways that Rely allows.                                           *)
(***************************************************************************)
EXTENDS SubscriptionsProperties, FiniteSetTheorems, TLAPS

-----------------------------------------------------------------------------
(* The inductive invariant                                                 *)

TypeLocals ==
    /\ pc \in [Agent -> Label]
    /\ req \in [Agent -> Request \cup {None}]
    /\ got \in [Agent -> Data \cup {None}]
    /\ doomed \in [Agent -> SUBSET Entry]

TypeTables ==
    /\ row \in [Sub -> Data \cup {None}]
    /\ logs \subseteq Entry
    /\ old \subseteq logs
    /\ held \in [Sub -> Agent \cup {None}]
    /\ cached \in [Sub -> Data \cup {None}]
    /\ used \subseteq Sub
    /\ tasked \subseteq Sub
    /\ deleted \in [Sub -> Nat]
    /\ written \in Nat
    /\ faults \in 0..MaxFaults

(* The request of a is a create.                                           *)
Creating(a) == req[a] # None /\ req[a].kind = "create"

Mine(a) ==
    LET s == req[a].sub IN
    /\ pc[a] = "idle" <=> req[a] = None
    /\ pc[a] \in {"insert", "patch", "fill", "queue"} => got[a] # None
    /\ req[a] # None => (req[a].kind = "log" <=> a \in Logger)
    /\ pc[a] = "save" => a \in Logger
    /\ pc[a] = "insert" => Creating(a) /\ s \notin used
    /\ pc[a] = "fill" => s \in used /\ (row[s] # None /\ got[a].full => row[s].full)
    /\ pc[a] \in {"wipe", "drop", "verify", "commit"} =>
        \A l \in doomed[a] : l.sub = s
    /\ pc[a] \in {"verify", "commit"} => held[s] = a /\ row[s] # None
    /\ pc[a] = "commit" => \A l \in logs : l.sub = s => l \in doomed[a]
    /\ pc[a] = "uncache" => row[s] = None /\ s \in used /\ deleted[s] = 0
    /\ \A t \in Sub : held[t] = a => pc[a] \in {"verify", "commit"} /\ s = t

(* No two create the same row, and no two have deleted it.                 *)
Apart ==
    \A a, b \in Agent : a # b =>
        /\ Creating(a) /\ Creating(b) => req[a].sub # req[b].sub
        /\ pc[a] = "uncache" /\ pc[b] = "uncache" => req[a].sub # req[b].sub

Settled ==
    /\ \A s \in Sub : row[s] # None => s \in used
    /\ \A s \in Sub : deleted[s] # 0 => deleted[s] = 1 /\ row[s] = None /\ s \in used
    /\ \A l \in logs : l.n <= written
    /\ CacheBehind

(* A worker that is about to log has a log row to write.                   *)
Busy == {g \in Logger : req[g] # None}
Bounded == written + Cardinality(Busy) <= MaxLogs

Inv ==
    /\ TypeLocals
    /\ TypeTables
    /\ \A a \in Agent : Mine(a)
    /\ Apart
    /\ Settled
    /\ Bounded

-----------------------------------------------------------------------------
(* What a step of a does                                                   *)

(* It changes nothing of another handler's.                                *)
Local(a) ==
    /\ TypeLocals'
    /\ \A b \in Agent \ {a} :
        /\ pc'[b] = pc[b] /\ req'[b] = req[b]
        /\ got'[b] = got[b] /\ doomed'[b] = doomed[b]

(* It changes what all share in these ways only.                           *)
Rely(a) ==
    /\ \A s \in Sub : held'[s] # held[s] =>
        held[s] \in {a, None} /\ held'[s] \in {a, None}
    /\ \A s \in Sub : row'[s] # None =>
        \/ s \notin used
        \/ row[s] # None /\ (row[s].full => row'[s].full)
    /\ \A s \in Sub : row'[s] = None /\ row[s] # None => held[s] = a
    /\ used \subseteq used'
    /\ \A s \in used' \ used : Creating(a) /\ s = req[a].sub
    /\ \A l \in logs' \ logs : held[l.sub] = None
    /\ \A s \in Sub : deleted'[s] # deleted[s] => pc[a] = "uncache" /\ s = req[a].sub

Refined == Atomic!RegistryNext \/ UNCHANGED <<row, logs, old, used>>

Effect(a) == Rely(a) /\ TypeTables' /\ Settled' /\ Refined

(* The new request of a makes no second creator, or deleter, of a row.     *)
Fresh(a) ==
    \A b \in Agent \ {a} :
        /\ Creating(a)' /\ Creating(b) => req'[a].sub # req[b].sub
        /\ pc'[a] = "uncache" /\ pc[b] = "uncache" => req'[a].sub # req[b].sub

(* What another handler concludes stays true.                              *)
LEMMA Stable ==
    ASSUME Inv, NEW a \in Agent, Local(a), Rely(a), NEW b \in Agent \ {a}
    PROVE  Mine(b)'
<1> DEFINE s == req[b].sub
<1>0. /\ pc'[b] = pc[b] /\ req'[b] = req[b] /\ got'[b] = got[b]
      /\ doomed'[b] = doomed[b]
  BY DEF Local
<1>1. Mine(b) /\ a # None /\ b # None
  BY SubscriptionsAssumption DEF Inv
<1>2. req[b] # None => s \in Sub
  BY DEF Inv, TypeLocals, Request
<1>3. pc[b] = "insert" => s \notin used'
  BY <1>1, <1>2 DEF Rely, Mine, Inv, Apart, Creating
<1>4. pc[b] = "fill" => s \in used' /\ (row'[s] # None /\ got[b].full => row'[s].full)
  BY <1>1, <1>2 DEF Rely, Mine
<1>5. pc[b] \in {"verify", "commit"} => held'[s] = b /\ row'[s] # None
  BY <1>1, <1>2 DEF Rely, Mine
<1>6. pc[b] = "commit" => \A l \in logs' : l.sub = s => l \in doomed[b]
  BY <1>1, <1>2 DEF Rely, Mine
<1>7. pc[b] = "uncache" => row'[s] = None /\ s \in used' /\ deleted'[s] = 0
  BY <1>1, <1>2 DEF Rely, Mine, Inv, Apart
<1>8. \A t \in Sub : held'[t] = b => pc[b] \in {"verify", "commit"} /\ s = t
  BY <1>1 DEF Rely, Mine
<1> QED
  BY <1>0, <1>1, <1>3, <1>4, <1>5, <1>6, <1>7, <1>8 DEF Mine, Creating

(* A step is good when it is good for the handler that takes it.           *)
LEMMA StepInv ==
    ASSUME Inv, NEW a \in Agent, Local(a), Effect(a), Mine(a)', Fresh(a), Bounded'
    PROVE  Inv' /\ Refined
<1>1. \A b \in Agent : Mine(b)'
  BY Stable DEF Effect
<1>2. Apart'
  <2> SUFFICES ASSUME NEW b \in Agent, NEW c \in Agent, b # c
               PROVE  /\ Creating(b)' /\ Creating(c)' => req'[b].sub # req'[c].sub
                      /\ pc'[b] = "uncache" /\ pc'[c] = "uncache" =>
                            req'[b].sub # req'[c].sub
    BY DEF Apart
  <2>1. CASE b = a
    BY <2>1 DEF Fresh, Local, Creating
  <2>2. CASE c = a
    BY <2>2 DEF Fresh, Local, Creating
  <2>3. CASE b # a /\ c # a
    BY <2>3 DEF Local, Creating, Inv, Apart
  <2> QED BY <2>1, <2>2, <2>3
<1> QED BY <1>1, <1>2 DEF Inv, Local, Effect

LEMMA TypesOK == Inv => TypeOK
<1> SUFFICES ASSUME Inv PROVE TypeOK
  OBVIOUS
<1>1. IsFiniteSet(Busy) /\ Cardinality(Busy) \in Nat
  BY SubscriptionsAssumption, FS_Subset, FS_CardinalityType DEF Busy
<1>2. written \in 0..MaxLogs
  BY <1>1, SubscriptionsAssumption DEF Inv, Bounded, TypeTables
<1>3. \A a \in Agent :
        /\ pc[a] # "idle" => req[a] # None
        /\ pc[a] \in {"insert", "patch", "fill", "queue"} => got[a] # None
  BY DEF Inv, Mine
<1> QED BY <1>2, <1>3 DEF Inv, TypeLocals, TypeTables, TypeOK

-----------------------------------------------------------------------------
(* What the statements and commands do to the tables, each an Effect       *)

Quiet == UNCHANGED <<row, logs, old, used, written, cached, deleted>>

(* The rest of a command, whichever it is.                                 *)
Beside == tasked' \subseteq Sub /\ faults' \in 0..MaxFaults

LEMMA QuietEffect ==
    ASSUME Inv, NEW a \in Agent, Quiet, Beside,
           held' \in [Sub -> Agent \cup {None}],
           \A s \in Sub : held'[s] # held[s] =>
               held[s] \in {a, None} /\ held'[s] \in {a, None}
    PROVE  Effect(a)
<1> USE DEF Inv, Quiet
<1>1. Rely(a) BY DEF Rely
<1>2. TypeTables' BY DEF TypeTables, Beside
<1>3. Settled' BY DEF Settled, CacheBehind
<1> QED BY <1>1, <1>2, <1>3 DEF Effect, Refined

LEMMA InsertEffect ==
    ASSUME Inv, NEW a \in Agent, pc[a] = "insert", Inserted(a), Beside,
           UNCHANGED <<logs, old, held, written, cached, deleted>>
    PROVE  Effect(a)
<1> DEFINE s == req[a].sub
<1>1. Mine(a) /\ s \in Sub /\ got[a] \in Data /\ s \notin used /\ Creating(a)
  BY DEF Inv, TypeLocals, Mine, Request
<1>2. row[s] = None /\ cached[s] = None /\ deleted[s] = 0
  BY <1>1 DEF Inv, Settled, CacheBehind
<1>3. row \in [Sub -> Data \cup {None}] /\ None \notin Data /\ used \subseteq Sub
  BY SubscriptionsAssumption DEF Inv, TypeTables
<1>4. \A t \in Sub : t # s => row'[t] = row[t]
  BY <1>3 DEF Inserted
<1>5. row'[s] = got[a] /\ row'[s] # None
  BY <1>1, <1>3 DEF Inserted
<1>6. used' = used \cup {s}
  BY DEF Inserted
<1>7. Rely(a)
  BY <1>1, <1>2, <1>4, <1>5, <1>6 DEF Rely
<1>8. TypeTables'
  BY <1>1, <1>3, <1>6 DEF Inv, TypeTables, Beside, Inserted
<1>9. Settled'
  BY <1>1, <1>2, <1>4, <1>5, <1>6 DEF Inv, Settled, CacheBehind
<1>10. Refined
  BY <1>1, <1>6 DEF Inserted, Refined, Atomic!RegistryNext, Atomic!Insert
<1> QED BY <1>7, <1>8, <1>9, <1>10 DEF Effect

(* What is patched is a row, which has all the old one has.                *)
LEMMA PatchedRow ==
    ASSUME NEW d \in Data, NEW e \in Data
    PROVE  /\ [url |-> e.url, full |-> d.full \/ e.full] \in Data
           /\ d.full => [url |-> e.url, full |-> d.full \/ e.full].full
BY DEF Data

LEMMA PatchEffect ==
    ASSUME Inv, NEW a \in Agent, pc[a] = "patch", Patched(a), Beside,
           UNCHANGED <<logs, old, held, used, written, cached, deleted>>
    PROVE  Effect(a)
<1> DEFINE s == req[a].sub
           r == [url |-> got[a].url, full |-> row[s].full \/ got[a].full]
<1>1. s \in Sub /\ got[a] \in Data /\ row[s] # None /\ None \notin Data
  BY SubscriptionsAssumption DEF Inv, TypeLocals, Mine, Request, Patched
<1>2. row \in [Sub -> Data \cup {None}] /\ row[s] \in Data
  BY <1>1 DEF Inv, TypeTables
<1>3. r \in Data /\ (row[s].full => r.full)
  BY <1>1, <1>2, PatchedRow
<1>4. row' = [row EXCEPT ![s] = r]
  BY DEF Patched
<1> HIDE DEF r, s
<1>5. /\ \A t \in Sub : t # s => row'[t] = row[t]
      /\ row'[s] # None /\ (row[s].full => row'[s].full)
      /\ row' \in [Sub -> Data \cup {None}]
  BY <1>1, <1>2, <1>3, <1>4
<1>6. Rely(a)
  BY <1>1, <1>5 DEF Rely
<1>7. TypeTables'
  BY <1>5 DEF Inv, TypeTables, Beside
<1>8. Settled'
  BY <1>1, <1>5 DEF Inv, Settled, CacheBehind
<1>9. Refined
  BY <1>1, <1>3, <1>4 DEF Refined, Atomic!RegistryNext, Atomic!Change
<1> QED BY <1>6, <1>7, <1>8, <1>9 DEF Effect

(* Only what was read in the row goes into the cache.                      *)
LEMMA FillEffect ==
    ASSUME Inv, NEW a \in Agent, pc[a] = "fill", Beside,
           cached' = [cached EXCEPT ![req[a].sub] = got[a]],
           UNCHANGED <<row, logs, old, held, used, written, deleted>>
    PROVE  Effect(a)
<1> DEFINE s == req[a].sub
<1>1. /\ s \in Sub /\ got[a] \in Data /\ s \in used
      /\ row[s] # None /\ got[a].full => row[s].full
  BY DEF Inv, TypeLocals, Mine, Request
<1>2. Rely(a) BY DEF Rely
<1>3. TypeTables' BY <1>1 DEF Inv, TypeTables, Beside
<1>4. Settled' BY <1>1 DEF Inv, TypeTables, Settled, CacheBehind
<1> QED BY <1>2, <1>3, <1>4 DEF Effect, Refined

LEMMA CommitEffect ==
    ASSUME Inv, NEW a \in Agent, pc[a] = "commit", Applied(a), Beside,
           UNCHANGED <<used, written, cached, deleted>>
    PROVE  Effect(a)
<1> DEFINE s == req[a].sub
<1>1. /\ s \in Sub /\ held[s] = a /\ row[s] # None
      /\ \A l \in doomed[a] : l.sub = s
      /\ \A l \in logs : l.sub = s => l \in doomed[a]
  BY DEF Inv, TypeLocals, Mine, Request
<1>2. /\ row' = [row EXCEPT ![s] = None]
      /\ held' = [held EXCEPT ![s] = None]
      /\ logs' = logs \ doomed[a] /\ old' = old \ doomed[a]
  BY DEF Applied
<1>3. TypeTables BY DEF Inv
<1> HIDE DEF s
<1>4. Rely(a)
  BY <1>1, <1>2, <1>3 DEF Rely, TypeTables
<1>5. TypeTables'
  BY <1>1, <1>2, <1>3 DEF TypeTables, Beside
<1>6. Settled'
  BY <1>1, <1>2, <1>3 DEF Inv, TypeTables, Settled, CacheBehind
<1>7. /\ logs' = {l \in logs : l.sub # s}
      /\ old' = {l \in old : l.sub # s}
  BY <1>1, <1>2, <1>3 DEF TypeTables
<1>8. Refined
  BY <1>1, <1>2, <1>7 DEF Refined, Atomic!RegistryNext, Atomic!Remove
<1> QED BY <1>4, <1>5, <1>6, <1>8 DEF Effect

LEMMA AnswerEffect ==
    ASSUME Inv, NEW a \in Agent, pc[a] = "uncache", Beside,
           cached' \in {cached, [cached EXCEPT ![req[a].sub] = None]},
           deleted' = [deleted EXCEPT ![req[a].sub] = @ + 1],
           UNCHANGED <<row, logs, old, held, used, written>>
    PROVE  Effect(a)
<1> DEFINE s == req[a].sub
<1>1. s \in Sub /\ row[s] = None /\ s \in used /\ deleted[s] = 0
  BY DEF Inv, TypeLocals, Mine, Request
<1>2. Rely(a) BY <1>1 DEF Inv, TypeTables, Rely
<1>3. TypeTables' BY <1>1 DEF Inv, TypeTables, Beside
<1>4. Settled' BY <1>1 DEF Inv, TypeTables, Settled, CacheBehind
<1> QED BY <1>2, <1>3, <1>4 DEF Effect, Refined

-----------------------------------------------------------------------------
(* The bound on log rows                                                   *)

LEMMA BusyFinite == IsFiniteSet(Busy) /\ Cardinality(Busy) \in Nat
BY SubscriptionsAssumption, FS_Subset, FS_CardinalityType DEF Busy

(* No more workers are busy than before.                                   *)
LEMMA BoundedSame ==
    ASSUME Inv, written' = written, \A g \in Logger : req'[g] # None => req[g] # None
    PROVE  Bounded'
<1>1. Busy' \in SUBSET Busy
  BY DEF Busy
<1>2. IsFiniteSet(Busy') /\ Cardinality(Busy') <= Cardinality(Busy)
  BY <1>1, BusyFinite, FS_Subset
<1>3. Cardinality(Busy') \in Nat
  BY <1>2, FS_CardinalityType
<1> QED
  BY <1>2, <1>3, BusyFinite, SubscriptionsAssumption DEF Inv, Bounded, TypeTables

(* A worker that is about to write a log row may.                          *)
LEMMA SaverBusy ==
    ASSUME Inv, NEW a \in Agent, pc[a] = "save"
    PROVE  a \in Logger /\ a \in Busy /\ written + 1 \in 1..MaxLogs
<1>1. a \in Logger /\ a \in Busy
  BY DEF Inv, Mine, Busy
<1>2. Cardinality(Busy) # 0
  BY <1>1, BusyFinite, FS_EmptySet
<1> QED
  BY <1>1, <1>2, BusyFinite, SubscriptionsAssumption DEF Inv, Bounded, TypeTables

LEMMA BoundedSave ==
    ASSUME Inv, NEW a \in Agent, pc[a] = "save", End(a), written' \in {written, written + 1}
    PROVE  Bounded'
<1>1. Busy' = Busy \ {a}
  BY SaverBusy DEF Busy, End, Inv, TypeLocals, Agent
<1>2. Cardinality(Busy') = Cardinality(Busy) - 1
  BY <1>1, SaverBusy, BusyFinite, FS_RemoveElement
<1> QED
  BY <1>2, BusyFinite, SubscriptionsAssumption DEF Inv, Bounded, TypeTables

LEMMA SaveEffect ==
    ASSUME Inv, NEW a \in Agent, pc[a] = "save", Beside, Free(req[a].sub),
           row[req[a].sub] # None, written' = written + 1,
           logs' = logs \cup {[sub |-> req[a].sub, n |-> written + 1]},
           UNCHANGED <<row, old, held, used, cached, deleted>>
    PROVE  Effect(a)
<1> DEFINE l == [sub |-> req[a].sub, n |-> written + 1]
<1>1. req[a].sub \in Sub
  BY DEF Inv, TypeLocals, Mine, Request
<1>2. l \in Entry /\ l.sub = req[a].sub /\ l.n = written + 1
  BY <1>1, SaverBusy DEF Entry
<1> HIDE DEF l
<1>3. logs' = logs \cup {l}
  BY DEF l
<1>4. \A m \in logs : m.n \in Nat /\ m.n <= written
  BY DEF Inv, TypeTables, Settled, Entry
<1>5. l \notin logs
  BY <1>2, <1>4 DEF Inv, TypeTables
<1>6. Rely(a)
  BY <1>2, <1>3 DEF Rely, Free
<1>7. TypeTables'
  BY <1>2, <1>3 DEF Inv, TypeTables, Beside
<1>8. Settled'
  BY <1>2, <1>3, <1>4 DEF Inv, TypeTables, Settled, CacheBehind
<1>9. Refined
  BY <1>2, <1>3, <1>5 DEF Refined, Atomic!RegistryNext, Atomic!Record
<1> QED BY <1>6, <1>7, <1>8, <1>9 DEF Effect

-----------------------------------------------------------------------------
(* The steps                                                               *)

(* A handler ends, with whatever effect, and has no lock afterwards.       *)
LEMMA EndInv ==
    ASSUME Inv, NEW a \in Agent, End(a), Effect(a), Bounded',
           \A s \in Sub : held'[s] # a
    PROVE  Inv' /\ Refined
<1>1. Local(a)
  BY DEF Inv, TypeLocals, Local, End, Goto, Label
<1>2. pc'[a] = "idle" /\ req'[a] = None
  BY DEF Inv, TypeLocals, End, Goto
<1>3. Mine(a)' /\ Fresh(a)
  BY <1>2 DEF Mine, Fresh, Creating
<1> QED BY <1>1, <1>3, StepInv

(* The locks a handler has, if it is not in the transaction or leaves it.  *)
LEMMA LocksEnd ==
    ASSUME Inv, NEW a \in Agent
    PROVE  /\ pc[a] \notin {"verify", "commit"} => \A s \in Sub : held[s] # a
           /\ \A h : h = [s \in Sub |-> IF held[s] = a THEN None ELSE held[s]] =>
                /\ h \in [Sub -> Agent \cup {None}]
                /\ \A s \in Sub : h[s] # a /\ (h[s] # held[s] =>
                        held[s] \in {a, None} /\ h[s] \in {a, None})
BY SubscriptionsAssumption DEF Inv, Mine, TypeTables

LEMMA BoundedEnd ==
    ASSUME Inv, NEW a \in Agent, End(a), written' = written
    PROVE  Bounded'
BY BoundedSame DEF End, Inv, TypeLocals, Agent

(* The handler ends and changes no table.                                  *)
LEMMA QuietEnd ==
    ASSUME Inv, NEW a \in Agent, End(a), Quiet, Beside, UNCHANGED held,
           pc[a] \notin {"verify", "commit"}
    PROVE  Inv' /\ Refined
<1>1. Effect(a)
  BY QuietEffect DEF Inv, TypeTables
<1> QED BY <1>1, LocksEnd, BoundedEnd, EndInv DEF Quiet

LEMMA AbortInv ==
    ASSUME Inv, NEW a \in Agent, Abort(a), Quiet, Beside
    PROVE  Inv' /\ Refined
<1>1. /\ held' \in [Sub -> Agent \cup {None}]
      /\ \A s \in Sub : held'[s] # a /\ (held'[s] # held[s] =>
            held[s] \in {a, None} /\ held'[s] \in {a, None})
  BY LocksEnd DEF Abort
<1>2. Effect(a)
  BY <1>1, QuietEffect
<1> QED BY <1>1, <1>2, BoundedEnd, EndInv DEF Abort, Quiet

(* The handler goes on, with no change of a table; what remains to show is *)
(* that it may conclude what it does at its new place.                     *)
LEMMA QuietGoto ==
    ASSUME Inv, NEW a \in Agent, NEW l \in Label, Goto(a, l), Quiet, Beside,
           UNCHANGED <<held, doomed>>,
           \A b \in Agent \ {a} : req'[b] = req[b] /\ got'[b] = got[b],
           req' \in [Agent -> Request \cup {None}],
           got' \in [Agent -> Data \cup {None}],
           req[a] # None, req'[a] # None,
           req'[a].kind = req[a].kind /\ req'[a].sub = req[a].sub,
           pc[a] # "uncache", l # "uncache", Mine(a)'
    PROVE  Inv' /\ Refined
<1>1. Local(a)
  BY DEF Inv, TypeLocals, Local, Goto
<1>2. pc'[a] = l
  BY DEF Inv, TypeLocals, Goto
<1>3. Fresh(a)
  BY <1>2 DEF Fresh, Creating, Inv, Apart
<1>4. Effect(a)
  BY QuietEffect DEF Inv, TypeTables
<1>5. Bounded'
  BY BoundedSame DEF Quiet, Agent
<1> QED BY <1>1, <1>3, <1>4, <1>5, StepInv

-----------------------------------------------------------------------------
(* A request arrives.                                                      *)
LEMMA BeginInv ==
    ASSUME Inv, NEW a \in Agent, NEW s \in Sub, Arrive(a, s)
    PROVE  Inv' /\ Refined
<1>0. PICK kind, l :
        /\ Begin(a, kind, s, l)
        /\ \/ /\ a \in Client
              /\ \/ kind = "create" /\ l = "insert" /\ \E d \in Data : Create(a, s, d)
                 \/ kind = "ingest" /\ l = "get" /\ Ingest(a, s)
                 \/ kind = "update" /\ l = "patch" /\ \E d \in Data : Update(a, s, d)
                 \/ kind = "delete" /\ l = "wipe" /\ Delete(a, s)
           \/ a \in Logger /\ kind = "log" /\ l = "get" /\ LogAttempt(a, s)
  BY DEF Arrive, Create, Ingest, Update, Delete, LogAttempt
<1>1. l \in Label /\ kind \in {"create", "ingest", "update", "delete", "log"}
  BY <1>0 DEF Label
<1>2. /\ pc' = [pc EXCEPT ![a] = l] /\ pc[a] = "idle"
      /\ req' = [req EXCEPT ![a] = [kind |-> kind, sub |-> s, round |-> 1]]
  BY <1>0 DEF Begin, Goto, At
<1>3. Quiet /\ Beside /\ UNCHANGED held
  BY <1>0
  DEF Create, Ingest, Update, Delete, LogAttempt, dbVars, Quiet, Beside,
      Inv, TypeTables
<1>4. /\ got' \in [Agent -> Data \cup {None}]
      /\ doomed' \in [Agent -> SUBSET Entry]
      /\ \A b \in Agent \ {a} : got'[b] = got[b] /\ doomed'[b] = doomed[b]
  BY <1>0
  DEF Create, Ingest, Update, Delete, LogAttempt, Inv, TypeLocals, TypeTables, LogsOf
<1>5. [kind |-> kind, sub |-> s, round |-> 1] \in Request
  BY <1>1 DEF Request
<1>6. Local(a)
  BY <1>1, <1>2, <1>4, <1>5 DEF Inv, TypeLocals, Local
<1>7. Effect(a)
  BY <1>3, QuietEffect DEF Inv, TypeTables
<1>8. /\ pc'[a] = l /\ req'[a] # None
      /\ req'[a].kind = kind /\ req'[a].sub = s
  BY <1>2, <1>5, SubscriptionsAssumption DEF Inv, TypeLocals
<1>9. kind = "log" <=> a \in Logger
  BY <1>0, SubscriptionsAssumption
<1>10. Mine(a)'
  <2>1. Mine(a) /\ \A t \in Sub : held[t] # a
    BY <1>2, LocksEnd DEF Inv
  <2>2. l \in {"insert", "patch"} => got'[a] # None
    BY <1>0, SubscriptionsAssumption DEF Create, Update, Inv, TypeLocals
  <2>3. l = "insert" => kind = "create" /\ s \notin used'
    BY <1>0, <1>3 DEF Create, Quiet
  <2>4. l = "wipe" => \A m \in doomed'[a] : m.sub = s
    BY <1>0 DEF Delete, LogsOf, Inv, TypeLocals
  <2>5. l \in {"insert", "get", "patch", "wipe"}
    BY <1>0
  <2> QED
    BY <1>3, <1>8, <1>9, <2>1, <2>2, <2>3, <2>4, <2>5 DEF Mine, Creating
<1>11. Fresh(a)
  <2>1. kind = "create" => \A b \in Agent : Creating(b) => req[b].sub # s
    BY <1>0 DEF Create, Creating
  <2>2. l # "uncache"
    BY <1>0
  <2> QED BY <1>8, <2>1, <2>2 DEF Fresh, Creating
<1>12. Bounded'
  <2>1. CASE a \in Logger
    <3>1. LogAttempt(a, s)
      BY <1>0, <2>1, SubscriptionsAssumption
    <3>2. written + Cardinality(Busy) < MaxLogs
      BY <3>1 DEF LogAttempt, Busy
    <3>3. Busy' = Busy \cup {a}
      BY <1>2, <1>8, <2>1 DEF Busy, Inv, TypeLocals, Agent
    <3>4. /\ IsFiniteSet(Busy \cup {a})
          /\ Cardinality(Busy \cup {a}) =
                IF a \in Busy THEN Cardinality(Busy) ELSE Cardinality(Busy) + 1
      BY BusyFinite, FS_AddElement, Zenon
    <3>5. Cardinality(Busy \cup {a}) \in Nat
      BY <3>4, FS_CardinalityType
    <3> QED
      BY <1>3, <3>2, <3>3, <3>4, <3>5, BusyFinite, SubscriptionsAssumption
      DEF Bounded, Quiet, Inv, TypeTables
  <2>2. CASE a \notin Logger
    BY <1>3, <1>6, <2>2, BoundedSame DEF Quiet, Local, Agent
  <2> QED BY <2>1, <2>2
<1> QED BY <1>6, <1>7, <1>10, <1>11, <1>12, StepInv

(* The lookup of a ends, with a copy of the row or of an earlier one.      *)
LEMMA FoundInv ==
    ASSUME Inv, NEW a \in Agent, NEW d \in Data, pc[a] \in {"get", "fill"},
           Found(a, d), Effect(a), UNCHANGED <<held, written>>
    PROVE  Inv' /\ Refined
<1>1. /\ req[a] \in Request /\ req[a] # None
      /\ \A s \in Sub : held[s] # a
      /\ req[a].kind = "log" <=> a \in Logger
  BY LocksEnd DEF Inv, Mine, TypeLocals
<1>2. CASE End(a)
  BY <1>1, <1>2, BoundedEnd, EndInv
<1>3. CASE ~End(a)
  <2>1. PICK l \in {"get", "queue", "save"} :
           Goto(a, l) /\ (l = "save" => req[a].kind = "log")
    BY <1>3 DEF Found
  <2>2. /\ got' = [got EXCEPT ![a] = d] /\ UNCHANGED doomed
        /\ req' = req \/ req' = [req EXCEPT ![a].round = 2]
    BY <1>3 DEF Found
  <2>3. /\ req'[a] \in Request /\ req' \in [Agent -> Request \cup {None}]
        /\ req'[a].kind = req[a].kind /\ req'[a].sub = req[a].sub
        /\ \A b \in Agent \ {a} : req'[b] = req[b]
    BY <1>1, <2>2 DEF Inv, TypeLocals, Request
  <2>4. req'[a] # None
    BY <2>3, SubscriptionsAssumption
  <2>5. Local(a) /\ pc'[a] = l /\ got'[a] = d
    <3>1. l \in Label /\ TypeLocals
      BY DEF Label, Inv
    <3>2. TypeLocals'
      BY <2>1, <2>2, <2>3, <3>1 DEF TypeLocals, Goto
    <3>3. /\ pc'[a] = l /\ got'[a] = d
          /\ \A b \in Agent \ {a} :
                pc'[b] = pc[b] /\ got'[b] = got[b] /\ doomed'[b] = doomed[b]
      BY <2>1, <2>2, <3>1 DEF TypeLocals, Goto
    <3> QED BY <2>3, <3>2, <3>3 DEF Local
  <2>6. Mine(a)'
    <3>1. d # None /\ \A s \in Sub : held'[s] # a
      BY <1>1, SubscriptionsAssumption
    <3>2. pc'[a] \in {"get", "queue", "save"} /\ (pc'[a] = "save" => a \in Logger)
      BY <1>1, <2>1, <2>5
    <3>3. req'[a].kind = "log" <=> a \in Logger
      BY <1>1, <2>3
    <3> QED BY <2>4, <2>5, <3>1, <3>2, <3>3 DEF Mine
  <2>7. Fresh(a)
    BY <1>1, <2>1, <2>3, <2>5 DEF Fresh, Creating, Inv, Apart
  <2>8. Bounded'
    BY <1>1, <2>3, BoundedSame DEF Agent
  <2> QED BY <2>5, <2>6, <2>7, <2>8, StepInv
<1> QED BY <1>2, <1>3

(* A miss, or a Redis that does not answer: the row is read next.          *)
LEMMA MissInv ==
    ASSUME Inv, NEW a \in Agent, At(a, "get"), Goto(a, "read"), Quiet, Beside,
           UNCHANGED <<held, reqVars, got>>
    PROVE  Inv' /\ Refined
<1>1. pc[a] = "get" /\ pc' = [pc EXCEPT ![a] = "read"] /\ "read" \in Label
  BY DEF At, Goto, Label
<1>2. Mine(a) /\ pc'[a] = "read" /\ \A s \in Sub : held[s] # a
  BY <1>1, LocksEnd DEF Inv, TypeLocals
<1>3. Mine(a)'
  BY <1>1, <1>2 DEF Mine, reqVars
<1> QED
  BY <1>1, <1>2, <1>3, QuietGoto DEF reqVars, Inv, TypeLocals, Mine

LEMMA LookupInv ==
    ASSUME Inv, NEW a \in Agent,
           \/ GetCached(a) \/ ReadRow(a) \/ FillCache(a)
           \/ (GetFails(a) \/ LookupFails(a)) /\ tasked' = tasked
                                             /\ faults' \in 0..MaxFaults
    PROVE  Inv' /\ Refined
<1> DEFINE s == req[a].sub
<1>0. pc[a] # "idle" => s \in Sub /\ req[a] # None
  BY DEF Inv, TypeLocals, Mine, Request
<1>1. CASE GetCached(a)
  <2>1. pc[a] = "get" /\ Beside /\ Quiet /\ UNCHANGED held
    BY <1>1 DEF GetCached, At, dbVars, Beside, Quiet, Inv, TypeTables
  <2>2. CASE cached[s] # None
    <3>1. Found(a, cached[s]) /\ cached[s] \in Data
      BY <1>0, <1>1, <2>1, <2>2 DEF GetCached, Inv, TypeTables
    <3>2. Effect(a)
      BY <2>1, QuietEffect DEF Inv, TypeTables
    <3> QED BY <2>1, <3>1, <3>2, FoundInv DEF Quiet
  <2>3. CASE cached[s] = None
    BY <1>1, <2>1, <2>3, MissInv DEF GetCached
  <2> QED BY <2>2, <2>3
<1>2. CASE ReadRow(a)
  <2>1. pc[a] = "read" /\ Beside /\ Quiet /\ UNCHANGED held
    BY <1>2 DEF ReadRow, At, dbVars, Beside, Quiet, Inv, TypeTables
  <2>2. CASE row[s] = None
    BY <1>2, <2>1, <2>2, QuietEnd DEF ReadRow, NotFound
  <2>3. CASE row[s] # None
    <3>1. /\ Goto(a, "fill") /\ got' = [got EXCEPT ![a] = row[s]]
          /\ UNCHANGED <<req, doomed>> /\ "fill" \in Label
      BY <1>2, <2>3 DEF ReadRow, reqVars, Label
    <3>2. Mine(a) /\ pc'[a] = "fill" /\ got'[a] = row[s] /\ \A t \in Sub : held[t] # a
      BY <2>1, <3>1, LocksEnd DEF Goto, Inv, TypeLocals
    <3>3. s \in used /\ row[s] \in Data
      BY <1>0, <2>1, <2>3 DEF Inv, Settled, TypeTables
    <3>4. Mine(a)'
      BY <1>0, <2>1, <2>3, <3>1, <3>2, <3>3 DEF Mine, Quiet
    <3>5. got' \in [Agent -> Data \cup {None}] /\ \A b \in Agent \ {a} : got'[b] = got[b]
      BY <3>1, <3>3 DEF Inv, TypeLocals
    <3> QED
      BY <1>0, <2>1, <3>1, <3>4, <3>5, QuietGoto DEF Inv, TypeLocals
  <2> QED BY <2>2, <2>3
<1>3. CASE FillCache(a)
  <2>1. pc[a] = "fill" /\ Beside /\ Found(a, got[a]) /\ UNCHANGED <<held, written>>
    BY <1>3 DEF FillCache, At, dbVars, Beside, Inv, TypeTables
  <2>2. Effect(a)
    BY <1>3, <2>1, FillEffect DEF FillCache, dbVars
  <2>3. got[a] \in Data
    BY <2>1 DEF Inv, TypeLocals, Mine
  <2> QED BY <2>1, <2>2, <2>3, FoundInv
<1>4. CASE GetFails(a) /\ tasked' = tasked /\ faults' \in 0..MaxFaults
  BY <1>4, MissInv DEF GetFails, dbVars, Beside, Quiet, Inv, TypeTables
<1>5. CASE LookupFails(a) /\ tasked' = tasked /\ faults' \in 0..MaxFaults
  <2>1. Beside /\ End(a) /\ pc[a] \in {"read", "fill"}
        /\ UNCHANGED <<row, logs, old, held, used, written, deleted>>
    BY <1>5 DEF LookupFails, NotFound, At, dbVars, Beside, Inv, TypeTables
  <2>2. CASE cached' = cached
    BY <2>1, <2>2, QuietEnd DEF Quiet
  <2>3. CASE cached' # cached
    <3>1. pc[a] = "fill" /\ cached' = [cached EXCEPT ![s] = got[a]]
      BY <1>5, <2>3 DEF LookupFails, At
    <3>2. Effect(a)
      BY <2>1, <3>1, FillEffect
    <3> QED BY <2>1, <3>1, <3>2, LocksEnd, BoundedEnd, EndInv
  <2> QED BY <2>2, <2>3
<1> QED BY <1>1, <1>2, <1>3, <1>4, <1>5

(* Handlers outside the delete: queue, insert, patch, save.                *)
LEMMA StatementInv ==
    ASSUME Inv, NEW a \in Agent,
           \/ Queue(a) \/ InsertRow(a) \/ UpdateRow(a) \/ SaveLog(a)
           \/ StatementFails(a) /\ tasked' = tasked /\ faults' \in 0..MaxFaults
    PROVE  Inv' /\ Refined
<1> DEFINE s == req[a].sub
<1>0. pc[a] # "idle" => s \in Sub /\ req[a] # None
  BY DEF Inv, TypeLocals, Mine, Request
<1>1. CASE Queue(a)
  BY <1>0, <1>1, QuietEnd
  DEF Queue, At, dbVars, Beside, Quiet, Inv, TypeTables
<1>2. CASE InsertRow(a)
  <2>1. pc[a] = "insert" /\ Beside /\ Goto(a, "get") /\ "get" \in Label
    BY <1>2 DEF InsertRow, SendTaskToQueue, At, Beside, Label, Inv, TypeTables
  <2>2. Effect(a)
    BY <1>2, <2>1, InsertEffect DEF InsertRow
  <2>3. UNCHANGED <<req, got, doomed, held, written>>
    BY <1>2 DEF InsertRow, reqVars
  <2>4. Local(a) /\ pc'[a] = "get"
    BY <2>1, <2>3 DEF Goto, Inv, TypeLocals, Local
  <2>5. Mine(a)'
    BY <2>1, <2>3, <2>4, LocksEnd DEF Inv, Mine
  <2>6. Fresh(a) /\ Bounded'
    BY <2>3, <2>4, BoundedSame DEF Fresh, Creating, Inv, Apart
  <2> QED BY <2>2, <2>4, <2>5, <2>6, StepInv
<1>3. CASE UpdateRow(a)
  <2>1. /\ pc[a] = "patch" /\ Beside /\ End(a)
        /\ UNCHANGED <<logs, old, held, used, written, cached, deleted>>
    BY <1>3 DEF UpdateRow, At, Beside, Inv, TypeTables
  <2>2. CASE Patched(a)
    <3>1. Effect(a)
      BY <2>1, <2>2, PatchEffect
    <3> QED BY <2>1, <3>1, LocksEnd, BoundedEnd, EndInv
  <2>3. CASE row' = row
    BY <2>1, <2>3, QuietEnd DEF Quiet
  <2> QED BY <1>3, <2>2, <2>3 DEF UpdateRow
<1>4. CASE SaveLog(a)
  <2>1. /\ pc[a] = "save" /\ Beside /\ End(a) /\ Free(s)
        /\ UNCHANGED <<row, old, held, used, cached, deleted>>
    BY <1>4 DEF SaveLog, At, Beside, Inv, TypeTables
  <2>2. CASE row[s] = None
    BY <1>4, <2>1, <2>2, QuietEnd DEF SaveLog, Quiet
  <2>3. CASE row[s] # None
    <3>1. Effect(a) /\ written' = written + 1
      BY <1>4, <2>1, <2>3, SaveEffect DEF SaveLog
    <3> QED BY <2>1, <3>1, LocksEnd, BoundedSave, EndInv
  <2> QED BY <2>2, <2>3
<1>5. CASE StatementFails(a) /\ tasked' = tasked /\ faults' \in 0..MaxFaults
  <2>1. /\ Beside /\ End(a) /\ pc[a] \in {"insert", "patch", "save"}
        /\ UNCHANGED <<logs, old, held, written, cached, deleted>>
    BY <1>5 DEF StatementFails, At, Beside, Inv, TypeTables
  <2>2. CASE UNCHANGED <<row, used>>
    BY <2>1, <2>2, QuietEnd DEF Quiet
  <2>3. CASE pc[a] = "insert" /\ Inserted(a)
    <3>1. Effect(a)
      BY <2>1, <2>3, InsertEffect
    <3> QED BY <2>1, <3>1, LocksEnd, BoundedEnd, EndInv
  <2>4. CASE pc[a] = "patch" /\ Patched(a) /\ UNCHANGED used
    <3>1. Effect(a)
      BY <2>1, <2>4, PatchEffect
    <3> QED BY <2>1, <3>1, LocksEnd, BoundedEnd, EndInv
  <2> QED BY <1>5, <2>2, <2>3, <2>4 DEF StatementFails, At
<1> QED BY <1>1, <1>2, <1>3, <1>4, <1>5

(* The transaction of a delete up to its last statement.                   *)
LEMMA TransactionInv ==
    ASSUME Inv, NEW a \in Agent,
           DeleteLogs(a) \/ DeleteRow(a) \/ CheckLogs(a)
    PROVE  Inv' /\ Refined
<1> DEFINE s == req[a].sub
<1>0. pc[a] # "idle" => s \in Sub /\ req[a] # None
  BY DEF Inv, TypeLocals, Mine, Request
<1>1. CASE DeleteLogs(a)
  <2>1. /\ pc[a] = "wipe" /\ Beside /\ Quiet /\ UNCHANGED <<held, req, got>>
        /\ Goto(a, "drop") /\ doomed' = [doomed EXCEPT ![a] = @ \cap logs]
    BY <1>1 DEF DeleteLogs, At, dbVars, Beside, Quiet, Inv, TypeTables
  <2>2. Local(a) /\ pc'[a] = "drop" /\ doomed'[a] \subseteq doomed[a]
    BY <2>1 DEF Goto, Label, Inv, TypeLocals, Local
  <2>3. Mine(a)'
    BY <2>1, <2>2, LocksEnd DEF Inv, Mine
  <2>4. Fresh(a) /\ Effect(a) /\ Bounded'
    BY <2>1, <2>2, QuietEffect, BoundedSame
    DEF Fresh, Creating, Quiet, Inv, Apart, TypeTables
  <2> QED BY <2>2, <2>3, <2>4, StepInv
<1>2. CASE DeleteRow(a)
  <2>1. pc[a] = "drop" /\ Beside /\ Quiet /\ held[s] = None
    BY <1>2 DEF DeleteRow, At, Free, Beside, Quiet, Inv, TypeTables
  <2>2. CASE row[s] = None
    BY <1>2, <2>1, <2>2, AbortInv DEF DeleteRow
  <2>3. CASE row[s] # None
    <3>1. /\ held' = [held EXCEPT ![s] = a] /\ Goto(a, "verify")
          /\ UNCHANGED <<req, doomed, got>>
      BY <1>2, <2>3 DEF DeleteRow, reqVars
    <3>2. Local(a) /\ pc'[a] = "verify"
      BY <3>1 DEF Goto, Label, Inv, TypeLocals, Local
    <3>3. /\ held' \in [Sub -> Agent \cup {None}] /\ held'[s] = a
          /\ \A t \in Sub \ {s} : held'[t] = held[t]
      BY <1>0, <2>1, <3>1 DEF Inv, TypeTables
    <3>4. Effect(a)
      BY <2>1, <3>3, QuietEffect
    <3>5. Mine(a)'
      BY <1>0, <2>1, <2>3, <3>1, <3>2, <3>3, LocksEnd DEF Inv, Mine, Quiet
    <3>6. Fresh(a) /\ Bounded'
      BY <2>1, <3>1, <3>2, BoundedSame DEF Fresh, Creating, Quiet, Inv, Apart
    <3> QED BY <3>2, <3>4, <3>5, <3>6, StepInv
  <2> QED BY <2>2, <2>3
<1>3. CASE CheckLogs(a)
  <2>1. pc[a] = "verify" /\ Beside /\ Quiet
    BY <1>3 DEF CheckLogs, At, Beside, Quiet, Inv, TypeTables
  <2>2. CASE LogsOf(s) \ doomed[a] # {}
    BY <1>3, <2>1, <2>2, AbortInv DEF CheckLogs
  <2>3. CASE LogsOf(s) \ doomed[a] = {}
    <3>1. /\ Goto(a, "commit") /\ "commit" \in Label
          /\ UNCHANGED <<held, req, doomed, got>>
      BY <1>3, <2>3 DEF CheckLogs, reqVars, Label
    <3>2. pc'[a] = "commit" /\ \A l \in logs : l.sub = s => l \in doomed[a]
      BY <2>3, <3>1 DEF Goto, LogsOf, Inv, TypeLocals
    <3>3. Mine(a)'
      BY <2>1, <3>1, <3>2 DEF Inv, Mine, Quiet
    <3> QED
      BY <1>0, <2>1, <3>1, <3>3, QuietGoto DEF Inv, TypeLocals
  <2> QED BY <2>2, <2>3
<1> QED BY <1>1, <1>2, <1>3

(* Its end, and the answer.                                                *)
LEMMA DeletedInv ==
    ASSUME Inv, NEW a \in Agent,
           \/ Commit(a) \/ Uncache(a) \/ DeadlockAbort(a)
           \/ (TransactionFails(a) \/ UncacheFails(a)) /\ tasked' = tasked
                                                  /\ faults' \in 0..MaxFaults
    PROVE  Inv' /\ Refined
<1> DEFINE s == req[a].sub
<1>0. pc[a] # "idle" => s \in Sub /\ req[a] # None
  BY DEF Inv, TypeLocals, Mine, Request
<1>1. CASE Commit(a)
  <2>1. /\ pc[a] = "commit" /\ Beside /\ Applied(a) /\ Goto(a, "uncache")
        /\ UNCHANGED <<used, written, cached, deleted, req, doomed, got>>
    BY <1>1 DEF Commit, At, reqVars, Beside, Inv, TypeTables
  <2>2. Effect(a)
    BY <2>1, CommitEffect
  <2>3. Local(a) /\ pc'[a] = "uncache"
    BY <2>1 DEF Goto, Label, Inv, TypeLocals, Local
  <2>4. Mine(a) /\ row[s] # None /\ s \in used /\ deleted[s] = 0
    BY <1>0, <2>1 DEF Inv, Mine, Settled
  <2>5. row'[s] = None /\ \A t \in Sub : held'[t] # a
    BY <1>0, <2>1, <2>4, SubscriptionsAssumption DEF Applied, Mine, Inv, TypeTables
  <2>6. Mine(a)'
    BY <2>1, <2>3, <2>4, <2>5 DEF Mine
  <2>7. Fresh(a)
    BY <2>1, <2>3, <2>4 DEF Fresh, Creating, Inv, Apart, Mine
  <2>8. Bounded'
    BY <2>1, BoundedSame
  <2> QED BY <2>2, <2>3, <2>6, <2>7, <2>8, StepInv
<1>2. CASE Uncache(a) \/ (UncacheFails(a) /\ tasked' = tasked
                                         /\ faults' \in 0..MaxFaults)
  <2>1. /\ pc[a] = "uncache" /\ Beside /\ End(a)
        /\ cached' \in {cached, [cached EXCEPT ![s] = None]}
        /\ deleted' = [deleted EXCEPT ![s] = @ + 1]
        /\ UNCHANGED <<row, logs, old, held, used, written>>
    BY <1>2 DEF Uncache, UncacheFails, At, dbVars, Beside, Inv, TypeTables
  <2>2. Effect(a)
    BY <2>1, AnswerEffect
  <2> QED BY <2>1, <2>2, LocksEnd, BoundedEnd, EndInv
<1>3. CASE DeadlockAbort(a)
  BY <1>3, AbortInv DEF DeadlockAbort, Quiet, Beside, Inv, TypeTables
<1>4. CASE TransactionFails(a) /\ tasked' = tasked /\ faults' \in 0..MaxFaults
  <2>1. Beside /\ UNCHANGED <<used, written, cached, deleted>>
    BY <1>4 DEF TransactionFails, Beside, Inv, TypeTables
  <2>2. CASE Abort(a) /\ UNCHANGED <<row, logs, old>>
    BY <2>1, <2>2, AbortInv DEF Quiet
  <2>3. CASE pc[a] = "commit" /\ Applied(a) /\ End(a)
    <3>1. Effect(a)
      BY <2>1, <2>3, CommitEffect
    <3>2. \A t \in Sub : held'[t] # a
      BY <1>0, <2>3, SubscriptionsAssumption DEF Applied, Inv, Mine, TypeTables
    <3> QED BY <2>1, <2>3, <3>1, <3>2, BoundedEnd, EndInv
  <2> QED BY <1>4, <2>2, <2>3 DEF TransactionFails, At
<1> QED BY <1>1, <1>2, <1>3, <1>4

(* The passing of time.                                                    *)
LEMMA AgingInv ==
    ASSUME Inv, CleanupOldLogs \/ \E l \in Entry : GrowOld(l)
    PROVE  Inv' /\ Refined
<1>1. /\ UNCHANGED <<row, held, used, written, cached, tasked, pc, req, doomed,
                    got, deleted, faults>>
      /\ logs' \subseteq logs /\ old' \subseteq logs'
  BY DEF CleanupOldLogs, GrowOld, reqVars, Inv, TypeTables
<1>2. TypeLocals' /\ TypeTables'
  BY <1>1 DEF Inv, TypeLocals, TypeTables
<1>3. ASSUME NEW a \in Agent PROVE Mine(a)'
  BY <1>1 DEF Inv, Mine, Creating
<1>4. Apart' /\ Settled'
  BY <1>1 DEF Inv, Apart, Creating, Settled, CacheBehind
<1>5. Bounded'
  BY <1>1, BoundedSame
<1>6. Refined
  BY DEF CleanupOldLogs, GrowOld, Refined, Atomic!RegistryNext, Atomic!Expire, Atomic!Age
<1> QED BY <1>2, <1>3, <1>4, <1>5, <1>6 DEF Inv

-----------------------------------------------------------------------------
LEMMA InitInv == Init => Inv /\ Atomic!RegistryInit
<1> SUFFICES ASSUME Init PROVE Inv /\ Atomic!RegistryInit
  OBVIOUS
<1> USE SubscriptionsAssumption DEF Init
<1>1. TypeLocals BY DEF TypeLocals, Label
<1>2. TypeTables BY DEF TypeTables
<1>3. \A a \in Agent : Mine(a) BY DEF Mine
<1>4. Apart BY DEF Apart, Creating
<1>5. Settled BY DEF Settled, CacheBehind
<1>6. Bounded
  <2>1. Busy = {}
    BY DEF Busy, Agent
  <2> QED BY <2>1, FS_EmptySet DEF Bounded
<1>7. Atomic!RegistryInit BY DEF Atomic!RegistryInit
<1> QED BY <1>1, <1>2, <1>3, <1>4, <1>5, <1>6, <1>7 DEF Inv

LEMMA NextInv == Inv /\ [Next]_vars => Inv' /\ Refined
<1> SUFFICES ASSUME Inv, [Next]_vars PROVE Inv' /\ Refined
  OBVIOUS
<1>1. CASE UNCHANGED vars
  BY <1>1
  DEF vars, dbVars, reqVars, Inv, TypeLocals, TypeTables, Mine, Apart, Creating,
      Settled, CacheBehind, Bounded, Busy, Refined
<1>2. ASSUME NEW a \in Agent, Serve(a) PROVE Inv' /\ Refined
  BY <1>2, LookupInv, StatementInv, TransactionInv, DeletedInv DEF Serve
<1>3. ASSUME NEW a \in Agent, Failing(a) PROVE Inv' /\ Refined
  <2>1. tasked' = tasked /\ faults' \in 0..MaxFaults
    BY <1>3, SubscriptionsAssumption DEF Failing, Inv, TypeTables
  <2>2. CASE GetFails(a) \/ LookupFails(a)
    BY <2>1, <2>2, LookupInv
  <2>3. CASE StatementFails(a)
    BY <2>1, <2>3, StatementInv
  <2>4. CASE TransactionFails(a) \/ UncacheFails(a)
    BY <2>1, <2>4, DeletedInv
  <2> QED BY <1>3, <2>2, <2>3, <2>4 DEF Failing
<1>4. ASSUME NEW a \in Agent, NEW s \in Sub, Arrive(a, s) PROVE Inv' /\ Refined
  BY <1>4, BeginInv
<1> QED BY <1>1, <1>2, <1>3, <1>4, AgingInv DEF Next

(* Every reachable state satisfies the invariant.                          *)
LEMMA Invariant == Spec => []Inv
BY InitInv, NextInv, PTL DEF Spec

(* Every variable stays within its type, the log rows below their bound.   *)
THEOREM TypeCorrect == Spec => []TypeOK
BY Invariant, TypesOK, PTL

(* One "Subscription deleted" at most, however the deletes overlap.        *)
THEOREM Deletes == Spec => []OneDelete
<1>1. Inv => OneDelete
  BY DEF Inv, Settled, TypeTables, OneDelete
<1> QED BY <1>1, Invariant, PTL

(* The cache is never ahead of the database.                               *)
THEOREM Behind == Spec => []CacheBehind
<1>1. Inv => CacheBehind
  BY DEF Inv, Settled
<1> QED BY <1>1, Invariant, PTL

(* Statement by statement, with failures, the tables change as those of    *)
(* the Registry do.                                                        *)
THEOREM Implements == Spec => RefinesRegistry
<1>1. Init => Atomic!RegistryInit
  BY InitInv
<1>2. Inv /\ [Next]_vars => [Atomic!RegistryNext]_(Atomic!registryVars)
  BY NextInv DEF Refined, Atomic!registryVars
<1> QED BY <1>1, <1>2, Invariant, PTL DEF Spec, RefinesRegistry, Atomic!RegistrySpec
=============================================================================
