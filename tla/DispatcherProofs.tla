-------------------------- MODULE DispatcherProofs --------------------------
(***************************************************************************)
(* What is proved of Dispatcher for every set of workers, events and work  *)
(* items and any number of deliveries.                                     *)
(***************************************************************************)
EXTENDS Dispatcher, WellFoundedInduction, TLAPS

-----------------------------------------------------------------------------
(* The latest row.                                                         *)

\* A nonempty set of numbers that is bounded has a largest one.
LEMMA Largest ==
    ASSUME NEW k \in Nat, NEW S, S \subseteq 1 .. k, S # {}
    PROVE  \E n \in S : \A m \in S : m <= n
  <1> DEFINE gaps == {k - n : n \in S}
  <1>1. gaps \subseteq Nat /\ gaps # {}
    <2>1. \A n \in S : n \in 1 .. k /\ k - n \in Nat
      OBVIOUS
    <2> QED
      BY <2>1
  <1>2. PICK x \in gaps : \A y \in gaps : ~(<<y, x>> \in OpToRel(<, Nat))
    BY <1>1, NatLessThanWellFounded, WFMin
  <1>3. \A y \in gaps : ~(y < x)
    BY <1>1, <1>2 DEF OpToRel
  <1>4. PICK n \in S : x = k - n
    OBVIOUS
  <1>5. ASSUME NEW m \in S PROVE m <= n
    <2>1. k - m \in gaps /\ ~(k - m < k - n)
      BY <1>3, <1>4
    <2> QED
      BY <2>1
  <1> QED
    BY <1>5

-----------------------------------------------------------------------------
(* The rows.                                                               *)

States == {"ignored", "blocked", "triaged", "later"}

Rows == [event : Notice, item : WorkItem \cup {NoItem}, state : States,
         accepted : BOOLEAN, time : 1 .. 2]

\* A row says of its event what the event itself decides, and what it accepted
\* has been triaged.
Sound(row, done) ==
    /\ row.accepted = Admissible(row.event)
    /\ row.item = IF row.accepted THEN ItemOf[row.event] ELSE NoItem
    /\ row.accepted => row.state \in {"triaged", "later"} /\ row.item \in done

OnePerEvent(rows) ==
    \A m, n \in DOMAIN rows : rows[m].event = rows[n].event => m = n

LEMMA NoRowIsNone == NoRow \notin Rows
  BY DEF NoRow, Row, Rows, States

LEMMA GetEventIsRow ==
    ASSUME NEW rows \in Seq(Rows), NEW e, GetEvent(rows, e) # NoRow
    PROVE  \E n \in DOMAIN rows : rows[n].event = e /\ GetEvent(rows, e) = rows[n]
  BY DEF GetEvent

LEMMA GetEventIsNone ==
    ASSUME NEW rows \in Seq(Rows), NEW e, GetEvent(rows, e) = NoRow
    PROVE  \A n \in DOMAIN rows : rows[n].event # e
  <1> SUFFICES ASSUME NEW n \in DOMAIN rows, rows[n].event = e PROVE FALSE
    OBVIOUS
  <1>1. \E m \in DOMAIN rows : GetEvent(rows, e) = rows[m]
    BY DEF GetEvent
  <1> QED
    BY <1>1, NoRowIsNone

\* The row on record for an event is the only one it has.
LEMMA GetEventFinds ==
    ASSUME NEW rows \in Seq(Rows), OnePerEvent(rows), NEW n \in DOMAIN rows
    PROVE  GetEvent(rows, rows[n].event) = rows[n]
  BY DEF GetEvent, OnePerEvent

\* Recording keeps the rows there are and adds at most one, for a new event.
LEMMA RecordKeeps ==
    ASSUME NEW rows \in Seq(Rows), OnePerEvent(rows), NEW row \in Rows
    PROVE  /\ RecordRow(rows, row) \in Seq(Rows)
           /\ OnePerEvent(RecordRow(rows, row))
           /\ DOMAIN rows \subseteq DOMAIN RecordRow(rows, row)
           /\ \A n \in DOMAIN rows : RecordRow(rows, row)[n] = rows[n]
           /\ \A n \in DOMAIN RecordRow(rows, row) :
                  \/ n \in DOMAIN rows
                  \/ RecordRow(rows, row)[n] = row
  <1>1. CASE GetEvent(rows, row.event) # NoRow
    BY <1>1 DEF RecordRow
  <1>2. CASE GetEvent(rows, row.event) = NoRow
    <2>1. RecordRow(rows, row) = Append(rows, row)
      BY <1>2 DEF RecordRow
    <2>2. \A n \in DOMAIN rows : rows[n].event # row.event
      BY <1>2, GetEventIsNone
    <2>3. /\ Append(rows, row) \in Seq(Rows)
          /\ DOMAIN Append(rows, row) = 1 .. Len(rows) + 1
          /\ DOMAIN rows = 1 .. Len(rows)
          /\ Append(rows, row)[Len(rows) + 1] = row
          /\ \A n \in 1 .. Len(rows) : Append(rows, row)[n] = rows[n]
      OBVIOUS
    <2>4. OnePerEvent(Append(rows, row))
      BY <2>2, <2>3 DEF OnePerEvent
    <2> QED
      BY <2>1, <2>3, <2>4
  <1> QED
    BY <1>1, <1>2

\* The latest row of a unit is one of its rows: the timestamps have a largest
\* one, and of the rows that carry it one was inserted last.
LEMMA GetUnitIsRow ==
    ASSUME NEW rows \in Seq(Rows), NEW item, GetUnit(rows, item) # NoRow
    PROVE  \E n \in DOMAIN rows : rows[n].item = item /\ GetUnit(rows, item) = rows[n]
  <1> DEFINE about == {n \in DOMAIN rows : rows[n].item = item}
             times == {rows[n].time : n \in about}
             IsLatest(n) == \A k \in about \ {n} :
                                \/ rows[k].time < rows[n].time
                                \/ rows[k].time = rows[n].time /\ k < n
  <1>1. about # {} /\ GetUnit(rows, item) = rows[CHOOSE n \in about : IsLatest(n)]
    BY DEF GetUnit
  <1> HIDE DEF IsLatest
  <1>0. \A n \in DOMAIN rows : rows[n] \in Rows /\ n \in Nat
    OBVIOUS
  <1>2. times # {} /\ times \subseteq 1 .. 2
    <2>1. \A n \in about : rows[n].time \in 1 .. 2
      BY <1>0 DEF Rows
    <2> QED
      BY <1>1, <2>1
  <1>3. PICK t \in times : \A u \in times : u <= t
    BY <1>2, Largest
  <1> DEFINE last == {n \in about : rows[n].time = t}
  <1>4. last # {} /\ last \subseteq 1 .. Len(rows) /\ Len(rows) \in Nat
    BY <1>3
  <1>5. PICK n \in last : \A m \in last : m <= n
    BY <1>4, Largest
  <1>6. IsLatest(n)
    <2> USE DEF IsLatest
    <2> SUFFICES ASSUME NEW k \in about \ {n}
                 PROVE  \/ rows[k].time < rows[n].time
                        \/ rows[k].time = rows[n].time /\ k < n
      OBVIOUS
    <2>1. rows[k].time \in times /\ rows[k].time <= t /\ rows[n].time = t
      BY <1>3, <1>5
    <2>2. rows[k].time \in Int /\ t \in Int
      <3>1. times \subseteq Int
        BY <1>2
      <3> HIDE DEF times
      <3> QED
        BY <1>3, <2>1, <3>1
    <2>3. rows[k].time = t => k < n
      BY <1>0, <1>5
    <2> HIDE DEF about, times, last
    <2> QED
      BY <2>1, <2>2, <2>3
  <1>7. (CHOOSE m \in about : IsLatest(m)) \in about
    BY <1>5, <1>6
  <1> QED
    BY <1>1, <1>7

-----------------------------------------------------------------------------
(* The inductive invariant.                                                *)

Phases == {"absent", "intake", "triaged", "later"}

DispatchTypes ==
    /\ journal \in Seq(Rows)
    /\ engine \in [Worker -> [WorkItem -> Phases]]
    /\ at \in [Worker -> {"idle", "lookup", "admit", "record"}]
    /\ doing \in [Worker -> [event : Notice \cup {NoItem}, time : 0 .. 2,
                             row : Rows \cup {NoRow}]]
    /\ triaged \subseteq WorkItem
    /\ answers \subseteq [row : Rows, due : Rows \cup {NoRow}]

\* What a worker has found out about the delivery it handles.
Handled(w) ==
    /\ at[w] \in {"lookup", "admit"} =>
           /\ doing[w].event \in Notice
           /\ Admissible(doing[w].event)
           /\ ItemOf[doing[w].event] \in WorkItem
           /\ doing[w].time \in 1 .. 2
    /\ at[w] = "record" => doing[w].row \in Rows /\ Sound(doing[w].row, triaged)

Answered(a) ==
    /\ Sound(a.row, triaged)
    /\ a.due # NoRow =>
           a.row = a.due /\ \E n \in DOMAIN journal : journal[n] = a.due

DispatchInv ==
    /\ DispatchTypes
    /\ OnePerEvent(journal)
    /\ \A n \in DOMAIN journal : Sound(journal[n], triaged)
    /\ \A w \in Worker : Handled(w)
    /\ \A a \in answers : Answered(a)

LEMMA SoundGrows ==
    ASSUME NEW row, NEW done, Sound(row, done), NEW more, done \subseteq more
    PROVE  Sound(row, more)
  BY DEF Sound

\* A step that leaves the journal and the answers alone and triages more keeps
\* what was said of them.
LEMMA SaidStands ==
    ASSUME DispatchInv, journal' = journal, answers' = answers,
           triaged \subseteq triaged'
    PROVE  /\ OnePerEvent(journal')
           /\ \A n \in DOMAIN journal' : Sound(journal'[n], triaged')
           /\ \A a \in answers' : Answered(a)'
  BY SoundGrows DEF DispatchInv, Answered

LEMMA OtherWorkers ==
    ASSUME DispatchInv, NEW w \in Worker, NEW v \in Worker, v # w,
           at'[v] = at[v], doing'[v] = doing[v], triaged \subseteq triaged'
    PROVE  Handled(v)'
  BY SoundGrows DEF DispatchInv, Handled

LEMMA IdleWorker ==
    ASSUME DispatchTypes, NEW w \in Worker, Goto(w, "idle"),
           doing' = [doing EXCEPT ![w] = NoDelivery]
    PROVE  /\ at' \in [Worker -> {"idle", "lookup", "admit", "record"}]
           /\ doing' \in [Worker -> [event : Notice \cup {NoItem}, time : 0 .. 2,
                                     row : Rows \cup {NoRow}]]
           /\ Handled(w)'
           /\ \A v \in Worker \ {w} : at'[v] = at[v] /\ doing'[v] = doing[v]
  BY DEF DispatchTypes, Goto, Handled, NoDelivery

LEMMA InvInit == DispatchInit => DispatchInv
  <1> SUFFICES ASSUME DispatchInit PROVE DispatchInv
    OBVIOUS
  <1>1. NoDelivery \in [event : Notice \cup {NoItem}, time : 0 .. 2,
                        row : Rows \cup {NoRow}]
    BY DEF NoDelivery
  <1>2. DispatchTypes
    BY <1>1 DEF DispatchInit, DispatchTypes, Phases
  <1> QED
    BY <1>2 DEF DispatchInit, DispatchInv, OnePerEvent, Handled

LEMMA InvDeliver ==
    ASSUME DispatchInv, NEW w \in Worker, NEW e \in Notice, NEW clock \in 1 .. 2,
           Deliver(w, e, clock)
    PROVE  DispatchInv'
  <1> DEFINE row == GetEvent(journal, e)
             refused == Row(e, NoItem, Refusal(e), FALSE, clock)
  <1>0. DispatchTypes /\ journal' = journal /\ engine' = engine /\ triaged' = triaged
    BY DEF DispatchInv, Deliver
  <1>1. CASE row # NoRow
    <2>1. PICK n \in DOMAIN journal : row = journal[n]
      BY <1>0, <1>1, GetEventIsRow DEF DispatchTypes
    <2>2. row \in Rows /\ Sound(row, triaged)
      BY <1>0, <2>1 DEF DispatchInv, DispatchTypes
    <2>3. answers' = answers \cup {[row |-> row, due |-> row]} /\ UNCHANGED <<at, doing>>
      BY <1>1 DEF Deliver, Answer
    <2>4. \A a \in answers' : Answered(a)'
      BY <1>0, <2>1, <2>2, <2>3 DEF DispatchInv, Answered
    <2>5. DispatchTypes'
      BY <1>0, <2>2, <2>3 DEF DispatchTypes
    <2> QED
      BY <1>0, <2>3, <2>4, <2>5 DEF DispatchInv, Handled
  <1>2. CASE row = NoRow /\ ~Admissible(e)
    <2>1. /\ doing' = [doing EXCEPT ![w] = [event |-> e, time |-> clock, row |-> refused]]
          /\ at' = [at EXCEPT ![w] = "record"] /\ answers' = answers
      BY <1>2 DEF Deliver, Goto
    <2>2. refused \in Rows /\ Sound(refused, triaged)
      <3>1. Refusal(e) \in States
        BY DEF Refusal, States
      <3>2. Admissible(e) = FALSE
        BY <1>2 DEF Admissible
      <3> QED
        BY <3>1, <3>2 DEF Row, Rows, Sound
    <2> HIDE DEF refused
    <2>3. DispatchTypes'
      BY <1>0, <2>1, <2>2 DEF DispatchTypes
    <2>4. Handled(w)'
      BY <1>0, <2>1, <2>2 DEF DispatchTypes, Handled
    <2>5. \A v \in Worker \ {w} : Handled(v)'
      BY <1>0, <2>1, OtherWorkers DEF DispatchTypes
    <2> QED
      BY <1>0, <2>1, <2>3, <2>4, <2>5, SaidStands DEF DispatchInv
  <1>3. CASE row = NoRow /\ Admissible(e) /\ ItemOf[e] # NoItem
    <2>1. /\ doing' = [doing EXCEPT ![w] = [event |-> e, time |-> clock, row |-> NoRow]]
          /\ at' = [at EXCEPT ![w] = "lookup"] /\ answers' = answers
      BY <1>3 DEF Deliver, Goto
    <2>2. DispatchTypes'
      BY <1>0, <2>1 DEF DispatchTypes
    <2>3. Handled(w)'
      BY <1>0, <1>3, <2>1, DispatchAssumption DEF DispatchTypes, Handled
    <2>4. \A v \in Worker \ {w} : Handled(v)'
      BY <1>0, <2>1, OtherWorkers DEF DispatchTypes
    <2> QED
      BY <1>0, <2>1, <2>2, <2>3, <2>4, SaidStands DEF DispatchInv
  <1>4. CASE row = NoRow /\ Admissible(e) /\ ItemOf[e] = NoItem
    <2>1. UNCHANGED <<journal, engine, at, doing, triaged, answers>>
      BY <1>0, <1>4 DEF Deliver
    <2> QED
      BY <2>1 DEF DispatchInv, DispatchTypes, Handled, Answered
  <1> QED
    BY <1>1, <1>2, <1>3, <1>4

\* An earlier accepted event of the unit answers for the unit, not for this
\* event: the row it leaves says that this event is admissible too.
LEMMA InvLookup ==
    ASSUME DispatchInv, NEW w \in Worker, Lookup(w)
    PROVE  DispatchInv'
  <1> DEFINE e == doing[w].event
             prior == GetUnit(journal, ItemOf[e])
             found == Row(e, ItemOf[e], prior.state, TRUE, doing[w].time)
  <1>0. /\ DispatchTypes /\ Handled(w) /\ at[w] = "lookup"
        /\ UNCHANGED <<journal, engine, triaged, answers>>
    BY DEF DispatchInv, Lookup
  <1>1. e \in Notice /\ Admissible(e) /\ ItemOf[e] \in WorkItem /\ doing[w].time \in 1 .. 2
    BY <1>0 DEF Handled
  <1>2. CASE prior.accepted
    <2>1. at' = [at EXCEPT ![w] = "record"] /\ doing' = [doing EXCEPT ![w].row = found]
      BY <1>2 DEF Lookup, Goto, Decided
    <2>2. prior # NoRow
      BY <1>2 DEF NoRow, Row
    <2>3. PICK n \in DOMAIN journal : journal[n].item = ItemOf[e] /\ prior = journal[n]
      BY <1>0, <2>2, GetUnitIsRow DEF DispatchTypes
    <2>4. Sound(prior, triaged) /\ prior.item = ItemOf[e]
      BY <2>3 DEF DispatchInv
    <2>5. prior.state \in {"triaged", "later"} /\ ItemOf[e] \in triaged
      BY <1>2, <2>4 DEF Sound
    <2> HIDE DEF prior
    <2>6. found \in Rows /\ Sound(found, triaged)
      BY <1>1, <2>5 DEF Row, Rows, States, Sound
    <2> HIDE DEF found
    <2>7. DispatchTypes'
      BY <1>0, <2>1, <2>6 DEF DispatchTypes
    <2>8. Handled(w)'
      BY <1>0, <2>1, <2>6 DEF DispatchTypes, Handled
    <2>9. \A v \in Worker \ {w} : Handled(v)'
      BY <1>0, <2>1, OtherWorkers DEF DispatchTypes
    <2> QED
      BY <1>0, <2>7, <2>8, <2>9, SaidStands DEF DispatchInv
  <1>3. CASE ~prior.accepted
    <2>1. at' = [at EXCEPT ![w] = "admit"] /\ doing' = doing
      BY <1>3 DEF Lookup, Goto
    <2>2. DispatchTypes'
      BY <1>0, <2>1 DEF DispatchTypes
    <2>3. Handled(w)'
      BY <1>0, <2>1 DEF DispatchTypes, Handled
    <2>4. \A v \in Worker \ {w} : Handled(v)'
      BY <1>0, <2>1, OtherWorkers DEF DispatchTypes
    <2> QED
      BY <1>0, <2>2, <2>3, <2>4, SaidStands DEF DispatchInv
  <1> QED
    BY <1>2, <1>3

\* The engine triages the unit before the row that says so is written.
LEMMA InvAdmit ==
    ASSUME DispatchInv, NEW w \in Worker, Admit(w)
    PROVE  DispatchInv'
  <1> DEFINE e == doing[w].event
             item == ItemOf[e]
             now == IF engine[w][item] \in {"absent", "intake"} THEN "triaged"
                    ELSE engine[w][item]
             made == Row(e, item, now, TRUE, doing[w].time)
  <1>0. DispatchTypes /\ Handled(w) /\ at[w] = "admit"
    BY DEF DispatchInv, Admit
  <1>1. e \in Notice /\ Admissible(e) /\ item \in WorkItem /\ doing[w].time \in 1 .. 2
    BY <1>0 DEF Handled
  <1>2. /\ engine' = [engine EXCEPT ![w][item] = now]
        /\ triaged' = triaged \cup {item}
        /\ doing' = [doing EXCEPT ![w].row = made]
        /\ at' = [at EXCEPT ![w] = "record"]
        /\ journal' = journal /\ answers' = answers
    BY DEF Admit, Goto, Decided
  <1>3. engine[w] \in [WorkItem -> Phases] /\ now \in {"triaged", "later"}
    BY <1>0, <1>1 DEF DispatchTypes, Phases
  <1> HIDE DEF now
  <1>4. made \in Rows /\ Sound(made, triaged')
    BY <1>1, <1>2, <1>3 DEF Row, Rows, States, Sound
  <1> HIDE DEF made
  <1>5. engine' \in [Worker -> [WorkItem -> Phases]]
    BY <1>0, <1>1, <1>2, <1>3 DEF DispatchTypes, Phases
  <1>6. DispatchTypes'
    BY <1>0, <1>1, <1>2, <1>4, <1>5 DEF DispatchTypes
  <1>7. Handled(w)'
    BY <1>0, <1>2, <1>4 DEF DispatchTypes, Handled
  <1>8. \A v \in Worker \ {w} : Handled(v)'
    BY <1>0, <1>2, OtherWorkers DEF DispatchTypes
  <1> QED
    BY <1>2, <1>6, <1>7, <1>8, SaidStands DEF DispatchInv

LEMMA InvPersist ==
    ASSUME DispatchInv, NEW w \in Worker, Persist(w)
    PROVE  DispatchInv'
  <1> DEFINE row == doing[w].row
  <1>0. /\ DispatchTypes /\ OnePerEvent(journal) /\ row \in Rows /\ Sound(row, triaged)
        /\ engine' = engine /\ triaged' = triaged
    BY DEF DispatchInv, Persist, Handled
  <1>1. /\ journal' = RecordRow(journal, row)
        /\ answers' = answers \cup {[row |-> row, due |-> NoRow]}
        /\ Goto(w, "idle") /\ doing' = [doing EXCEPT ![w] = NoDelivery]
    BY DEF Persist, Answer
  <1>2. /\ journal' \in Seq(Rows) /\ OnePerEvent(journal')
        /\ DOMAIN journal \subseteq DOMAIN journal'
        /\ \A n \in DOMAIN journal : journal'[n] = journal[n]
        /\ \A n \in DOMAIN journal' : n \in DOMAIN journal \/ journal'[n] = row
    BY <1>0, <1>1, RecordKeeps DEF DispatchTypes
  <1> HIDE DEF row
  <1>3. \A n \in DOMAIN journal' : Sound(journal'[n], triaged')
    BY <1>0, <1>2 DEF DispatchInv
  <1>4. \A a \in answers' : Answered(a)'
    <2> SUFFICES ASSUME NEW a \in answers' PROVE Answered(a)'
      OBVIOUS
    <2>1. CASE a \in answers
      <3>1. Answered(a)
        BY <2>1 DEF DispatchInv
      <3> QED
        BY <1>0, <1>2, <3>1 DEF Answered
    <2>2. CASE a = [row |-> row, due |-> NoRow]
      BY <1>0, <2>2 DEF Answered
    <2> QED
      BY <1>1, <2>1, <2>2
  <1>5. DispatchTypes'
    <2>1. answers' \subseteq [row : Rows, due : Rows \cup {NoRow}]
      BY <1>0, <1>1 DEF DispatchTypes
    <2>2. /\ at' \in [Worker -> {"idle", "lookup", "admit", "record"}]
          /\ doing' \in [Worker -> [event : Notice \cup {NoItem}, time : 0 .. 2,
                                    row : Rows \cup {NoRow}]]
      BY <1>0, <1>1, IdleWorker
    <2> QED
      BY <1>0, <1>2, <2>1, <2>2 DEF DispatchTypes
  <1>6. \A v \in Worker : Handled(v)'
    BY <1>0, <1>1, IdleWorker, OtherWorkers
  <1> QED
    BY <1>2, <1>3, <1>4, <1>5, <1>6 DEF DispatchInv

\* A failed journal call and a restart forget the delivery, never a decision.
LEMMA InvForget ==
    ASSUME DispatchInv, NEW w \in Worker, StoreError(w) \/ Restart(w)
    PROVE  DispatchInv'
  <1>1. /\ DispatchTypes /\ Goto(w, "idle") /\ doing' = [doing EXCEPT ![w] = NoDelivery]
        /\ journal' = journal /\ answers' = answers /\ triaged' = triaged
        /\ \/ engine' = engine
           \/ engine' = [engine EXCEPT ![w] = [i \in WorkItem |-> "absent"]]
    BY DEF DispatchInv, StoreError, Restart
  <1>2. engine' \in [Worker -> [WorkItem -> Phases]]
    BY <1>1 DEF DispatchTypes, Phases
  <1>3. DispatchTypes'
    BY <1>1, <1>2, IdleWorker DEF DispatchTypes
  <1>4. \A v \in Worker : Handled(v)'
    BY <1>1, IdleWorker, OtherWorkers
  <1> QED
    BY <1>1, <1>3, <1>4, SaidStands DEF DispatchInv

LEMMA InvEngineMoves ==
    ASSUME DispatchInv, NEW w \in Worker, NEW i \in WorkItem, EngineMoves(w, i)
    PROVE  DispatchInv'
  <1>1. /\ DispatchTypes /\ UNCHANGED <<journal, at, doing, triaged, answers>>
        /\ \E now \in Phases : engine' = [engine EXCEPT ![w][i] = now]
    BY DEF DispatchInv, EngineMoves, Phases
  <1>2. engine' \in [Worker -> [WorkItem -> Phases]]
    BY <1>1 DEF DispatchTypes
  <1> QED
    BY <1>1, <1>2 DEF DispatchInv, DispatchTypes, Handled, Answered

LEMMA InvNext == DispatchInv /\ [DispatchNext]_dispatchVars => DispatchInv'
  <1> SUFFICES ASSUME DispatchInv, [DispatchNext]_dispatchVars PROVE DispatchInv'
    OBVIOUS
  <1>1. CASE DispatchNext
    BY <1>1, InvDeliver, InvLookup, InvAdmit, InvPersist, InvForget, InvEngineMoves
       DEF DispatchNext
  <1>2. CASE UNCHANGED dispatchVars
    BY <1>2 DEF dispatchVars, DispatchInv, DispatchTypes, Handled, Answered
  <1> QED
    BY <1>1, <1>2

\* The journal holds one row per event, and every row and every decision under
\* way says what its event alone decides.
THEOREM DispatchInvariant == DispatchSpec => []DispatchInv
  BY InvInit, InvNext, PTL DEF DispatchSpec

\* However deliveries are repeated, raced by another worker, failed or cut off by
\* a restart: answers to one event agree, what is on record stands, and what was
\* accepted was admissible and is triaged.
THEOREM EventsDecidedOnce == DispatchSpec => []DecidedOnce
  <1>1. DispatchInv => DecidedOnce
    <2> SUFFICES ASSUME DispatchInv PROVE DecidedOnce
      OBVIOUS
    <2>1. \A a \in answers : Answered(a) /\ a.row \in Rows
      BY DEF DispatchInv, DispatchTypes
    <2>2. ASSUME NEW a \in answers, NEW b \in answers, a.row.event = b.row.event
          PROVE  a.row.accepted = b.row.accepted /\ a.row.item = b.row.item
      BY <2>1, <2>2 DEF Answered, Sound
    <2>3. ASSUME NEW a \in answers, a.due # NoRow
          PROVE  a.row = a.due /\ a.row = GetEvent(journal, a.due.event)
      BY <2>1, <2>3, GetEventFinds DEF DispatchInv, DispatchTypes, Answered
    <2>4. ASSUME NEW a \in answers, a.row.accepted
          PROVE  /\ Admissible(a.row.event)
                 /\ a.row.state # "intake" /\ a.row.item \in triaged
      BY <2>1, <2>4 DEF Answered, Sound
    <2> QED
      BY <2>2, <2>3, <2>4 DEF DecidedOnce
  <1> QED
    BY <1>1, DispatchInvariant, PTL

=============================================================================
