----------------------- MODULE PeriodicReporting_proofs -----------------------
(***************************************************************************)
(* Proofs about the queues of messages and the applications that use them, *)
(* for any clients, names, maps, payloads, fixes and budgets.              *)
(***************************************************************************)
EXTENDS PeriodicReporting, Payload_proofs

(* The values of the variables.                                            *)
Names == {<<"time", t>> : t \in 0..MaxClock} \cup {<<g[1], "">> : g \in Given}

TxStates == TX_READY..TX_CANCELLED
RxStates == {RX_COMPLETE, RX_RETRIEVED}

MoBodies == {[kind |-> "report"], [kind |-> "other"]}
MtBodies == {[kind |-> "encoded", p |-> p] : p \in DOMAIN Payloads}
            \cup {[kind |-> "interval"], [kind |-> "other"]}

MoMessages == [name : Names, by : Nat, state : TxStates, body : MoBodies]
MtMessages == [name : {<<"FM", n>> : n \in Nat}, state : RxStates, body : MtBodies]

Listed    == [name : Names, state : TxStates]
Clearings == [kind : {"clear"}, todo : Seq(Listed), count : Nat, found : SUBSET Nat, mine : SUBSET Nat]
Deletions == [kind : {"delete"}, todo : Seq(Names)]
Controls  == [kind : {"control"}, map : Maps, old : SUBSET Events, alone : BOOLEAN]
Operations == {Idle} \cup Clearings \cup Deletions \cup Controls

Queues ==
    /\ api \in {"threaded", "asyncio"}
    /\ mo \in Seq(MoMessages) /\ mt \in Seq(MtMessages) /\ s88 \in SUBSET Events
    /\ busy \in [Clients -> Operations]
    /\ clock \in 0..MaxClock /\ activity \in [{"mo", "mt", "s88"} -> Nat]

-------------------------------------------------------------------------------
(* A message of the queue has the place that Named says.                   *)
LEMMA NamedIs ==
  ASSUME NEW q, NEW name, InQueue(q, name)
  PROVE  Named(q, name) \in DOMAIN q /\ q[Named(q, name)].name = name
<1>1. PICK i \in DOMAIN q : q[i].name = name
  BY DEF InQueue
<1>2. QED
  BY <1>1 DEF Named

HasState(M, state) == \A m \in M : [m EXCEPT !.state = state] \in M

(* WithState changes the state of that message and nothing else.           *)
LEMMA WithStateIs ==
  ASSUME NEW M, NEW q \in Seq(M), NEW name, InQueue(q, name), NEW state,
         HasState(M, state)
  PROVE  /\ WithState(q, name, state) \in Seq(M)
         /\ Len(WithState(q, name, state)) = Len(q)
         /\ \A i \in 1..Len(q) :
              WithState(q, name, state)[i] =
                IF i = Named(q, name) THEN [q[i] EXCEPT !.state = state] ELSE q[i]
<1> DEFINE n == Named(q, name)
<1>1. n \in 1..Len(q) /\ DOMAIN q = 1..Len(q)
  BY NamedIs
<1> HIDE DEF n
<1>2. WithState(q, name, state) = [q EXCEPT ![n] = [q[n] EXCEPT !.state = state]]
  BY DEF WithState, n
<1>3. q[n] \in M
  BY <1>1
<1> DEFINE m == [q[n] EXCEPT !.state = state]
<1>4. m \in M
  BY <1>3 DEF HasState
<1> HIDE DEF m
<1>5. WithState(q, name, state) = [q EXCEPT ![n] = m]
  BY <1>2 DEF m
<1>6. QED
  BY <1>1, <1>4, <1>5 DEF m, n

(* Without takes that message out: the others keep their order.            *)
LEMMA WithoutIs ==
  ASSUME NEW M, NEW q \in Seq(M), NEW name, InQueue(q, name)
  PROVE  /\ Named(q, name) \in 1..Len(q)
         /\ Without(q, name) \in Seq(M)
         /\ Len(Without(q, name)) = Len(q) - 1
         /\ \A i \in 1..(Len(q) - 1) :
              Without(q, name)[i] = IF i < Named(q, name) THEN q[i] ELSE q[i + 1]
<1> DEFINE n == Named(q, name)
           a == SubSeq(q, 1, n - 1)
           b == SubSeq(q, n + 1, Len(q))
<1>1. n \in 1..Len(q) /\ DOMAIN q = 1..Len(q) /\ Len(q) \in Nat
  BY NamedIs
<1> HIDE DEF n
<1>2. Without(q, name) = a \o b
  BY DEF Without, RemoveAt, n
<1>3. a \in Seq(M) /\ Len(a) = n - 1 /\ \A i \in 1..(n - 1) : a[i] = q[i]
  BY <1>1
<1>4. b \in Seq(M) /\ Len(b) = Len(q) - n /\ \A i \in 1..(Len(q) - n) : b[i] = q[n + i]
  <2>1. \A i \in n + 1..Len(q) : i \in 1..Len(q) /\ q[i] \in M
    BY <1>1
  <2>2. /\ b \in Seq(M)
        /\ Len(b) = IF n + 1 <= Len(q) THEN Len(q) - (n + 1) + 1 ELSE 0
        /\ \A i \in 1..Len(b) : b[i] = q[n + 1 + i - 1]
    BY <1>1, <2>1, SubSeqProperties
  <2> HIDE DEF b
  <2>3. Len(b) = Len(q) - n
    <3>1. n \in Nat /\ Len(q) \in Nat /\ n <= Len(q)
      BY <1>1
    <3>2. Len(b) = IF n + 1 <= Len(q) THEN Len(q) - (n + 1) + 1 ELSE 0
      BY <2>2
    <3> HIDE DEF a
    <3>3. QED
      BY <3>1, <3>2
  <2>4. ASSUME NEW i \in 1..(Len(q) - n) PROVE b[i] = q[n + i]
    <3>1. n + 1 + i - 1 = n + i
      BY <1>1
    <3>2. QED
      BY <2>2, <2>3, <3>1
  <2>5. QED
    BY <2>2, <2>3, <2>4
<1> HIDE DEF a, b
<1>5. /\ a \o b \in Seq(M) /\ Len(a \o b) = Len(a) + Len(b)
      /\ \A i \in 1..(Len(a) + Len(b)) : (a \o b)[i] = IF i <= Len(a) THEN a[i] ELSE b[i - Len(a)]
  BY <1>3, <1>4, ConcatProperties
<1>6. ASSUME NEW i \in 1..(Len(q) - 1)
      PROVE  (a \o b)[i] = IF i < n THEN q[i] ELSE q[i + 1]
  <2>1. CASE i < n
    BY <1>1, <1>3, <1>4, <1>5, <2>1
  <2>2. CASE ~ (i < n)
    <3>1. i - Len(a) \in 1..(Len(q) - n) /\ n + (i - Len(a)) = i + 1
      BY <1>1, <1>3, <2>2
    <3>2. ~ (i <= Len(a)) /\ i \in 1..(Len(a) + Len(b))
      BY <1>1, <1>3, <1>4, <2>2
    <3>3. (a \o b)[i] = b[i - Len(a)]
      BY <1>5, <3>2
    <3>4. b[i - Len(a)] = q[n + (i - Len(a))]
      BY <1>4, <3>1
    <3>5. QED
      BY <2>2, <3>1, <3>3, <3>4
  <2>3. QED
    BY <2>1, <2>2
<1>7. QED
  BY <1>1, <1>2, <1>3, <1>4, <1>5, <1>6 DEF n

-------------------------------------------------------------------------------
(***************************************************************************)
(* What the steps do to the transmit queue.                                *)
(***************************************************************************)

(* A message of q2 is the one of q at the index f says; it is not ready or *)
(* open again if it was not before.                                        *)
Later(m2, m) ==
    /\ m2.name = m.name /\ m2.by = m.by /\ m2.body = m.body
    /\ m2.state = TX_READY => m.state = TX_READY
    /\ Open(m2.state) => Open(m.state)

DerivedBy(f, q2, q) ==
    /\ \A j \in 1..Len(q2) : f[j] \in 1..Len(q) /\ Later(q2[j], q[f[j]])
    /\ \A j, k \in 1..Len(q2) : f[j] = f[k] => j = k

Derived(q2, q) == \E f : DerivedBy(f, q2, q)

LEMMA DerivedSame == ASSUME NEW q PROVE Derived(q, q)
<1> DEFINE f == [j \in 1..Len(q) |-> j]
<1>1. DerivedBy(f, q, q)
  BY DEF DerivedBy, Later
<1>2. QED
  BY <1>1 DEF Derived

LEMMA DerivedWithState ==
  ASSUME NEW q \in Seq(MoMessages), NEW name, InQueue(q, name), NEW state \in TxStates,
         state # TX_READY, Open(state) => Open(q[Named(q, name)].state)
  PROVE  /\ WithState(q, name, state) \in Seq(MoMessages)
         /\ Derived(WithState(q, name, state), q)
<1> DEFINE w == WithState(q, name, state)
           f == [j \in 1..Len(q) |-> j]
<1>1. HasState(MoMessages, state)
  BY DEF MoMessages, HasState
<1> HIDE DEF w
<1>2. /\ w \in Seq(MoMessages) /\ Len(w) = Len(q)
      /\ \A i \in 1..Len(q) :
           w[i] = IF i = Named(q, name) THEN [q[i] EXCEPT !.state = state] ELSE q[i]
  BY <1>1, WithStateIs DEF w
<1>3. ASSUME NEW i \in 1..Len(q) PROVE Later(w[i], q[i])
  <2>1. q[i] \in MoMessages
    OBVIOUS
  <2>2. w[i] = IF i = Named(q, name) THEN [q[i] EXCEPT !.state = state] ELSE q[i]
    BY <1>2
  <2>3. QED
    BY <2>1, <2>2 DEF Later, MoMessages
<1>4. DerivedBy(f, w, q)
  BY <1>2, <1>3 DEF DerivedBy
<1>5. QED
  BY <1>2, <1>4 DEF Derived, w

LEMMA DerivedWithout ==
  ASSUME NEW q \in Seq(MoMessages), NEW name, InQueue(q, name)
  PROVE  Without(q, name) \in Seq(MoMessages) /\ Derived(Without(q, name), q)
<1> DEFINE w == Without(q, name)
           n == Named(q, name)
           f == [j \in 1..(Len(q) - 1) |-> IF j < n THEN j ELSE j + 1]
<1>1. /\ n \in 1..Len(q) /\ Len(q) \in Nat
      /\ w \in Seq(MoMessages) /\ Len(w) = Len(q) - 1
      /\ \A i \in 1..(Len(q) - 1) : w[i] = IF i < n THEN q[i] ELSE q[i + 1]
  BY WithoutIs
<1> HIDE DEF w, n
<1>2. \A j \in 1..(Len(q) - 1) : f[j] \in 1..Len(q) /\ w[j] = q[f[j]]
  BY <1>1
<1>3. \A j, k \in 1..(Len(q) - 1) : f[j] = f[k] => j = k
  BY <1>1
<1> HIDE DEF f
<1>4. DerivedBy(f, w, q)
  BY <1>1, <1>2, <1>3 DEF DerivedBy, Later
<1>5. QED
  BY <1>1, <1>4 DEF Derived, w

(* A message is added.                                                     *)
Added(m) ==
    /\ m \in MoMessages /\ m.by = activity.mo /\ m.state = TX_READY /\ ~InQueue(mo, m.name)
    /\ mo' = Append(mo, m) /\ activity.mo > 0 /\ activity'.mo = activity.mo - 1

-------------------------------------------------------------------------------
(***************************************************************************)
(* The steps, as far as the transmit queue and the events are concerned.   *)
(***************************************************************************)
Outcomes == {"cleared", "written"}

(* Time passes, messages arrive or are retrieved, the application locates  *)
(* the modem or looks at the queues.                                       *)
Elsewhere ==
    /\ UNCHANGED <<api, mo, s88, busy>>
    /\ mt' \in Seq(MtMessages) /\ clock' \in 0..MaxClock
    /\ activity' \in [{"mo", "mt", "s88"} -> Nat] /\ activity'.mo = activity.mo
    /\ ret'.kind \notin Outcomes

(* A message is submitted by the application or another client.            *)
Sender(c, given, body) == c \in Clients /\ given \in Given \cup {Unnamed} /\ body \in MoBodies

Sends ==
    \E c, given, body, result :
        /\ Sender(c, given, body)
        /\ MoSend(c, given, body, result) /\ result.kind \notin Outcomes
        /\ body.kind = "other" \/ (Report /\ body.kind = "report" /\ given = Unnamed)

LEMMA Retrieved ==
  ASSUME mt \in Seq(MtMessages), NEW name, InQueue(mt, name)
  PROVE  WithState(mt, name, RX_RETRIEVED) \in Seq(MtMessages)
<1>1. HasState(MtMessages, RX_RETRIEVED)
  BY DEF HasState, MtMessages, RxStates
<1>2. QED
  BY <1>1, WithStateIs

LEMMA Arrives ==
  ASSUME Queues, NEW body \in MtBodies, Arrive(body)
  PROVE  Elsewhere
<1>1. activity \in [{"mo", "mt", "s88"} -> Nat] /\ activity.mt > 0
      /\ activity' = [activity EXCEPT !["mt"] = @ - 1]
  BY DEF Queues, Arrive, Spend, Left
<1>2. activity' \in [{"mo", "mt", "s88"} -> Nat] /\ activity'.mo = activity.mo
  BY <1>1
<1> DEFINE m == [name |-> <<"FM", activity.mt>>, state |-> RX_COMPLETE, body |-> body]
<1>3. m \in MtMessages
  BY <1>1 DEF MtMessages, RxStates
<1>4. mt' = Append(mt, m)
  BY DEF Arrive
<1> HIDE DEF m
<1>5. mt' \in Seq(MtMessages)
  BY <1>3, <1>4 DEF Queues
<1>6. ret' = Idle /\ UNCHANGED <<api, mo, s88, busy, clock>>
  BY DEF Arrive
<1>7. QED
  BY <1>2, <1>5, <1>6 DEF Elsewhere, Queues, Idle, Outcomes

LEMMA AppKinds ==
  ASSUME Queues, Steps
  PROVE  Elsewhere \/ Sends
<1> USE DEF Queues
<1>1. CASE Locate
  <2>1. PICK fix \in Fixes :
          ret' = [kind |-> "located", fix |-> fix, loc |-> location_from_nmea(fix)]
    BY <1>1 DEF Locate
  <2>2. UNCHANGED <<api, mo, mt, s88, busy, clock, activity>>
    BY <1>1 DEF Locate, queues, bounds
  <2>3. QED
    BY <2>1, <2>2 DEF Elsewhere, Outcomes
<1>2. CASE GnssTimeout
  BY <1>2 DEF GnssTimeout, queues, bounds, Elsewhere, Outcomes, Idle
<1>3. CASE Report
  <2>1. PICK snr \in Signals :
          LET loc  == app.loc[1]
              bits == Encode(ReportFields, ReportOf(loc, snr), {}, FALSE)[1]
          IN  MoSend(App, Unnamed, [kind |-> "report"],
                     [kind |-> "report", name |-> Name(Unnamed), loc |-> loc, snr |-> snr,
                      fix |-> app.fix, bits |-> bits])
    BY <1>3 DEF Report
  <2> DEFINE loc    == app.loc[1]
             result == [kind |-> "report", name |-> Name(Unnamed), loc |-> loc, snr |-> snr,
                        fix |-> app.fix,
                        bits |-> Encode(ReportFields, ReportOf(loc, snr), {}, FALSE)[1]]
             body   == [kind |-> "report"]
  <2>2. MoSend(App, Unnamed, body, result)
    BY <2>1, Zenon
  <2>3. result.kind \notin Outcomes /\ body \in MoBodies /\ body.kind = "report"
    BY DEF Outcomes, MoBodies
  <2>4. Unnamed \in Given \cup {Unnamed}
    OBVIOUS
  <2> HIDE DEF result, body
  <2>5. QED
    BY <1>3, <2>2, <2>3, <2>4, AppAssumption, Zenon DEF Sends, Sender
<1>4. CASE PollMo \/ PollMt
  BY <1>4 DEF PollMo, PollMt, Poll, queues, Elsewhere, Outcomes, Idle
<1>5. CASE Command
  <2> DEFINE name == Head(app.todo)
  <2>1. mt' = mt \/ (InQueue(mt, name) /\ mt' = WithState(mt, name, RX_RETRIEVED))
    BY <1>5 DEF Command
  <2>2. mt' \in Seq(MtMessages)
    BY <2>1, Retrieved
  <2>3. ret' = Idle /\ UNCHANGED <<api, mo, s88, busy, clock, activity>>
    BY <1>5 DEF Command
  <2>4. QED
    BY <2>2, <2>3 DEF Elsewhere, Outcomes, Idle
<1>6. QED
  BY <1>1, <1>2, <1>3, <1>4, <1>5 DEF Steps

LEMMA StepKinds ==
  ASSUME Queues, [Next]_vars
  PROVE  \/ UNCHANGED mailbox
         \/ Elsewhere
         \/ Sends
         \/ \E c \in Clients : Operation(c)
         \/ Transmit
         \/ Forget
<1>1. CASE UNCHANGED vars
  BY <1>1 DEF vars
<1>2. CASE Steps
  BY <1>2, AppKinds
<1>3. CASE Environment
  <2>1. ASSUME Tick PROVE Elsewhere
    <3>1. clock' \in 0..MaxClock
      BY <2>1, QueuesAssumption DEF Tick, Queues
    <3>2. QED
      BY <2>1, <3>1 DEF Tick, queues, Elsewhere, Queues, Outcomes, Idle
  <2>2. QED
    BY <1>3, <2>1 DEF Environment
<1>4. ASSUME NEW c \in Clients,
             \/ Operation(c)
             \/ \E g \in Given : MoSend(c, g, [kind |-> "other"], [kind |-> "name"])
      PROVE  Sends \/ Operation(c)
  <2> DEFINE body == [kind |-> "other"]
             result == [kind |-> "name"]
  <2>1. result.kind \notin Outcomes /\ body \in MoBodies /\ body.kind = "other"
    BY DEF Outcomes, MoBodies
  <2>2. Operation(c) \/ \E g \in Given : MoSend(c, g, body, result)
    BY <1>4
  <2> HIDE DEF body, result
  <2>3. QED
    BY <2>1, <2>2, Zenon DEF Sends, Sender
<1>5. CASE ArriveEncoded
  <2>1. PICK p \in DOMAIN Payloads : Arrive([kind |-> "encoded", p |-> p])
    BY <1>5 DEF ArriveEncoded
  <2> DEFINE body == [kind |-> "encoded", p |-> p]
  <2>2. body \in MtBodies
    BY DEF MtBodies
  <2>3. Arrive(body)
    BY <2>1
  <2> HIDE DEF body
  <2>4. QED
    BY <2>2, <2>3, Arrives
<1>6. CASE ArriveCommand
  <2>1. PICK kind \in {"interval", "other"} : Arrive([kind |-> kind])
    BY <1>6 DEF ArriveCommand
  <2> DEFINE body == [kind |-> kind]
  <2>2. body \in MtBodies
    BY DEF MtBodies
  <2>3. Arrive(body)
    BY <2>1
  <2> HIDE DEF body
  <2>4. QED
    BY <2>2, <2>3, Arrives
<1>7. ASSUME NEW i \in DOMAIN mt, MtGet(mt[i].name) PROVE Elsewhere
  <2> DEFINE name == mt[i].name
  <2>1. InQueue(mt, name)
    BY DEF InQueue
  <2>2. /\ mt' = WithState(mt, name, RX_RETRIEVED)
        /\ UNCHANGED <<api, mo, s88, busy, clock, activity>>
    BY <1>7, Zenon DEF MtGet
  <2>3. \/ \E read, after : ret' = [kind |-> "got", p |-> mt[Named(mt, name)].body.p,
                                 before |-> inbox[Payloads[mt[Named(mt, name)].body.p].schema],
                                 ok |-> after.ok,
                                 garbled |-> read # Line[mt[Named(mt, name)].body.p]]
        \/ \E garbled : ret' = [kind |-> "crc", garbled |-> garbled]
    BY <1>7, Zenon DEF MtGet
  <2>4. ret'.kind \in {"got", "crc"}
    <3>1. ASSUME NEW p, NEW before, NEW ok, NEW garbled,
                 ret' = [kind |-> "got", p |-> p, before |-> before, ok |-> ok, garbled |-> garbled]
          PROVE  ret'.kind = "got"
      BY <3>1
    <3>2. ASSUME NEW garbled, ret' = [kind |-> "crc", garbled |-> garbled]
          PROVE  ret'.kind = "crc"
      BY <3>2
    <3>3. ret'.kind = "got" \/ ret'.kind = "crc"
      <4>1. CASE \E p, before, ok, garbled :
              ret' = [kind |-> "got", p |-> p, before |-> before, ok |-> ok, garbled |-> garbled]
        BY <3>1, <4>1, Zenon
      <4>2. CASE \E garbled : ret' = [kind |-> "crc", garbled |-> garbled]
        BY <3>2, <4>2, Zenon
      <4>3. QED
        BY <2>3, <4>1, <4>2, Zenon
    <3>4. QED
      BY <3>3
  <2>5. mt' \in Seq(MtMessages)
    BY <2>1, <2>2, Retrieved DEF Queues
  <2>6. QED
    BY <2>2, <2>4, <2>5 DEF Elsewhere, Queues, Outcomes
<1>8. QED
  BY <1>1, <1>2, <1>3, <1>4, <1>5, <1>6, <1>7 DEF Next

-------------------------------------------------------------------------------
(***************************************************************************)
(* Each step keeps the types of the variables, and either derives the      *)
(* transmit queue from what it was, or adds one message.                   *)
(***************************************************************************)
MoKept ==
    mo' \in Seq(MoMessages) /\ Derived(mo', mo) /\ activity'.mo <= activity.mo

Typed == Queues' /\ MoKept

LEMMA Spent ==
  ASSUME Queues, NEW queue \in {"mo", "s88"}, Spend(queue)
  PROVE  /\ activity' \in [{"mo", "mt", "s88"} -> Nat]
         /\ queue = "mo" => activity.mo > 0 /\ activity'.mo = activity.mo - 1
         /\ queue = "s88" => activity'.mo = activity.mo
<1>1. activity \in [{"mo", "mt", "s88"} -> Nat] /\ activity[queue] > 0
      /\ activity' = [activity EXCEPT ![queue] = @ - 1]
  BY DEF Queues, Spend, Left
<1>2. QED
  BY <1>1

(* It is enough to look at what an operation does to the queues and to its *)
(* own client.                                                             *)
LEMMA TypedStep ==
  ASSUME Queues, NEW c \in Clients, NEW op \in Operations,
         busy' = [busy EXCEPT ![c] = op],
         UNCHANGED <<api, clock>>,
         s88' \in SUBSET Events, mt' \in Seq(MtMessages),
         activity' \in [{"mo", "mt", "s88"} -> Nat],
         MoKept
  PROVE  Typed
<1>1. mo' \in Seq(MoMessages)
  BY DEF MoKept
<1>2. busy' \in [Clients -> Operations]
  BY DEF Queues
<1>3. QED
  BY <1>1, <1>2 DEF Typed, Queues

LEMMA NameOf == Queues => \A given \in Given \cup {Unnamed} : Name(given) \in Names
  BY DEF Queues, Name, Names

LEMMA SameMo ==
  ASSUME Queues, mo' = mo, activity'.mo <= activity.mo PROVE MoKept
<1>1. Derived(mo', mo)
  BY DerivedSame
<1>2. QED
  BY <1>1 DEF MoKept, Queues

LEMMA SendTyped ==
  ASSUME Queues, NEW c \in Clients, NEW given \in Given \cup {Unnamed}, NEW body \in MoBodies,
         NEW result, MoSend(c, given, body, result)
  PROVE  Queues' /\ (MoKept \/ \E m : Added(m) /\ m.body = body /\ m.name = Name(given))
<1>1. Spend("mo") /\ busy' = [busy EXCEPT ![c] = Idle] /\ UNCHANGED <<api, mt, s88, clock>>
  BY DEF MoSend, Begins, Returns, Throws
<1>2. /\ activity' \in [{"mo", "mt", "s88"} -> Nat]
      /\ activity.mo > 0 /\ activity'.mo = activity.mo - 1 /\ activity.mo \in Nat
  BY <1>1, Spent DEF Queues
<1>3. mo' = mo \/ (~InQueue(mo, Name(given)) /\ Submit(c, given, body))
  BY DEF MoSend
<1>4. Idle \in Operations
  BY DEF Operations
<1>5. CASE mo' = mo
  <2>1. MoKept
    BY <1>2, <1>5, SameMo
  <2>2. Queues'
    BY <1>1, <1>2, <1>4, <2>1, TypedStep DEF Queues, Typed
  <2>3. QED
    BY <2>1, <2>2
<1>6. CASE ~InQueue(mo, Name(given)) /\ Submit(c, given, body)
  <2> DEFINE m == [name |-> Name(given), by |-> activity.mo, state |-> TX_READY, body |-> body]
  <2>1. m \in MoMessages
    BY <1>2, NameOf DEF MoMessages, TxStates, TX_READY, TX_CANCELLED
  <2>2. m.by = activity.mo /\ m.state = TX_READY /\ m.name = Name(given) /\ m.body = body
        /\ mo' = Append(mo, m)
    BY <1>6 DEF Submit
  <2> HIDE DEF m
  <2>3. Added(m)
    BY <1>2, <1>6, <2>1, <2>2 DEF Added
  <2>4. mo' \in Seq(MoMessages)
    BY <2>1, <2>2 DEF Queues
  <2>5. busy' \in [Clients -> Operations]
    BY <1>1, <1>4 DEF Queues
  <2>6. Queues'
    BY <1>1, <1>2, <2>4, <2>5 DEF Queues
  <2>7. QED
    BY <2>2, <2>3, <2>6
<1>7. QED
  BY <1>3, <1>5, <1>6

(* A message that is ready is cancelled.                                   *)
LEMMA CancelDerives ==
  ASSUME Queues, NEW name, InQueue(mo, name), mo[Named(mo, name)].state = TX_READY,
         mo' = WithState(mo, name, TX_CANCELLED), activity'.mo <= activity.mo
  PROVE  MoKept
<1>1. TX_CANCELLED \in TxStates /\ TX_CANCELLED # TX_READY /\ ~Open(TX_CANCELLED)
  BY DEF TX_CANCELLED, TX_READY, TX_COMPLETE, TxStates, Open
<1>2. mo' \in Seq(MoMessages) /\ Derived(mo', mo)
  BY <1>1, DerivedWithState DEF Queues
<1>3. QED
  BY <1>2 DEF MoKept

LEMMA CancelTyped ==
  ASSUME Queues, NEW c \in Clients, NEW name, MoCancel(c, name) PROVE Typed
<1>1. /\ Spend("mo") /\ busy' = [busy EXCEPT ![c] = Idle] /\ UNCHANGED <<api, mt, s88, clock>>
      /\ \/ mo' = mo
         \/ /\ InQueue(mo, name) /\ mo[Named(mo, name)].state = TX_READY
            /\ mo' = WithState(mo, name, TX_CANCELLED)
  BY DEF MoCancel, Begins, Returns, Throws
<1>2. activity' \in [{"mo", "mt", "s88"} -> Nat] /\ activity'.mo <= activity.mo
  BY <1>1, Spent DEF Queues
<1>3. MoKept
  BY <1>1, <1>2, SameMo, CancelDerives
<1>4. Idle \in Operations
  BY DEF Operations
<1>5. QED
  BY <1>1, <1>2, <1>3, <1>4, TypedStep DEF Queues

(* What message_mo_clear() reads, and what is left of it.                  *)
LEMMA ListTyped ==
  ASSUME Queues
  PROVE  /\ MoStates \in Seq(Listed)
         /\ \A found : found = {mo[i].by : i \in DOMAIN mo} => found \in SUBSET Nat
<1>1. \A i \in 1..Len(mo) : mo[i] \in MoMessages
  BY DEF Queues
<1>2. Len(mo) \in Nat /\ DOMAIN mo = 1..Len(mo)
  BY DEF Queues
<1>3. \A i \in DOMAIN mo : [name |-> mo[i].name, state |-> mo[i].state] \in Listed /\ mo[i].by \in Nat
  BY <1>1, <1>2 DEF Listed, MoMessages
<1>4. MoStates \in Seq(Listed)
  <2>1. MoStates \in [1..Len(mo) -> Listed]
    BY <1>2, <1>3 DEF MoStates
  <2>2. QED
    BY <1>2, <2>1
<1>5. QED
  BY <1>3, <1>4

LEMMA ClearTyped ==
  ASSUME Queues, NEW c \in Clients, MoClear(c) PROVE Typed
<1> DEFINE found == {mo[i].by : i \in DOMAIN mo}
           op    == Clearing(MoStates, 0, found, {})
<1>1. /\ Spend("mo") /\ UNCHANGED <<api, mo, mt, s88, clock>>
      /\ busy' = [busy EXCEPT ![c] = Idle] \/ busy' = [busy EXCEPT ![c] = op]
  BY DEF MoClear, Begins, Goes, Returns, Throws, queues
<1>2. activity' \in [{"mo", "mt", "s88"} -> Nat] /\ activity'.mo <= activity.mo
  BY <1>1, Spent DEF Queues
<1>3. op \in Operations /\ Idle \in Operations
  BY ListTyped DEF Operations, Clearings, Clearing
<1> HIDE DEF op
<1>4. MoKept
  BY <1>1, <1>2, SameMo
<1>5. QED
  BY <1>1, <1>2, <1>3, <1>4, TypedStep DEF Queues

LEMMA ClearNextTyped ==
  ASSUME Queues, NEW c \in Clients, MoClearNext(c) PROVE Typed
<1> DEFINE op == busy[c]
<1>1. op \in Clearings
  BY DEF Queues, Operations, MoClearNext, Continues, Idle, Deletions, Controls
<1>2. PICK i \in NextOpen(op.todo) :
        LET name  == op.todo[i].name
            rest  == SubSeq(op.todo, i + 1, Len(op.todo))
            ready == InQueue(mo, name) /\ mo[Named(mo, name)].state = TX_READY
            found == IF ready THEN {mo[Named(mo, name)].by} ELSE {}
        IN  \/ /\ NoFault
               /\ mo' = IF ready THEN WithState(mo, name, TX_CANCELLED) ELSE mo
               /\ Goes(c, Clearing(rest, Count(op, ready), op.found, op.mine \cup found))
            \/ /\ Fault /\ Throws(c)
               /\ UNCHANGED mo \/ (ready /\ mo' = WithState(mo, name, TX_CANCELLED))
  BY Zenon DEF MoClearNext
<1> DEFINE name  == op.todo[i].name
           rest  == SubSeq(op.todo, i + 1, Len(op.todo))
           ready == InQueue(mo, name) /\ mo[Named(mo, name)].state = TX_READY
           found == IF ready THEN {mo[Named(mo, name)].by} ELSE {}
           next  == Clearing(rest, Count(op, ready), op.found, op.mine \cup found)
<1>3. i \in 1..Len(op.todo) /\ op.todo \in Seq(Listed)
  BY <1>1 DEF NextOpen, Clearings
<1>4. rest \in Seq(Listed)
  BY <1>3
<1>5. found \in SUBSET Nat
  <2>1. ready => mo[Named(mo, name)] \in MoMessages
    BY NamedIs DEF Queues
  <2>2. QED
    BY <2>1 DEF MoMessages
<1>6. Count(op, ready) \in Nat
  <2>1. op.count \in Nat
    BY <1>1, SMTT(40) DEF Clearings
  <2> HIDE DEF ready
  <2>2. QED
    BY <2>1 DEF Count
<1>7. /\ mo' = mo \/ (ready /\ mo' = WithState(mo, name, TX_CANCELLED))
      /\ busy' = [busy EXCEPT ![c] = Idle] \/ busy' = [busy EXCEPT ![c] = next]
  BY <1>2 DEF Goes, Returns, Throws
<1>8. next \in Operations /\ Idle \in Operations
  <2> HIDE DEF rest, found, ready
  <2>1. QED
    BY <1>1, <1>4, <1>5, <1>6 DEF Operations, Clearings, Clearing
<1> HIDE DEF next
<1>9. UNCHANGED <<api, mt, s88, clock, activity>>
  BY DEF MoClearNext, Continues
<1>10. MoKept
  <2>1. activity'.mo <= activity.mo
    BY <1>9 DEF Queues
  <2>2. QED
    BY <1>7, <2>1, SameMo, CancelDerives
<1>11. QED
  BY <1>7, <1>8, <1>9, <1>10, TypedStep DEF Queues

LEMMA ClearEndsTyped ==
  ASSUME Queues, NEW c \in Clients, MoClearEnds(c) PROVE Typed
<1>1. busy' = [busy EXCEPT ![c] = Idle] /\ UNCHANGED <<api, mo, mt, s88, clock, activity>>
  BY DEF MoClearEnds, Returns, Continues, queues
<1>2. MoKept
  BY <1>1, SameMo DEF Queues
<1>3. Idle \in Operations
  BY DEF Operations
<1>4. QED
  BY <1>1, <1>2, <1>3, TypedStep DEF Queues

LEMMA DeleteTyped ==
  ASSUME Queues, NEW c \in Clients, MoDelete(c) PROVE Typed
<1> DEFINE op == [kind |-> "delete", todo |-> [i \in DOMAIN mo |-> MoStates[i].name]]
<1>1. /\ Spend("mo") /\ UNCHANGED <<api, mo, mt, s88, clock>>
      /\ busy' = [busy EXCEPT ![c] = Idle] \/ busy' = [busy EXCEPT ![c] = op]
  BY DEF MoDelete, Begins, Goes, Returns, Throws, queues
<1>2. activity' \in [{"mo", "mt", "s88"} -> Nat] /\ activity'.mo <= activity.mo
  BY <1>1, Spent DEF Queues
<1>3. [i \in DOMAIN mo |-> MoStates[i].name] \in Seq(Names)
  <2>1. MoStates \in Seq(Listed) /\ DOMAIN mo = 1..Len(mo) /\ Len(mo) \in Nat
    BY ListTyped DEF Queues
  <2>2. DOMAIN MoStates = DOMAIN mo
    BY DEF MoStates
  <2>3. \A i \in 1..Len(mo) : MoStates[i] \in Listed
    BY <2>1, <2>2
  <2>4. [i \in 1..Len(mo) |-> MoStates[i].name] \in Seq(Names)
    BY <2>1, <2>3 DEF Listed
  <2>5. QED
    BY <2>1, <2>4
<1>4. op \in Operations /\ Idle \in Operations
  BY <1>3 DEF Operations, Deletions
<1> HIDE DEF op
<1>5. MoKept
  BY <1>1, <1>2, SameMo
<1>6. QED
  BY <1>1, <1>2, <1>4, <1>5, TypedStep DEF Queues

(* A message is taken out of the queue.                                    *)
LEMMA WithoutDerives ==
  ASSUME Queues, NEW name, mo' = Without(mo, name), activity'.mo <= activity.mo
  PROVE  MoKept
<1>1. CASE InQueue(mo, name)
  BY <1>1, DerivedWithout DEF MoKept, Queues
<1>2. CASE ~InQueue(mo, name)
  BY <1>2, SameMo DEF Without
<1>3. QED
  BY <1>1, <1>2

LEMMA DeleteNextTyped ==
  ASSUME Queues, NEW c \in Clients, MoDeleteNext(c) PROVE Typed
<1> DEFINE op   == busy[c]
           next == [op EXCEPT !.todo = Tail(@)]
<1>1. op \in Deletions
  BY DEF Queues, Operations, MoDeleteNext, Continues, Idle, Clearings, Controls
<1>2. /\ UNCHANGED <<api, mt, s88, clock, activity>>
      /\ mo' = mo \/ mo' = Without(mo, Head(op.todo))
      /\ \/ op.todo # <<>> /\ busy' = [busy EXCEPT ![c] = next]
         \/ busy' = [busy EXCEPT ![c] = Idle]
  BY DEF MoDeleteNext, Continues, Goes, Returns, Throws
<1>3. op.todo # <<>> => next \in Operations
  BY <1>1 DEF Operations, Deletions
<1>4. Idle \in Operations
  BY DEF Operations
<1> HIDE DEF next
<1>5. MoKept
  BY <1>2, SameMo, WithoutDerives DEF Queues
<1>6. QED
  BY <1>2, <1>3, <1>4, <1>5, TypedStep DEF Queues

LEMMA MtDeleteTyped ==
  ASSUME Queues, NEW c \in Clients, NEW name, InQueue(mt, name), MtDelete(c, name) PROVE Typed
<1>1. /\ UNCHANGED <<api, mo, s88, clock, activity>>
      /\ mt' = mt \/ mt' = Without(mt, name)
      /\ busy' = [busy EXCEPT ![c] = Idle]
  BY DEF MtDelete, Returns, Throws
<1>2. mt' \in Seq(MtMessages)
  BY <1>1, WithoutIs DEF Queues
<1>3. Idle \in Operations
  BY DEF Operations
<1>4. MoKept
  BY <1>1, SameMo DEF Queues
<1>5. QED
  BY <1>1, <1>2, <1>3, <1>4, TypedStep DEF Queues

LEMMA MonitorTyped ==
  ASSUME Queues, NEW c \in Clients, NEW events \in SUBSET Events, MonitorSet(c, events) PROVE Typed
<1>1. /\ UNCHANGED <<api, mo, mt, clock>> /\ Spend("s88")
      /\ s88' \in {s88, events}
      /\ busy' = [busy EXCEPT ![c] = Idle]
  BY DEF MonitorSet, Begins, Returns, Throws
<1>2. activity' \in [{"mo", "mt", "s88"} -> Nat] /\ activity'.mo <= activity.mo
  BY <1>1, Spent DEF Queues
<1>3. Idle \in Operations
  BY DEF Operations
<1>4. MoKept
  BY <1>1, <1>2, SameMo
<1>5. s88' \in SUBSET Events
  BY <1>1 DEF Queues
<1>6. QED
  BY <1>1, <1>2, <1>3, <1>4, <1>5, TypedStep DEF Queues

LEMMA TransmitTyped ==
  ASSUME Queues, Transmit PROVE Typed
<1>1. PICK i \in DOMAIN mo, move \in Moves :
        mo[i].state = move[1] /\ mo' = [mo EXCEPT ![i].state = move[2]]
  BY DEF Transmit
<1>2. /\ i \in 1..Len(mo) /\ mo[i] \in MoMessages
      /\ move[1] \in {TX_READY, TX_SENDING} /\ move[2] \in {TX_SENDING, TX_COMPLETE, TX_FAILED}
  BY DEF Moves, Queues
<1> DEFINE m == [mo[i] EXCEPT !.state = move[2]]
           f == [j \in 1..Len(mo) |-> j]
<1>3. /\ m \in MoMessages /\ Later(m, mo[i])
  BY <1>1, <1>2 DEF MoMessages, TxStates, Later, Open,
                   TX_READY, TX_SENDING, TX_COMPLETE, TX_FAILED, TX_CANCELLED
<1>4. mo' = [mo EXCEPT ![i] = m]
  BY <1>1
<1> HIDE DEF m
<1>5. mo' \in Seq(MoMessages) /\ Len(mo') = Len(mo)
  BY <1>2, <1>3, <1>4 DEF Queues
<1>6. DerivedBy(f, mo', mo)
  <2>1. ASSUME NEW j \in 1..Len(mo) PROVE Later(mo'[j], mo[j])
    <3>1. mo'[j] = IF j = i THEN m ELSE mo[j]
      BY <1>2, <1>4 DEF Queues
    <3>2. QED
      BY <1>3, <3>1 DEF Later
  <2>2. QED
    BY <1>5, <2>1 DEF DerivedBy
<1>7. UNCHANGED <<api, mt, s88, busy, clock, activity>>
  BY DEF Transmit, bounds
<1>8. MoKept
  BY <1>5, <1>6, <1>7 DEF MoKept, Derived, Queues
<1>9. QED
  BY <1>5, <1>7, <1>8 DEF Typed, Queues

LEMMA ForgetTyped ==
  ASSUME Queues, Forget PROVE Typed
<1>1. PICK i \in DOMAIN mo : mo' = Without(mo, mo[i].name)
  BY DEF Forget
<1>2. UNCHANGED <<api, mt, s88, busy, clock, activity>>
  BY DEF Forget, bounds
<1>3. InQueue(mo, mo[i].name)
  BY DEF InQueue
<1>4. mo' \in Seq(MoMessages)
  BY <1>1, <1>3, DerivedWithout DEF Queues
<1>5. MoKept
  BY <1>1, <1>2, WithoutDerives DEF Queues
<1>6. QED
  BY <1>2, <1>4, <1>5 DEF Typed, Queues

-------------------------------------------------------------------------------
(***************************************************************************)
(* The loop of notification_control_set() over its map, by induction over  *)
(* the entries it has gone through.                                        *)
(***************************************************************************)

(* mask has the bits after each number of entries.                         *)
Gathers(mask, old, map) ==
    mask = [n \in 0..Len(map) |-> IF n = 0 THEN {} ELSE Entry(old, mask[n - 1], map[n])]

(* The same, up to the n-th entry.                                         *)
GathersTo(mask, old, map, n) ==
    /\ mask \in [0..n -> SUBSET Events]
    /\ mask[0] = {}
    /\ \A i \in 1..n : mask[i] = Entry(old, mask[i - 1], map[i])

LEMMA EntryEvents == \A old, mask, entry : Entry(old, mask, entry) \in SUBSET Events
  BY DEF Entry

LEMMA GathersExists ==
  ASSUME NEW old, NEW map, Len(map) \in Nat
  PROVE  \E mask : Gathers(mask, old, map)
<1> DEFINE S == {n \in Nat : \E mask : GathersTo(mask, old, map, n)}
<1>1. 0 \in S
  <2>1. GathersTo([i \in 0..0 |-> {}], old, map, 0)
    BY DEF GathersTo
  <2>2. QED
    BY <2>1
<1>2. ASSUME NEW n \in S PROVE n + 1 \in S
  <2>1. n \in Nat /\ n + 1 \in Nat
    OBVIOUS
  <2>2. PICK mask : GathersTo(mask, old, map, n)
    OBVIOUS
  <2> DEFINE last == Entry(old, mask[n], map[n + 1])
             more == [i \in 0..(n + 1) |-> IF i = n + 1 THEN last ELSE mask[i]]
  <2>3. last \in SUBSET Events
    BY EntryEvents
  <2>4. more \in [0..(n + 1) -> SUBSET Events] /\ more[0] = {}
    <3> HIDE DEF last
    <3>1. QED
      BY <2>1, <2>2, <2>3 DEF GathersTo
  <2>5. ASSUME NEW i \in 1..(n + 1) PROVE more[i] = Entry(old, more[i - 1], map[i])
    <3>1. CASE i = n + 1
      <4>1. more[i] = last /\ more[i - 1] = mask[n]
        <5> HIDE DEF last
        <5>1. QED
          BY <2>1, <3>1
      <4>2. QED
        BY <3>1, <4>1, Zenon
    <3>2. CASE i # n + 1
      <4>1. i \in 1..n /\ i - 1 \in 0..n /\ i - 1 # n + 1
        BY <2>1, <3>2
      <4>2. more[i] = mask[i] /\ more[i - 1] = mask[i - 1]
        <5> HIDE DEF last
        <5>1. QED
          BY <2>1, <3>2, <4>1
      <4>3. mask[i] = Entry(old, mask[i - 1], map[i])
        BY <2>2, <4>1 DEF GathersTo
      <4>4. QED
        BY <4>2, <4>3, Zenon
    <3>3. QED
      BY <3>1, <3>2
  <2> HIDE DEF more
  <2>6. GathersTo(more, old, map, n + 1)
    BY <2>4, <2>5, Zenon DEF GathersTo
  <2>7. QED
    BY <2>1, <2>6
<1>3. S = Nat
  <2> HIDE DEF S
  <2>1. S \subseteq Nat
    BY DEF S
  <2>2. QED
    BY <1>1, <1>2, <2>1, SetInduction
<1>4. PICK mask : GathersTo(mask, old, map, Len(map))
  BY <1>3
<1>5. Gathers(mask, old, map)
  <2>1. mask = [n \in 0..Len(map) |-> mask[n]]
    BY <1>4 DEF GathersTo
  <2>2. ASSUME NEW n \in 0..Len(map)
        PROVE  mask[n] = IF n = 0 THEN {} ELSE Entry(old, mask[n - 1], map[n])
    <3>1. n # 0 => n \in 1..Len(map)
      OBVIOUS
    <3>2. QED
      BY <1>4, <3>1 DEF GathersTo
  <2>3. QED
    BY <2>1, <2>2, Zenon DEF Gathers
<1>6. QED
  BY <1>5

LEMMA BitmaskIs ==
  ASSUME NEW old, NEW map, Len(map) \in Nat
  PROVE  \E mask : /\ GathersTo(mask, old, map, Len(map))
                   /\ Bitmask(old, map) = mask[Len(map)]
<1>1. \E mask : Gathers(mask, old, map)
  BY GathersExists
<1>2. PICK mask : Gathers(mask, old, map) /\ Bitmask(old, map) = mask[Len(map)]
  BY <1>1, Zenon DEF Gathers, Bitmask
<1>3. \A n \in 0..Len(map) : mask[n] = IF n = 0 THEN {} ELSE Entry(old, mask[n - 1], map[n])
  BY <1>2, Zenon DEF Gathers
<1>4. mask = [n \in 0..Len(map) |-> mask[n]]
  BY <1>2, <1>3, Zenon DEF Gathers
<1>5. \A n \in 0..Len(map) : mask[n] \in SUBSET Events
  BY <1>3, EntryEvents
<1>6. mask \in [0..Len(map) -> SUBSET Events]
  BY <1>4, <1>5
<1>7. QED
  BY <1>2, <1>3, <1>6 DEF GathersTo

(* The events a map names, those it turns on, and those among the first n. *)
NamedIn(map)    == {map[i][1] : i \in DOMAIN map}
TurnedOn(map)   == {map[i][1] : i \in {j \in DOMAIN map : map[j][2]}}
Firsts(map, n)  == {map[i][1] : i \in 1..n}
Distinct(map)   == \A i, j \in DOMAIN map : map[i][1] = map[j][1] => i = j

(* As many names as entries: no event is named twice.                      *)
LEMMA CountDistinct ==
  ASSUME NEW map \in Seq(Events \X BOOLEAN), Cardinality(NamedIn(map)) = Len(map)
  PROVE  Distinct(map)
<1> DEFINE f == [i \in 1..Len(map) |-> map[i][1]]
           T == NamedIn(map)
<1>1. Len(map) \in Nat /\ DOMAIN map = 1..Len(map)
  OBVIOUS
<1>2. f \in Surjection(1..Len(map), T)
  <2>1. f \in [1..Len(map) -> T]
    BY <1>1, ZenonT(40) DEF NamedIn
  <2>2. \A t \in T : \E i \in 1..Len(map) : f[i] = t
    BY <1>1 DEF NamedIn
  <2>3. QED
    BY <2>1, <2>2, ZenonT(40) DEF Surjection
<1> HIDE DEF f, T
<1>3. IsFiniteSet(1..Len(map)) /\ Cardinality(1..Len(map)) = Len(map)
  <2>1. ASSUME NEW n \in Nat PROVE IsFiniteSet(1..n) /\ Cardinality(1..n) = n
    <3>1. 1 \in Int /\ n \in Int
      OBVIOUS
    <3>2. /\ IsFiniteSet(1..n)
          /\ Cardinality(1..n) = IF 1 > n THEN 0 ELSE n - 1 + 1
      BY <3>1, FS_Interval, Zenon
    <3>3. QED
      BY <3>2
  <2>2. QED
    BY <1>1, <2>1
<1>4. f \in Injection(1..Len(map), T)
  BY <1>2, <1>3, FS_Surjection DEF T
<1>5. \A i, j \in 1..Len(map) : f[i] = f[j] => i = j
  BY <1>4 DEF Injection, IsInjective
<1>6. QED
  BY <1>1, <1>5 DEF Distinct, f

(* Entries that turn events on gather them.                                *)
LEMMA EntryOn ==
  ASSUME NEW old \in SUBSET Events, NEW mask \in SUBSET Events, NEW entry \in Events \X BOOLEAN,
         entry[2]
  PROVE  Entry(old, mask, entry) = old \cup mask \cup {entry[1]}
<1>1. entry[2] = TRUE /\ entry[1] \in Events
  OBVIOUS
<1>2. ASSUME NEW e \in Events PROVE e \in Entry(old, mask, entry) <=> e \in old \cup mask \cup {entry[1]}
  <2>1. CASE e = entry[1] /\ e \notin old
    BY <1>1, <2>1 DEF Entry
  <2>2. CASE ~ (e = entry[1] /\ e \notin old)
    BY <1>1, <2>2 DEF Entry
  <2>3. QED
    BY <2>1, <2>2
<1>3. Entry(old, mask, entry) \in SUBSET Events
  BY EntryEvents
<1>4. QED
  BY <1>1, <1>2, <1>3

(* One that turns its event off takes it out, unless an earlier one has    *)
(* put it in.                                                              *)
LEMMA EntryOff ==
  ASSUME NEW old \in SUBSET Events, NEW mask \in SUBSET Events, NEW entry \in Events \X BOOLEAN,
         ~entry[2], entry[1] \notin mask \ old
  PROVE  Entry(old, mask, entry) = (old \cup mask) \ {entry[1]}
<1>1. entry[2] = FALSE /\ entry[1] \in Events
  OBVIOUS
<1>2. ASSUME NEW e \in Events PROVE e \in Entry(old, mask, entry) <=> e \in (old \cup mask) \ {entry[1]}
  <2>1. CASE e = entry[1] /\ e \in old
    BY <1>1, <2>1 DEF Entry
  <2>2. CASE ~ (e = entry[1] /\ e \in old)
    BY <1>1, <2>2 DEF Entry
  <2>3. QED
    BY <2>1, <2>2
<1>3. Entry(old, mask, entry) \in SUBSET Events
  BY EntryEvents
<1>4. QED
  BY <1>1, <1>2, <1>3

(* The loop does what the map says, if only its last entry turns an event  *)
(* off.                                                                    *)
LEMMA BitmaskExact ==
  ASSUME NEW old \in SUBSET Events, NEW map \in Seq(Events \X BOOLEAN), Len(map) # 0,
         Distinct(map), \A i \in 1..Len(map) - 1 : map[i][2]
  PROVE  Bitmask(old, map) = (old \ NamedIn(map)) \cup TurnedOn(map)
<1> DEFINE L == Len(map)
<1>1. L \in Nat /\ L - 1 \in Nat /\ DOMAIN map = 1..L /\ L \in 1..L
  OBVIOUS
<1>2. \A i \in 1..L : map[i] \in Events \X BOOLEAN
  OBVIOUS
<1>3. PICK mask : GathersTo(mask, old, map, L) /\ Bitmask(old, map) = mask[L]
  BY <1>1, BitmaskIs
<1> HIDE DEF L
<1>4. mask[0] = {} /\ \A i \in 0..L : mask[i] \in SUBSET Events
  BY <1>1, <1>3 DEF GathersTo
<1>5. \A i \in 1..L : mask[i] = Entry(old, mask[i - 1], map[i])
  BY <1>3 DEF GathersTo
<1> DEFINE S == {n \in Nat : n <= L - 1 => mask[n] = (IF n = 0 THEN {} ELSE old \cup Firsts(map, n))}
<1>6. 0 \in S
  BY <1>4
<1>7. ASSUME NEW n \in S PROVE n + 1 \in S
  <2>1. n \in Nat /\ n + 1 \in Nat
    OBVIOUS
  <2>2. ASSUME n + 1 <= L - 1 PROVE mask[n + 1] = old \cup Firsts(map, n + 1)
    <3>1. n + 1 \in 1..L /\ n + 1 \in 1..L - 1 /\ n \in 0..L /\ n <= L - 1 /\ n + 1 - 1 = n
      BY <1>1, <2>1, <2>2
    <3>2. mask[n + 1] = Entry(old, mask[n], map[n + 1])
      BY <1>5, <3>1
    <3>3. map[n + 1][2] /\ map[n + 1] \in Events \X BOOLEAN /\ mask[n] \in SUBSET Events
      BY <1>2, <1>4, <3>1 DEF L
    <3>4. mask[n + 1] = old \cup mask[n] \cup {map[n + 1][1]}
      BY <3>2, <3>3, EntryOn
    <3>5. mask[n] = IF n = 0 THEN {} ELSE old \cup Firsts(map, n)
      BY <3>1
    <3>6. Firsts(map, n + 1) = (IF n = 0 THEN {} ELSE Firsts(map, n)) \cup {map[n + 1][1]}
      BY <2>1 DEF Firsts
    <3>7. QED
      BY <3>4, <3>5, <3>6
  <2>3. n + 1 # 0
    BY <2>1
  <2>4. QED
    BY <2>1, <2>2, <2>3
<1>8. S = Nat
  <2> HIDE DEF S
  <2>1. S \subseteq Nat
    BY DEF S
  <2>2. QED
    BY <1>6, <1>7, <2>1, SetInduction
<1>9. mask[L - 1] \in SUBSET Events
      /\ mask[L - 1] = IF L - 1 = 0 THEN {} ELSE old \cup Firsts(map, L - 1)
  <2>1. L - 1 \in S
    BY <1>1, <1>8
  <2>2. L - 1 <= L - 1 /\ L - 1 \in 0..L
    BY <1>1
  <2>3. QED
    BY <1>4, <2>1, <2>2
<1>10. mask[L] = Entry(old, mask[L - 1], map[L]) /\ map[L] \in Events \X BOOLEAN
  BY <1>1, <1>2, <1>5
<1> DEFINE e == map[L][1]
           F == Firsts(map, L - 1)
<1>11. L - 1 = 0 => F = {}
  BY DEF Firsts
<1>12. NamedIn(map) = F \cup {e}
  BY <1>1 DEF NamedIn, Firsts
<1>13. e \notin F
  BY <1>1 DEF Firsts, Distinct
<1>14. TurnedOn(map) = IF map[L][2] THEN F \cup {e} ELSE F
  <2>1. \A i \in 1..(L - 1) : map[i][2]
    BY DEF L
  <2>2. \A i \in 1..L : i = L \/ i \in 1..(L - 1)
    BY <1>1
  <2>3. CASE map[L][2]
    <3>1. \A i \in DOMAIN map : map[i][2]
      BY <1>1, <2>1, <2>2, <2>3
    <3>2. TurnedOn(map) = NamedIn(map)
      BY <3>1 DEF TurnedOn, NamedIn
    <3>3. QED
      BY <1>12, <2>3, <3>2
  <2>4. CASE ~map[L][2]
    BY <1>1, <2>1, <2>2, <2>4 DEF TurnedOn, Firsts
  <2>5. QED
    BY <2>3, <2>4
<1>15. mask[L - 1] \cup old = old \cup F
  BY <1>9, <1>11
<1> HIDE DEF F
<1>16. CASE map[L][2]
  <2>1. mask[L] = old \cup mask[L - 1] \cup {e}
    BY <1>9, <1>10, <1>16, EntryOn
  <2>2. QED
    BY <1>3, <1>12, <1>14, <1>15, <1>16, <2>1
<1>17. CASE ~map[L][2]
  <2>1. e \notin mask[L - 1] \ old
    BY <1>13, <1>15
  <2>2. mask[L] = (old \cup mask[L - 1]) \ {e}
    BY <1>9, <1>10, <1>17, <2>1, EntryOff
  <2>3. QED
    BY <1>3, <1>12, <1>13, <1>14, <1>15, <1>17, <2>2
<1>18. QED
  BY <1>16, <1>17

(* A map that says what is the case already changes nothing.               *)
LEMMA UnchangedExact ==
  ASSUME NEW old \in SUBSET Events, NEW map \in Seq(Events \X BOOLEAN),
         \A i \in DOMAIN map : map[i][2] = (map[i][1] \in old)
  PROVE  old = (old \ NamedIn(map)) \cup TurnedOn(map)
<1>1. \A i \in DOMAIN map : map[i][2] <=> map[i][1] \in old
  OBVIOUS
<1>2. TurnedOn(map) = NamedIn(map) \cap old
  BY <1>1 DEF TurnedOn, NamedIn
<1>3. QED
  BY <1>2

-------------------------------------------------------------------------------
(***************************************************************************)
(* Types, for the remaining operations and for all.                        *)
(***************************************************************************)
LEMMA BitmaskEvents ==
  ASSUME NEW old, NEW map, Len(map) \in Nat PROVE Bitmask(old, map) \in SUBSET Events
<1>1. PICK mask : GathersTo(mask, old, map, Len(map)) /\ Bitmask(old, map) = mask[Len(map)]
  BY BitmaskIs
<1>2. QED
  BY <1>1 DEF GathersTo

LEMMA ControlSetTyped ==
  ASSUME Queues, NEW c \in Clients, NEW map \in Maps, ControlSet(c, map) PROVE Typed
<1> DEFINE op == [kind |-> "control", map |-> map, old |-> s88, alone |-> ~Others(c)]
<1>1. /\ Spend("s88") /\ UNCHANGED <<api, mo, mt, s88, clock>>
      /\ busy' = [NotAlone(c) EXCEPT ![c] = op] \/ busy' = [busy EXCEPT ![c] = Idle]
  BY DEF ControlSet, Begins, Returns, Throws, queues
<1>2. activity' \in [{"mo", "mt", "s88"} -> Nat] /\ activity'.mo <= activity.mo
  BY <1>1, Spent DEF Queues
<1>3. op \in Operations
  <2>1. (~Others(c)) \in BOOLEAN
    BY DEF Others
  <2>2. QED
    BY <2>1 DEF Operations, Controls, Queues
<1>4. NotAlone(c) \in [Clients -> Operations]
  <2>1. ASSUME NEW d \in Clients, busy[d].kind = "control"
        PROVE  [busy[d] EXCEPT !.alone = FALSE] \in Operations
    <3>1. busy[d] \in Controls
      BY <2>1 DEF Queues, Operations, Clearings, Deletions, Idle
    <3>2. [busy[d] EXCEPT !.alone = FALSE] \in Controls
      BY <3>1 DEF Controls
    <3>3. QED
      BY <3>2 DEF Operations
  <2>2. QED
    BY <2>1 DEF NotAlone, Queues
<1> HIDE DEF op
<1>5. busy' \in [Clients -> Operations]
  <2>1. Idle \in Operations /\ busy \in [Clients -> Operations]
    BY DEF Operations, Queues
  <2>2. QED
    BY <1>1, <1>3, <1>4, <2>1
<1>6. MoKept
  BY <1>1, <1>2, SameMo
<1>7. QED
  BY <1>1, <1>2, <1>5, <1>6 DEF Typed, Queues

(* The entries of a map that are not yet as they should be.                *)
Differs(op) == \E i \in DOMAIN op.map : op.map[i][2] # (op.map[i][1] \in op.old)

LEMMA ControlWriteKinds ==
  ASSUME Queues, NEW c \in Clients, ControlWrite(c)
  PROVE  /\ busy[c] \in Controls /\ busy[c].map \in Seq(Events \X BOOLEAN)
         /\ UNCHANGED <<api, mo, mt, clock, activity>>
         /\ busy' = [busy EXCEPT ![c] = Idle]
         /\ \/ /\ ret' = [busy[c] EXCEPT !.kind = "written"]
               /\ s88' = IF Differs(busy[c]) THEN Bitmask(busy[c].old, busy[c].map) ELSE s88
            \/ /\ ret' = Raised
               /\ s88' \in {s88, Bitmask(busy[c].old, busy[c].map)}
<1>1. busy[c] \in Controls
  BY DEF Queues, Operations, ControlWrite, Continues, Idle, Clearings, Deletions
<1>2. busy[c].map \in Seq(Events \X BOOLEAN)
  BY <1>1, QueuesAssumption DEF Controls
<1>3. QED
  BY <1>1, <1>2 DEF ControlWrite, Continues, Returns, Throws, Differs

LEMMA ControlWriteTyped ==
  ASSUME Queues, NEW c \in Clients, ControlWrite(c) PROVE Typed
<1>1. /\ busy[c].map \in Seq(Events \X BOOLEAN)
      /\ UNCHANGED <<api, mo, mt, clock, activity>>
      /\ busy' = [busy EXCEPT ![c] = Idle]
      /\ s88' \in {s88, Bitmask(busy[c].old, busy[c].map)}
  BY ControlWriteKinds
<1>2. Bitmask(busy[c].old, busy[c].map) \in SUBSET Events
  BY <1>1, BitmaskEvents
<1>3. MoKept
  BY <1>1, SameMo DEF Queues
<1>4. Idle \in Operations
  BY DEF Operations
<1>5. QED
  BY <1>1, <1>2, <1>3, <1>4, TypedStep DEF Queues

(* A message that is added is a report or of another client.               *)
MoChange ==
    \/ MoKept
    \/ \E m : Added(m) /\ (m.body.kind = "other"
                           \/ (Report /\ m.body.kind = "report" /\ m.name = Name(Unnamed)))

LEMMA NextTyped ==
  ASSUME Queues, [Next]_vars PROVE Queues' /\ MoChange
<1>1. CASE UNCHANGED mailbox
  <2>1. UNCHANGED <<api, mo, mt, s88, busy, clock, activity>>
    BY <1>1 DEF mailbox, queues, bounds
  <2>2. MoKept
    BY <2>1, SameMo DEF Queues
  <2>3. QED
    BY <2>1, <2>2 DEF MoChange, Queues
<1>2. CASE Elsewhere
  <2>1. MoKept
    BY <1>2, SameMo DEF Queues, Elsewhere
  <2>2. QED
    BY <1>2, <2>1 DEF MoChange, Queues, Elsewhere
<1>3. ASSUME NEW c \in Clients, Operation(c) PROVE Typed
  <2>1. ASSUME NEW i \in DOMAIN mt, MtDelete(c, mt[i].name) PROVE Typed
    <3>1. InQueue(mt, mt[i].name)
      BY DEF InQueue
    <3>2. QED
      BY <2>1, <3>1, MtDeleteTyped
  <2>2. QED
    BY <1>3, <2>1, ClearTyped, ClearNextTyped, ClearEndsTyped, DeleteTyped, DeleteNextTyped,
       CancelTyped, MonitorTyped, ControlSetTyped, ControlWriteTyped DEF Operation
<1>4. CASE Sends
  <2>1. PICK c, given, body, result :
          /\ Sender(c, given, body)
          /\ MoSend(c, given, body, result)
          /\ body.kind = "other" \/ (Report /\ body.kind = "report" /\ given = Unnamed)
    BY <1>4, Zenon DEF Sends
  <2>2. Queues' /\ (MoKept \/ \E m : Added(m) /\ m.body = body /\ m.name = Name(given))
    BY <2>1, SendTyped DEF Sender
  <2>3. QED
    BY <2>1, <2>2 DEF MoChange
<1>5. Typed => Queues' /\ MoChange
  BY DEF Typed, MoChange
<1>6. QED
  BY <1>1, <1>2, <1>3, <1>4, <1>5, StepKinds, TransmitTyped, ForgetTyped

LEMMA InitTyped == InitApp => Queues
<1> SUFFICES ASSUME InitApp PROVE Queues
  OBVIOUS
<1>1. Init
  BY DEF InitApp, InitExchange
<1>2. /\ mo = <<>> /\ mt = <<>> /\ s88 = {} /\ api \in {"threaded", "asyncio"}
      /\ busy = [c \in Clients |-> Idle] /\ clock = 0
      /\ activity \in [{"mo", "mt", "s88"} -> Nat]
  BY <1>1, QueuesAssumption DEF Init
<1>3. <<>> \in Seq(MoMessages) /\ <<>> \in Seq(MtMessages)
  OBVIOUS
<1>4. clock \in 0..MaxClock
  BY <1>2, QueuesAssumption
<1>5. busy \in [Clients -> Operations]
  BY <1>2 DEF Operations
<1>6. QED
  BY <1>2, <1>3, <1>4, <1>5 DEF Queues

-------------------------------------------------------------------------------
(***************************************************************************)
(* The event notifications.                                                *)
(***************************************************************************)

(* A client that is alone between reading and writing the register will    *)
(* find it as it was, and nobody else is there.                            *)
ControlInv ==
    \A c \in Clients : busy[c].kind = "control" =>
        /\ api = "asyncio"
        /\ busy[c].alone => /\ s88 = busy[c].old
                            /\ \A d \in Clients \ {c} : busy[d].kind # "control"

(* What leaves the register and those who change it alone.                 *)
ControlAside ==
    /\ UNCHANGED <<api, s88>> /\ ret'.kind # "written"
    /\ \E c \in Clients, op \in Operations :
          op.kind # "control" /\ busy' = [busy EXCEPT ![c] = op]

LEMMA AsideKeepsControl ==
  ASSUME Queues, ControlInv, ControlAside PROVE ControlInv' /\ ControlSetExact'
<1>1. PICK c \in Clients, op \in Operations :
        op.kind # "control" /\ busy' = [busy EXCEPT ![c] = op]
  BY DEF ControlAside
<1>2. \A d \in Clients : busy'[d] = IF d = c THEN op ELSE busy[d]
  BY <1>1 DEF Queues
<1>3. ControlInv'
  BY <1>1, <1>2 DEF ControlInv, ControlAside
<1>4. QED
  BY <1>3 DEF ControlAside, ControlSetExact

(* Most operations do.                                                     *)
LEMMA OperationsAside ==
  ASSUME Queues, NEW c \in Clients, Operation(c)
  PROVE  \/ ControlAside
         \/ \E events \in SUBSET Events : MonitorSet(c, events)
         \/ \E map \in Maps : ControlSet(c, map)
         \/ ControlWrite(c)
<1>1. Idle \in Operations /\ Idle.kind # "control" /\ Idle.kind # "written"
      /\ Raised.kind # "written" /\ \A ok : Done(ok).kind # "written"
  BY DEF Operations, Idle, Raised, Done
<1>2. ASSUME UNCHANGED <<api, s88>>, NEW op, op.kind # "control",
             busy' = [busy EXCEPT ![c] = op], ret'.kind # "written", Typed
      PROVE  ControlAside
  <2>1. op \in Operations
    <3>1. busy' \in [Clients -> Operations] /\ busy'[c] = op
      BY <1>2 DEF Typed, Queues
    <3>2. QED
      BY <3>1
  <2>2. QED
    BY <1>2, <2>1 DEF ControlAside
<1>3. CASE MoClear(c)
  <2> DEFINE found == {mo[i].by : i \in DOMAIN mo}
             op    == Clearing(MoStates, 0, found, {})
  <2>1. /\ UNCHANGED <<api, s88>> /\ ret' \in {Idle, Raised}
        /\ busy' = [busy EXCEPT ![c] = Idle] \/ busy' = [busy EXCEPT ![c] = op]
    BY <1>3 DEF MoClear, Goes, Returns, Throws, queues
  <2>2. op.kind # "control"
    BY DEF Clearing
  <2> HIDE DEF op
  <2>3. QED
    BY <1>1, <1>2, <1>3, <2>1, <2>2, ClearTyped
<1>4. CASE MoClearNext(c)
  <2>1. PICK op : /\ UNCHANGED <<api, s88>> /\ ret' \in {Idle, Raised}
                  /\ op.kind = "clear" \/ op = Idle
                  /\ busy' = [busy EXCEPT ![c] = op]
    BY <1>4 DEF MoClearNext, Goes, Returns, Throws, Clearing
  <2>2. QED
    BY <1>1, <1>2, <1>4, <2>1, ClearNextTyped
<1>5. CASE MoClearEnds(c)
  <2>1. busy[c] \in Clearings
    BY <1>5 DEF Queues, Operations, MoClearEnds, Continues, Idle, Deletions, Controls
  <2>2. /\ UNCHANGED <<api, s88>> /\ ret'.kind = "cleared"
        /\ busy' = [busy EXCEPT ![c] = Idle]
    BY <1>5, <2>1 DEF MoClearEnds, Returns, queues, Clearings
  <2>3. QED
    BY <1>1, <1>2, <1>5, <2>2, ClearEndsTyped
<1>6. CASE MoDelete(c)
  <2> DEFINE op == [kind |-> "delete", todo |-> [i \in DOMAIN mo |-> MoStates[i].name]]
  <2>1. /\ UNCHANGED <<api, s88>> /\ ret' \in {Idle, Raised}
        /\ busy' = [busy EXCEPT ![c] = Idle] \/ busy' = [busy EXCEPT ![c] = op]
    BY <1>6 DEF MoDelete, Goes, Returns, Throws, queues
  <2>2. op.kind # "control"
    OBVIOUS
  <2> HIDE DEF op
  <2>3. QED
    BY <1>1, <1>2, <1>6, <2>1, <2>2, DeleteTyped
<1>7. CASE MoDeleteNext(c)
  <2> DEFINE op == [busy[c] EXCEPT !.todo = Tail(@)]
  <2>1. busy[c] \in Deletions
    BY <1>7 DEF Queues, Operations, MoDeleteNext, Continues, Idle, Clearings, Controls
  <2>2. /\ UNCHANGED <<api, s88>> /\ ret'.kind # "written"
        /\ busy' = [busy EXCEPT ![c] = Idle] \/ busy' = [busy EXCEPT ![c] = op]
    BY <1>1, <1>7 DEF MoDeleteNext, Goes, Returns, Throws
  <2>3. op.kind # "control"
    BY <2>1 DEF Deletions
  <2> HIDE DEF op
  <2>4. QED
    BY <1>1, <1>2, <1>7, <2>2, <2>3, DeleteNextTyped
<1>8. ASSUME NEW i \in DOMAIN mo, MoCancel(c, mo[i].name) PROVE ControlAside
  <2>1. /\ UNCHANGED <<api, s88>> /\ ret'.kind # "written"
        /\ busy' = [busy EXCEPT ![c] = Idle]
    BY <1>1, <1>8 DEF MoCancel, Returns, Throws
  <2>2. QED
    BY <1>1, <1>2, <1>8, <2>1, CancelTyped
<1>9. ASSUME NEW i \in DOMAIN mt, MtDelete(c, mt[i].name) PROVE ControlAside
  <2>1. /\ UNCHANGED <<api, s88>> /\ ret'.kind # "written"
        /\ busy' = [busy EXCEPT ![c] = Idle]
    BY <1>1, <1>9 DEF MtDelete, Returns, Throws
  <2>2. InQueue(mt, mt[i].name)
    BY DEF InQueue
  <2>3. QED
    BY <1>1, <1>2, <1>9, <2>1, <2>2, MtDeleteTyped
<1>10. QED
  BY <1>3, <1>4, <1>5, <1>6, <1>7, <1>8, <1>9 DEF Operation

LEMMA MonitorKeepsControl ==
  ASSUME Queues, ControlInv, NEW c \in Clients, NEW events, MonitorSet(c, events)
  PROVE  ControlInv' /\ ControlSetExact'
<1>1. api = "threaded" /\ busy' = [busy EXCEPT ![c] = Idle] /\ ret' \in {Done(TRUE), Raised}
  BY DEF MonitorSet, Returns, Throws
<1>2. \A d \in Clients : busy[d].kind # "control"
  BY <1>1 DEF ControlInv
<1>3. \A d \in Clients : busy'[d] = IF d = c THEN Idle ELSE busy[d]
  BY <1>1 DEF Queues
<1>4. QED
  BY <1>1, <1>2, <1>3 DEF ControlInv, ControlSetExact, Idle, Raised, Done

LEMMA ControlSetKeepsControl ==
  ASSUME Queues, ControlInv, NEW c \in Clients, NEW map \in Maps, ControlSet(c, map)
  PROVE  ControlInv' /\ ControlSetExact'
<1> DEFINE op == [kind |-> "control", map |-> map, old |-> s88, alone |-> ~Others(c)]
<1>0. CASE Fault /\ Throws(c)
  <2>1. UNCHANGED <<api, s88>> /\ ret' = Raised /\ busy' = [busy EXCEPT ![c] = Idle]
    BY <1>0 DEF ControlSet, Returns, Throws, queues
  <2>2. Idle \in Operations /\ Idle.kind # "control" /\ Raised.kind # "written"
    BY DEF Operations, Idle, Raised
  <2>3. QED
    BY <2>1, <2>2, AsideKeepsControl DEF ControlAside
<1> SUFFICES ASSUME ~(Fault /\ Throws(c)) PROVE ControlInv' /\ ControlSetExact'
  BY <1>0
<1>1. /\ UNCHANGED <<api, s88>> /\ api = "asyncio" /\ ret' = Idle
      /\ busy' = [NotAlone(c) EXCEPT ![c] = op]
  BY DEF ControlSet, queues
<1>2. \A d \in Clients \ {c} :
        busy'[d] = IF busy[d].kind = "control" THEN [busy[d] EXCEPT !.alone = FALSE] ELSE busy[d]
  BY <1>1 DEF NotAlone
<1>3. busy'[c] = op
  BY <1>1 DEF NotAlone
<1>4. op.kind = "control" /\ op.old = s88 /\ (op.alone => ~Others(c))
  OBVIOUS
<1> HIDE DEF op
<1>5. ASSUME NEW d \in Clients \ {c}, busy'[d].kind = "control"
      PROVE  busy[d].kind = "control" /\ ~busy'[d].alone
  <2>1. busy[d].kind = "control"
    BY <1>2, <1>5
  <2>2. busy[d] \in Controls
    BY <2>1 DEF Queues, Operations, Clearings, Deletions, Idle
  <2>3. QED
    BY <1>2, <2>1, <2>2 DEF Controls
<1>6. ControlInv'
  <2> SUFFICES ASSUME NEW d \in Clients, busy'[d].kind = "control"
               PROVE  /\ api' = "asyncio"
                      /\ busy'[d].alone => /\ s88' = busy'[d].old
                                           /\ \A e \in Clients \ {d} : busy'[e].kind # "control"
    BY DEF ControlInv
  <2>1. CASE d = c
    BY <1>1, <1>3, <1>4, <1>5, <2>1 DEF Others
  <2>2. CASE d # c
    BY <1>1, <1>5, <2>2
  <2>3. QED
    BY <2>1, <2>2
<1>7. QED
  BY <1>1, <1>6 DEF ControlSetExact, Idle

LEMMA ControlWriteKeepsControl ==
  ASSUME Queues, ControlInv, NEW c \in Clients, ControlWrite(c)
  PROVE  ControlInv' /\ ControlSetExact'
<1> DEFINE op  == busy[c]
           map == op.map
           old == op.old
<1>1. /\ op \in Controls /\ map \in Seq(Events \X BOOLEAN)
      /\ UNCHANGED api /\ busy' = [busy EXCEPT ![c] = Idle]
      /\ \/ /\ ret' = [op EXCEPT !.kind = "written"]
            /\ s88' = IF Differs(op) THEN Bitmask(old, map) ELSE s88
         \/ ret' = Raised
  BY ControlWriteKinds
<1>2. \A d \in Clients : busy'[d] = IF d = c THEN Idle ELSE busy[d]
  BY <1>1 DEF Queues
<1>3. op.kind = "control" /\ old \in SUBSET Events
  BY <1>1 DEF Controls
<1>4. ControlInv'
  <2>1. ASSUME NEW d \in Clients \ {c}, busy[d].kind = "control" PROVE ~busy[d].alone
    BY <1>3, <2>1 DEF ControlInv
  <2>2. QED
    BY <1>1, <1>2, <2>1 DEF ControlInv, Idle
<1>5. ControlSetExact'
  <2>1. CASE ret' = Raised
    BY <2>1 DEF ControlSetExact, Raised
  <2>2. CASE ret' # Raised
    <3>1. ret' = [op EXCEPT !.kind = "written"]
      BY <1>1, <2>2
    <3>2. ret'.map = map /\ ret'.old = old /\ ret'.alone = op.alone
      BY <1>1, <3>1 DEF Controls
    <3>3. ASSUME op.alone, Cardinality(NamedIn(map)) = Len(map),
                 \A i \in 1..Len(map) - 1 : map[i][2]
          PROVE  s88' = (old \ NamedIn(map)) \cup TurnedOn(map)
      <4>1. s88 = old
        BY <1>3, <3>3 DEF ControlInv
      <4>2. CASE Differs(op)
        <5>1. Len(map) # 0
          BY <1>1, <4>2 DEF Differs
        <5>2. Bitmask(old, map) = (old \ NamedIn(map)) \cup TurnedOn(map)
          BY <1>1, <1>3, <3>3, <5>1, BitmaskExact, CountDistinct
        <5>3. QED
          BY <1>1, <2>2, <4>2, <5>2
      <4>3. CASE ~Differs(op)
        <5>1. \A i \in DOMAIN map : map[i][2] = (map[i][1] \in old)
          BY <4>3 DEF Differs
        <5>2. old = (old \ NamedIn(map)) \cup TurnedOn(map)
          BY <1>1, <1>3, <5>1, UnchangedExact
        <5>3. QED
          BY <1>1, <2>2, <4>1, <4>3, <5>2
      <4>4. QED
        BY <4>2, <4>3
    <3> HIDE DEF op, map, old
    <3>4. QED
      BY <3>2, <3>3, Zenon DEF ControlSetExact, NamedIn, TurnedOn
  <2>3. QED
    BY <2>1, <2>2
<1>6. QED
  BY <1>4, <1>5

LEMMA ControlStep ==
  ASSUME Queues, ControlInv, ControlSetExact, [Next]_vars
  PROVE  ControlInv' /\ ControlSetExact'
<1>1. CASE UNCHANGED mailbox
  <2>1. UNCHANGED <<api, s88, busy, ret>>
    BY <1>1 DEF mailbox, queues
  <2>2. QED
    BY <2>1 DEF ControlInv, ControlSetExact
<1>2. CASE Elsewhere
  BY <1>2 DEF Elsewhere, Outcomes, ControlInv, ControlSetExact
<1>3. CASE Sends
  <2>1. PICK c, given, body, result :
          Sender(c, given, body) /\ MoSend(c, given, body, result) /\ result.kind \notin Outcomes
    BY <1>3, Zenon DEF Sends
  <2>2. /\ UNCHANGED <<api, s88>> /\ busy' = [busy EXCEPT ![c] = Idle]
        /\ ret' = result \/ ret' = Raised
    BY <2>1 DEF MoSend, Returns, Throws
  <2>3. ret'.kind # "written" /\ Idle \in Operations /\ Idle.kind # "control"
    BY <2>1, <2>2 DEF Outcomes, Operations, Idle, Raised
  <2>4. ControlAside
    BY <2>1, <2>2, <2>3 DEF ControlAside, Sender
  <2>5. QED
    BY <2>4, AsideKeepsControl
<1>4. CASE Transmit \/ Forget
  BY <1>4 DEF Transmit, Forget, Idle, ControlInv, ControlSetExact
<1>5. ASSUME NEW c \in Clients, Operation(c) PROVE ControlInv' /\ ControlSetExact'
  BY <1>5, OperationsAside, AsideKeepsControl, MonitorKeepsControl, ControlSetKeepsControl,
     ControlWriteKeepsControl
<1>6. QED
  BY <1>1, <1>2, <1>3, <1>4, <1>5, StepKinds

-------------------------------------------------------------------------------
(***************************************************************************)
(* The transmit queue.  A message is known by its number `by', which is    *)
(* what was left of the budget when it was submitted: all are different    *)
(* and greater than what is left now.                                      *)
(***************************************************************************)
MoInv ==
    /\ \A i, j \in DOMAIN mo : mo[i].name = mo[j].name => i = j
    /\ \A i, j \in DOMAIN mo : mo[i].by = mo[j].by => i = j
    /\ \A i \in DOMAIN mo : mo[i].by > activity.mo

(* A message of the queue after the step is one from before, or the new    *)
(* one.                                                                    *)
LEMMA Origins ==
  ASSUME Queues, MoInv, [Next]_vars
  PROVE  /\ mo' \in Seq(MoMessages) /\ activity.mo \in Nat /\ activity'.mo \in Nat
         /\ activity'.mo <= activity.mo
         /\ \/ Derived(mo', mo)
            \/ /\ Len(mo') = Len(mo) + 1 /\ \A i \in 1..Len(mo) : mo'[i] = mo[i]
               /\ mo'[Len(mo) + 1].by = activity.mo /\ activity'.mo < activity.mo
               /\ ~InQueue(mo, mo'[Len(mo) + 1].name)
<1>1. Queues' /\ MoChange
  BY NextTyped
<1>2. mo' \in Seq(MoMessages) /\ activity.mo \in Nat /\ activity'.mo \in Nat
  BY <1>1 DEF Queues
<1>3. ASSUME NEW m, Added(m)
      PROVE  /\ activity'.mo < activity.mo
             /\ Len(mo') = Len(mo) + 1 /\ \A i \in 1..Len(mo) : mo'[i] = mo[i]
             /\ mo'[Len(mo) + 1].by = activity.mo
             /\ ~InQueue(mo, mo'[Len(mo) + 1].name)
  <2>1. m \in MoMessages /\ m.by = activity.mo /\ ~InQueue(mo, m.name)
        /\ mo' = Append(mo, m) /\ activity'.mo = activity.mo - 1
    BY <1>3 DEF Added
  <2>2. mo'[Len(mo) + 1] = m /\ Len(mo') = Len(mo) + 1 /\ \A i \in 1..Len(mo) : mo'[i] = mo[i]
    BY <2>1 DEF Queues
  <2>3. QED
    BY <1>2, <2>1, <2>2
<1>4. QED
  BY <1>1, <1>2, <1>3 DEF MoChange, MoKept

LEMMA MoTyped ==
  ASSUME Queues
  PROVE  \A i \in DOMAIN mo : mo[i] \in MoMessages /\ mo[i].by \in Nat
<1>1. \A i \in DOMAIN mo : mo[i] \in MoMessages
  BY DEF Queues
<1>2. QED
  BY <1>1 DEF MoMessages

LEMMA MoStep ==
  ASSUME Queues, MoInv, [Next]_vars PROVE MoInv'
<1>1. /\ mo' \in Seq(MoMessages) /\ activity.mo \in Nat /\ activity'.mo \in Nat
      /\ activity'.mo <= activity.mo /\ DOMAIN mo' = 1..Len(mo') /\ DOMAIN mo = 1..Len(mo)
      /\ Len(mo) \in Nat /\ \A i \in 1..Len(mo) : mo[i].by \in Nat
  BY Origins, MoTyped DEF Queues
<1>2. CASE Derived(mo', mo)
  <2>1. PICK f : DerivedBy(f, mo', mo)
    BY <1>2 DEF Derived
  <2>2. \A j \in 1..Len(mo') : /\ f[j] \in 1..Len(mo)
                               /\ mo'[j].name = mo[f[j]].name /\ mo'[j].by = mo[f[j]].by
    BY <2>1 DEF DerivedBy, Later
  <2>3. \A i, j \in 1..Len(mo') : f[i] = f[j] => i = j
    BY <2>1 DEF DerivedBy
  <2>4. ASSUME NEW i \in 1..Len(mo'), NEW j \in 1..Len(mo')
        PROVE  /\ mo'[i].name = mo'[j].name => i = j
               /\ mo'[i].by = mo'[j].by => i = j
               /\ mo'[i].by > activity'.mo
    <3>1. mo[f[i]].by > activity.mo /\ mo[f[i]].by \in Nat
      BY <1>1, <2>2 DEF MoInv
    <3>2. mo'[i].by > activity'.mo
      BY <1>1, <2>2, <3>1
    <3>3. mo[f[i]].name = mo[f[j]].name \/ mo[f[i]].by = mo[f[j]].by => f[i] = f[j]
      BY <1>1, <2>2 DEF MoInv
    <3>4. QED
      BY <2>2, <2>3, <3>2, <3>3
  <2>5. QED
    BY <1>1, <2>4 DEF MoInv
<1>3. CASE /\ Len(mo') = Len(mo) + 1 /\ \A i \in 1..Len(mo) : mo'[i] = mo[i]
           /\ mo'[Len(mo) + 1].by = activity.mo /\ activity'.mo < activity.mo
           /\ ~InQueue(mo, mo'[Len(mo) + 1].name)
  <2>1. \A i \in 1..Len(mo) : mo[i].name # mo'[Len(mo) + 1].name
    BY <1>1, <1>3 DEF InQueue
  <2>2. \A i \in 1..Len(mo') : i = Len(mo) + 1 \/ i \in 1..Len(mo)
    BY <1>1, <1>3
  <2>3. QED
    BY <1>1, <1>3, <2>1, <2>2 DEF MoInv
<1>4. QED
  BY <1>2, <1>3, Origins

-------------------------------------------------------------------------------
(***************************************************************************)
(* message_mo_clear() of the asyncio client.                               *)
(***************************************************************************)

(* The loop has still to get to a message of that name.                    *)
Awaits(todo, name) == \E k \in DOMAIN todo : todo[k].name = name /\ Open(todo[k].state)

(* In the middle of it: the count is that of the messages cancelled, none  *)
(* of which is ready; and a message it has found that is ready is still to *)
(* come.                                                                   *)
ClearOK(op) ==
    /\ \A by \in op.mine \cup op.found : by > activity.mo
    /\ IsFiniteSet(op.mine) /\ op.count = Cardinality(op.mine)
    /\ \A i \in DOMAIN mo : mo[i].by \in op.mine => mo[i].state # TX_READY
    /\ \A i \in DOMAIN mo : mo[i].by \in op.found /\ mo[i].state = TX_READY
                                => Awaits(op.todo, mo[i].name)

ClearInv == \A c \in Clients : busy[c].kind = "clear" => ClearOK(busy[c])

(* Whatever others do in between.                                          *)
LEMMA ClearKept ==
  ASSUME Queues, MoInv, [Next]_vars, NEW op, op \in Clearings, ClearOK(op)
  PROVE  ClearOK(op)'
<1>1. /\ mo' \in Seq(MoMessages) /\ activity.mo \in Nat /\ activity'.mo \in Nat
      /\ activity'.mo <= activity.mo /\ DOMAIN mo' = 1..Len(mo') /\ DOMAIN mo = 1..Len(mo)
      /\ Len(mo) \in Nat
  BY Origins DEF Queues
<1>2. \A by \in op.mine \cup op.found : by > activity'.mo
  BY <1>1 DEF ClearOK, Clearings
<1>3. ASSUME NEW i \in 1..Len(mo')
      PROVE  /\ mo'[i].by \in op.mine => mo'[i].state # TX_READY
             /\ mo'[i].by \in op.found /\ mo'[i].state = TX_READY => Awaits(op.todo, mo'[i].name)
  <2>1. CASE Derived(mo', mo)
    <3>1. PICK f : DerivedBy(f, mo', mo)
      BY <2>1 DEF Derived
    <3>2. /\ f[i] \in 1..Len(mo) /\ mo'[i].name = mo[f[i]].name /\ mo'[i].by = mo[f[i]].by
          /\ mo'[i].state = TX_READY => mo[f[i]].state = TX_READY
      BY <3>1 DEF DerivedBy, Later
    <3>3. QED
      BY <1>1, <3>2 DEF ClearOK
  <2>2. CASE /\ Len(mo') = Len(mo) + 1 /\ \A j \in 1..Len(mo) : mo'[j] = mo[j]
             /\ mo'[Len(mo) + 1].by = activity.mo
    <3>1. CASE i \in 1..Len(mo)
      BY <1>1, <2>2, <3>1 DEF ClearOK
    <3>2. CASE i \notin 1..Len(mo)
      <4>1. mo'[i].by = activity.mo
        BY <1>1, <2>2, <3>2
      <4>2. mo'[i].by \notin op.mine \cup op.found
        BY <1>1, <4>1 DEF ClearOK
      <4>3. QED
        BY <4>2
    <3>3. QED
      BY <3>1, <3>2
  <2>3. QED
    BY <2>1, <2>2, Origins
<1>4. QED
  BY <1>1, <1>2, <1>3 DEF ClearOK

(* It begins: all messages that are ready are on its list.                 *)
LEMMA ClearBegins ==
  ASSUME Queues, MoInv, [Next]_vars, NEW c \in Clients, MoClear(c), busy'[c].kind = "clear"
  PROVE  ClearOK(busy[c])'
<1> DEFINE found == {mo[i].by : i \in DOMAIN mo}
           op    == Clearing(MoStates, 0, found, {})
<1>1. mo' = mo /\ (busy' = [busy EXCEPT ![c] = Idle] \/ busy' = [busy EXCEPT ![c] = op])
  BY DEF MoClear, Goes, Returns, Throws, queues
<1>2. busy'[c] = op
  BY <1>1 DEF Queues, Idle
<1>3. op.mine = {} /\ op.found = found /\ op.count = 0 /\ op.todo = MoStates
  BY DEF Clearing
<1> HIDE DEF op
<1>4. activity.mo \in Nat /\ activity'.mo \in Nat /\ activity'.mo <= activity.mo
  BY Origins
<1>5. \A i \in DOMAIN mo : mo[i].by > activity'.mo
  <2>1. \A i \in DOMAIN mo : mo[i].by \in Nat /\ mo[i].by > activity.mo
    BY MoTyped DEF MoInv
  <2>2. QED
    BY <1>4, <2>1
<1>6. \A i \in DOMAIN mo : mo[i].state = TX_READY => Awaits(MoStates, mo[i].name)
  BY DEF Awaits, MoStates, Open, TX_READY, TX_COMPLETE
<1>7. IsFiniteSet({}) /\ Cardinality({}) = 0
  BY FS_EmptySet
<1>8. QED
  BY <1>1, <1>2, <1>3, <1>5, <1>6, <1>7 DEF ClearOK

LEMMA TailIs ==
  ASSUME NEW M, NEW q \in Seq(M), NEW i \in 1..Len(q)
  PROVE  /\ DOMAIN SubSeq(q, i + 1, Len(q)) = 1..(Len(q) - i)
         /\ \A k \in 1..(Len(q) - i) : SubSeq(q, i + 1, Len(q))[k] = q[i + k]
<1> DEFINE b == SubSeq(q, i + 1, Len(q))
<1>1. Len(q) \in Nat /\ i \in Nat /\ \A k \in i + 1..Len(q) : k \in 1..Len(q) /\ q[k] \in M
  OBVIOUS
<1>2. /\ b \in Seq(M)
      /\ Len(b) = IF i + 1 <= Len(q) THEN Len(q) - (i + 1) + 1 ELSE 0
      /\ \A k \in 1..Len(b) : b[k] = q[i + 1 + k - 1]
  BY <1>1, SubSeqProperties
<1> HIDE DEF b
<1>3. Len(b) = Len(q) - i /\ DOMAIN b = 1..Len(b)
  <2>1. i \in Nat /\ Len(q) \in Nat /\ i <= Len(q)
    BY <1>1
  <2>2. Len(b) = IF i + 1 <= Len(q) THEN Len(q) - (i + 1) + 1 ELSE 0
    BY <1>2
  <2>3. Len(b) = Len(q) - i
    BY <2>1, <2>2
  <2>4. QED
    BY <1>2, <2>3
<1>4. ASSUME NEW k \in 1..(Len(q) - i) PROVE b[k] = q[i + k]
  <2>1. i + 1 + k - 1 = i + k
    BY <1>1
  <2>2. QED
    BY <1>2, <1>3, <2>1
<1>5. QED
  BY <1>3, <1>4 DEF b

(* A round of the loop.                                                    *)
LEMMA ClearGoesOn ==
  ASSUME Queues, MoInv, ClearInv, [Next]_vars, NEW c \in Clients, MoClearNext(c),
         busy'[c].kind = "clear"
  PROVE  ClearOK(busy[c])'
<1> DEFINE op == busy[c]
<1>1. op \in Clearings
  BY DEF Queues, Operations, MoClearNext, Continues, Idle, Deletions, Controls
<1>2. PICK i \in NextOpen(op.todo) :
        LET name  == op.todo[i].name
            rest  == SubSeq(op.todo, i + 1, Len(op.todo))
            ready == InQueue(mo, name) /\ mo[Named(mo, name)].state = TX_READY
            found == IF ready THEN {mo[Named(mo, name)].by} ELSE {}
        IN  \/ /\ NoFault
               /\ mo' = IF ready THEN WithState(mo, name, TX_CANCELLED) ELSE mo
               /\ Goes(c, Clearing(rest, Count(op, ready), op.found, op.mine \cup found))
            \/ /\ Fault /\ Throws(c)
               /\ UNCHANGED mo \/ (ready /\ mo' = WithState(mo, name, TX_CANCELLED))
  BY Zenon DEF MoClearNext
<1> DEFINE name  == op.todo[i].name
           rest  == SubSeq(op.todo, i + 1, Len(op.todo))
           ready == InQueue(mo, name) /\ mo[Named(mo, name)].state = TX_READY
           found == IF ready THEN {mo[Named(mo, name)].by} ELSE {}
           next  == Clearing(rest, Count(op, ready), op.found, op.mine \cup found)
<1>3. ~Throws(c)
  <2>1. Throws(c) => busy' = [busy EXCEPT ![c] = Idle]
    BY DEF Throws, Returns
  <2>2. QED
    BY <2>1 DEF Queues, Idle
<1>4. /\ mo' = IF ready THEN WithState(mo, name, TX_CANCELLED) ELSE mo
      /\ busy' = [busy EXCEPT ![c] = next]
  BY <1>2, <1>3 DEF Goes
<1>5. UNCHANGED activity
  BY DEF MoClearNext, Continues
<1>6. op.todo \in Seq(Listed) /\ i \in 1..Len(op.todo) /\ Len(op.todo) \in Nat
      /\ \A k \in 1..i - 1 : ~Open(op.todo[k].state)
      /\ op.kind = "clear" /\ op.count \in Nat
  BY <1>1 DEF Clearings, NextOpen
<1>7. ClearOK(op)
  <2>1. busy[c].kind = "clear"
    BY DEF MoClearNext, Continues
  <2>2. QED
    BY <2>1, Zenon DEF ClearInv
<1>8. busy'[c] = next
  BY <1>4 DEF Queues
<1>9. /\ next.todo = rest /\ next.count = Count(op, ready) /\ next.found = op.found
      /\ next.mine = op.mine \cup found
  BY DEF Clearing
<1> HIDE DEF next
<1>10. /\ DOMAIN rest = 1..(Len(op.todo) - i)
       /\ \A k \in 1..(Len(op.todo) - i) : rest[k] = op.todo[i + k]
  BY <1>6, TailIs
<1> HIDE DEF rest
<1>11. ready => /\ Named(mo, name) \in DOMAIN mo /\ mo[Named(mo, name)].name = name
                /\ mo[Named(mo, name)].by > activity.mo
                /\ mo[Named(mo, name)].by \notin op.mine
  BY <1>7, NamedIs DEF MoInv, ClearOK
<1>12. \A by \in next.mine \cup next.found : by > activity'.mo
  BY <1>5, <1>7, <1>9, <1>11 DEF ClearOK
<1>13. IsFiniteSet(next.mine) /\ next.count = Cardinality(next.mine)
  <2>1. IsFiniteSet(op.mine) /\ op.count = Cardinality(op.mine)
    BY <1>7 DEF ClearOK
  <2>2. CASE ready
    <3> DEFINE b == mo[Named(mo, name)].by
    <3>1. next.mine = op.mine \cup {b} /\ b \notin op.mine
      BY <1>9, <1>11, <2>2
    <3> HIDE DEF b, ready, found
    <3>2. IsFiniteSet(next.mine) /\ Cardinality(next.mine) = Cardinality(op.mine) + 1
      BY <2>1, <3>1, FS_AddElement
    <3>3. next.count = op.count + 1
      BY <1>9, <2>2 DEF Count
    <3>4. QED
      BY <2>1, <3>2, <3>3
  <2>3. CASE ~ready
    <3>1. next.mine = op.mine
      BY <1>9, <2>3
    <3> HIDE DEF ready, found
    <3>2. next.count = op.count + 0
      BY <1>9, <2>3 DEF Count
    <3>3. op.count + 0 = op.count
      BY <1>1 DEF Clearings
    <3>4. next.count = op.count
      BY <3>2, <3>3
    <3> HIDE DEF op
    <3>5. QED
      BY <2>1, <3>1, <3>4
  <2>4. QED
    BY <2>2, <2>3
(* After it, the message it is about is not ready.                         *)
<1>14. ASSUME NEW j \in DOMAIN mo'
       PROVE  /\ j \in DOMAIN mo /\ mo'[j].name = mo[j].name /\ mo'[j].by = mo[j].by
              /\ mo'[j].state = TX_READY => mo[j].state = TX_READY /\ mo[j].name # name
              /\ mo[j].by \in found => mo'[j].state # TX_READY
  <2>1. j = Named(mo, name) <=> (InQueue(mo, name) /\ j \in DOMAIN mo /\ mo[j].name = name)
        \/ (~InQueue(mo, name) /\ j = Named(mo, name))
    BY NamedIs DEF MoInv, InQueue
  <2>2. CASE ready
    <3>1. TX_CANCELLED \in TxStates /\ TX_CANCELLED # TX_READY
      BY DEF TX_CANCELLED, TX_READY, TxStates
    <3>2. HasState(MoMessages, TX_CANCELLED)
      BY <3>1 DEF HasState, MoMessages
    <3>3. /\ Len(mo') = Len(mo)
          /\ \A k \in 1..Len(mo) : mo'[k] =
               IF k = Named(mo, name) THEN [mo[k] EXCEPT !.state = TX_CANCELLED] ELSE mo[k]
      <4>1. mo' = WithState(mo, name, TX_CANCELLED) /\ InQueue(mo, name) /\ mo \in Seq(MoMessages)
        BY <1>4, <2>2 DEF Queues
      <4> HIDE DEF name
      <4>2. QED
        BY <3>2, <4>1, WithStateIs
    <3>4. mo' \in Seq(MoMessages)
      BY Origins
    <3>5. j \in 1..Len(mo) /\ j \in DOMAIN mo /\ mo[j] \in MoMessages
      BY <3>3, <3>4 DEF Queues
    <3>6. CASE j = Named(mo, name)
      <4>1. mo'[j] = [mo[j] EXCEPT !.state = TX_CANCELLED]
        BY <3>3, <3>5, <3>6
      <4>2. mo'[j].name = mo[j].name /\ mo'[j].by = mo[j].by /\ mo'[j].state # TX_READY
        BY <3>1, <3>5, <4>1 DEF MoMessages
      <4>3. QED
        BY <3>5, <4>2
    <3>7. CASE j # Named(mo, name)
      <4>1. mo'[j] = mo[j]
        BY <3>3, <3>5, <3>7
      <4>2. mo[j].name # name
        BY <2>1, <2>2, <3>5, <3>7
      <4>3. mo[j].by \notin found
        BY <1>11, <2>2, <3>5, <3>7 DEF MoInv
      <4>4. QED
        BY <3>5, <4>1, <4>2, <4>3
    <3>8. QED
      BY <3>6, <3>7
  <2>3. CASE ~ready
    <3>1. mo' = mo /\ found = {}
      BY <1>4, <2>3
    <3>2. mo[j].state = TX_READY => mo[j].name # name
      BY <2>1, <2>3, <3>1 DEF InQueue, MoInv
    <3>3. QED
      BY <3>1, <3>2
  <2>4. QED
    BY <2>2, <2>3
<1> HIDE DEF name, ready, found, op
<1>15. \A j \in DOMAIN mo' : mo'[j].by \in next.mine => mo'[j].state # TX_READY
  BY <1>7, <1>9, <1>14 DEF ClearOK
<1>16. ASSUME NEW j \in DOMAIN mo', mo'[j].by \in next.found, mo'[j].state = TX_READY
       PROVE  Awaits(next.todo, mo'[j].name)
  <2>1. /\ j \in DOMAIN mo /\ mo[j].by \in op.found /\ mo[j].state = TX_READY
        /\ mo'[j].name = mo[j].name /\ mo[j].name # name
    BY <1>9, <1>14, <1>16
  <2>2. PICK k \in DOMAIN op.todo : op.todo[k].name = mo[j].name /\ Open(op.todo[k].state)
    BY <1>7, <2>1 DEF ClearOK, Awaits
  <2>3. k \in 1..Len(op.todo) /\ k \notin 1..i - 1 /\ k # i
    BY <1>6, <2>1, <2>2 DEF name
  <2>4. k - i \in 1..(Len(op.todo) - i) /\ i + (k - i) = k
    BY <1>6, <2>3
  <2>5. k - i \in DOMAIN rest /\ rest[k - i] = op.todo[k]
    BY <1>10, <2>4
  <2>6. QED
    BY <1>9, <2>1, <2>2, <2>5 DEF Awaits
<1>17. QED
  BY <1>8, <1>12, <1>13, <1>15, <1>16 DEF ClearOK

-------------------------------------------------------------------------------
(* Clearing goes on as it was, or begins, or does a round.                 *)
LEMMA Clearers ==
  ASSUME Queues, [Next]_vars, NEW d \in Clients, busy'[d].kind = "clear"
  PROVE  busy'[d] = busy[d] \/ MoClear(d) \/ MoClearNext(d)
<1> SUFFICES ASSUME busy'[d] # busy[d] PROVE MoClear(d) \/ MoClearNext(d)
  OBVIOUS
<1>1. ASSUME NEW c, NEW op, busy' = [busy EXCEPT ![c] = op] PROVE d = c /\ op.kind = "clear"
  BY <1>1 DEF Queues
<1>2. Idle.kind # "clear"
  BY DEF Idle
<1>3. ~Sends
  <2> SUFFICES ASSUME Sends PROVE FALSE
    OBVIOUS
  <2>1. PICK c, given, body, result :
          Sender(c, given, body) /\ MoSend(c, given, body, result)
    BY Zenon DEF Sends
  <2>2. busy' = [busy EXCEPT ![c] = Idle]
    BY <2>1 DEF MoSend, Returns, Throws
  <2>3. QED
    BY <1>1, <1>2, <2>2
<1>4. ASSUME NEW c \in Clients, Operation(c) PROVE MoClear(d) \/ MoClearNext(d)
  <2>1. CASE MoClear(c) \/ MoClearNext(c)
    <3>1. \E op : busy' = [busy EXCEPT ![c] = op]
      BY <2>1 DEF MoClear, MoClearNext, Goes, Returns, Throws
    <3>2. QED
      BY <1>1, <2>1, <3>1
  <2>2. CASE MoClearEnds(c) \/ MoDelete(c) \/ ControlWrite(c)
             \/ (\E i \in DOMAIN mo : MoCancel(c, mo[i].name))
             \/ (\E i \in DOMAIN mt : MtDelete(c, mt[i].name))
             \/ (\E events \in SUBSET Events : MonitorSet(c, events))
    <3>1. busy' = [busy EXCEPT ![c] = Idle]
          \/ \E todo : busy' = [busy EXCEPT ![c] = [kind |-> "delete", todo |-> todo]]
      BY <2>2 DEF MoClearEnds, MoDelete, ControlWrite, MoCancel, MtDelete, MonitorSet,
                  Goes, Returns, Throws
    <3>2. \A todo : [kind |-> "delete", todo |-> todo].kind # "clear"
      OBVIOUS
    <3>3. QED
      BY <1>1, <1>2, <3>1, <3>2
  <2>3. CASE MoDeleteNext(c)
    <3>1. busy[c] \in Deletions
      BY <2>3 DEF Queues, Operations, MoDeleteNext, Continues, Idle, Clearings, Controls
    <3>2. [busy[c] EXCEPT !.todo = Tail(@)].kind # "clear"
      BY <3>1 DEF Deletions
    <3>3. busy' = [busy EXCEPT ![c] = Idle]
          \/ busy' = [busy EXCEPT ![c] = [busy[c] EXCEPT !.todo = Tail(@)]]
      BY <2>3 DEF MoDeleteNext, Goes, Returns, Throws
    <3>4. QED
      BY <1>1, <1>2, <3>2, <3>3
  <2>4. ASSUME NEW map \in Maps, ControlSet(c, map) PROVE FALSE
    <3>0. ~Throws(c)
      BY <1>1, <1>2, Zenon DEF Throws, Returns
    <3>1. busy' = [NotAlone(c) EXCEPT
                     ![c] = [kind |-> "control", map |-> map, old |-> s88, alone |-> ~Others(c)]]
      BY <2>4, <3>0 DEF ControlSet
    <3>2. d # c /\ busy'[d] = NotAlone(c)[d]
      BY <3>1 DEF NotAlone
    <3>3. busy[d].kind = "control" /\ busy'[d] = [busy[d] EXCEPT !.alone = FALSE]
      BY <3>2 DEF NotAlone
    <3>4. busy[d] \in Controls
      BY <3>3 DEF Queues, Operations, Clearings, Deletions, Idle
    <3>5. QED
      BY <3>3, <3>4 DEF Controls
  <2>5. QED
    BY <1>4, <2>1, <2>2, <2>3, <2>4 DEF Operation
<1>5. ~ (UNCHANGED mailbox \/ Elsewhere \/ Transmit \/ Forget)
  BY DEF mailbox, Elsewhere, Transmit, Forget
<1>6. QED
  BY <1>3, <1>4, <1>5, StepKinds

LEMMA ClearStep ==
  ASSUME Queues, MoInv, ClearInv, [Next]_vars PROVE ClearInv'
<1> SUFFICES ASSUME NEW c \in Clients, busy'[c].kind = "clear" PROVE ClearOK(busy[c])'
  BY DEF ClearInv
<1>1. CASE busy'[c] = busy[c]
  <2> DEFINE op == busy[c]
  <2>1. op \in Clearings
    BY <1>1 DEF Queues, Operations, Idle, Deletions, Controls
  <2>2. busy[c].kind = "clear"
    BY <1>1
  <2>3. ClearOK(op)
    BY <2>2, Zenon DEF ClearInv
  <2>4. /\ \A by \in op.mine \cup op.found : by > activity'.mo
        /\ IsFiniteSet(op.mine) /\ op.count = Cardinality(op.mine)
        /\ \A i \in DOMAIN mo' : mo'[i].by \in op.mine => mo'[i].state # TX_READY
        /\ \A i \in DOMAIN mo' : mo'[i].by \in op.found /\ mo'[i].state = TX_READY
                                => Awaits(op.todo, mo'[i].name)
    <3> HIDE DEF op
    <3>1. ASSUME NEW o, o = op
          PROVE  /\ \A by \in o.mine \cup o.found : by > activity'.mo
                 /\ IsFiniteSet(o.mine) /\ o.count = Cardinality(o.mine)
                 /\ \A i \in DOMAIN mo' : mo'[i].by \in o.mine => mo'[i].state # TX_READY
                 /\ \A i \in DOMAIN mo' : mo'[i].by \in o.found /\ mo'[i].state = TX_READY
                                         => Awaits(o.todo, mo'[i].name)
      <4>1. o \in Clearings /\ ClearOK(o)
        BY <2>1, <2>3, <3>1
      <4>2. ClearOK(o)'
        BY <4>1, ClearKept
      <4>3. QED
        BY <4>2 DEF ClearOK
    <3>2. QED
      BY <3>1
  <2>5. QED
    BY <1>1, <2>4 DEF ClearOK
<1>2. CASE MoClear(c)
  BY <1>2, ClearBegins
<1>3. CASE MoClearNext(c)
  BY <1>3, ClearGoesOn
<1>4. QED
  BY <1>1, <1>2, <1>3, Clearers

(* A count is returned at the end of the list only.                        *)
LEMMA Cleared ==
  ASSUME Queues, [Next]_vars, ret'.kind = "cleared"
  PROVE  UNCHANGED mailbox \/ \E c \in Clients : MoClearEnds(c)
<1>1. Idle.kind # "cleared" /\ Raised.kind # "cleared" /\ \A ok : Done(ok).kind # "cleared"
  BY DEF Idle, Raised, Done
<1>2. ~Elsewhere /\ ~Transmit /\ ~Forget
  BY <1>1 DEF Elsewhere, Transmit, Forget, Outcomes
<1>3. ~Sends
  <2> SUFFICES ASSUME Sends PROVE FALSE
    OBVIOUS
  <2>1. PICK c, given, body, result :
          Sender(c, given, body) /\ MoSend(c, given, body, result) /\ result.kind \notin Outcomes
    BY Zenon DEF Sends
  <2>2. ret' = result \/ ret' = Raised
    BY <2>1 DEF MoSend, Returns, Throws
  <2>3. QED
    BY <1>1, <2>1, <2>2 DEF Outcomes
<1>4. ASSUME NEW c \in Clients, Operation(c) PROVE MoClearEnds(c)
  <2>1. ~MoClear(c) /\ ~MoClearNext(c) /\ ~MoDelete(c)
        /\ ~(\E map \in Maps : ControlSet(c, map))
    BY <1>1 DEF MoClear, MoClearNext, MoDelete, ControlSet, Goes, Returns, Throws, Raised, Idle
  <2>2. ~(\E i \in DOMAIN mo : MoCancel(c, mo[i].name))
        /\ ~(\E i \in DOMAIN mt : MtDelete(c, mt[i].name))
        /\ ~(\E events \in SUBSET Events : MonitorSet(c, events))
    BY <1>1 DEF MoCancel, MtDelete, MonitorSet, Returns, Throws
  <2>3. ~MoDeleteNext(c)
    <3>1. [kind |-> "deleted", count |-> -1].kind # "cleared"
      OBVIOUS
    <3>2. QED
      BY <1>1, <3>1 DEF MoDeleteNext, Goes, Returns, Throws
  <2>4. ~ControlWrite(c)
    <3> SUFFICES ASSUME ControlWrite(c) PROVE FALSE
      OBVIOUS
    <3>1. busy[c] \in Controls /\ (ret' = [busy[c] EXCEPT !.kind = "written"] \/ ret' = Raised)
      BY ControlWriteKinds
    <3>2. [busy[c] EXCEPT !.kind = "written"].kind = "written"
      BY <3>1 DEF Controls
    <3>3. QED
      BY <1>1, <3>1, <3>2
  <2>5. QED
    BY <1>4, <2>1, <2>2, <2>3, <2>4 DEF Operation
<1>5. QED
  BY <1>2, <1>3, <1>4, StepKinds

(* At the end of the list, nothing on it is open.                          *)
LEMMA NoneOpen ==
  ASSUME NEW todo \in Seq(Listed), NextOpen(todo) = {}
  PROVE  \A k \in DOMAIN todo : ~Open(todo[k].state)
<1> DEFINE T == {k \in DOMAIN todo : Open(todo[k].state)}
<1>1. DOMAIN todo = 1..Len(todo) /\ Len(todo) \in Nat
  OBVIOUS
<1>2. T \in SUBSET Nat
  BY <1>1
<1>3. ASSUME T # {} PROVE FALSE
  <2> HIDE DEF T
  <2>1. PICK x \in T : \A y \in T : ~ (y < x)
    BY <1>2, <1>3, LeastOf
  <2>2. x \in DOMAIN todo /\ Open(todo[x].state)
    BY <2>1 DEF T
  <2>3. ASSUME NEW j \in 1..x - 1 PROVE ~Open(todo[j].state)
    <3>1. j \in DOMAIN todo /\ j < x
      BY <1>1, <2>2
    <3>2. QED
      BY <2>1, <3>1 DEF T
  <2>4. QED
    BY <2>2, <2>3 DEF NextOpen
<1>4. QED
  BY <1>3

LEMMA ClearExactStep ==
  ASSUME Queues, MoInv, ClearInv, ClearIsExact, [Next]_vars PROVE ClearIsExact'
<1> SUFFICES ASSUME ret'.kind = "cleared"
             PROVE  /\ ret'.count = Cardinality(ret'.mine)
                    /\ \A i \in DOMAIN mo' : mo'[i].by \in ret'.found => mo'[i].state # TX_READY
  BY DEF ClearIsExact
<1>1. CASE UNCHANGED mailbox
  BY <1>1 DEF mailbox, queues, ClearIsExact
<1>2. ASSUME NEW c \in Clients, MoClearEnds(c)
      PROVE  /\ ret'.count = Cardinality(ret'.mine)
             /\ \A i \in DOMAIN mo' : mo'[i].by \in ret'.found => mo'[i].state # TX_READY
  <2> DEFINE op == busy[c]
  <2>1. /\ busy[c].kind = "clear" /\ NextOpen(op.todo) = {} /\ UNCHANGED mo
        /\ ret' = [op EXCEPT !.kind = "cleared"]
    BY <1>2 DEF MoClearEnds, Continues, Returns, queues
  <2>2. op \in Clearings
    BY <2>1 DEF Queues, Operations, Idle, Deletions, Controls
  <2>3. ClearOK(op)
    BY <2>1, Zenon DEF ClearInv
  <2> HIDE DEF op
  <2>4. ret'.count = op.count /\ ret'.mine = op.mine /\ ret'.found = op.found
    BY <2>1, <2>2 DEF Clearings
  <2>5. op.todo \in Seq(Listed)
    BY <2>2 DEF Clearings
  <2>6. \A k \in DOMAIN op.todo : ~Open(op.todo[k].state)
    BY <2>1, <2>5, NoneOpen
  <2>7. \A name : ~Awaits(op.todo, name)
    BY <2>6 DEF Awaits
  <2>8. QED
    BY <2>1, <2>3, <2>4, <2>7 DEF ClearOK
<1>3. QED
  BY <1>1, <1>2, Cleared

-------------------------------------------------------------------------------
(***************************************************************************)
(* The application and its reports.                                        *)
(***************************************************************************)
IsApp(a, running, loc, fix, reported, queued, todo) ==
    a = [running |-> running, loc |-> loc, fix |-> fix, reported |-> reported,
         queued |-> queued, todo |-> todo]

(* It holds a location or a list of messages only while it runs.           *)
AppInv ==
    /\ IsApp(app, app.running, app.loc, app.fix, app.reported, app.queued, app.todo)
    /\ app.queued \subseteq {<<"time", t>> : t \in 0..MaxClock}
    /\ app.running \/ (app.loc = <<>> /\ app.todo = <<>>)

OpenReport(m) == m.body.kind = "report" /\ Open(m.state)

(* The asyncio example, while it runs, knows of the only report that is    *)
(* open, and is about to send another only if it knows of none.            *)
ReportInv ==
    api = "asyncio" =>
        /\ \A i, j \in DOMAIN mo : OpenReport(mo[i]) /\ OpenReport(mo[j]) => i = j
        /\ app.running /\ app.queued = {} => \A i \in DOMAIN mo : ~OpenReport(mo[i])
        /\ app.running /\ app.loc # <<>> => app.queued = {}

(* What it is after a step.                                                *)
AppNext(running, loc, queued, todo) ==
    \E fix, reported : IsApp(app', running, loc, fix, reported, queued, todo)

LEMMA AppNextIs ==
  ASSUME NEW running, NEW loc, NEW queued, NEW todo,
         AppNext(running, loc, queued, todo),
         queued \subseteq {<<"time", t>> : t \in 0..MaxClock},
         running \/ (loc = <<>> /\ todo = <<>>)
  PROVE  /\ AppInv' /\ app'.running = running /\ app'.loc = loc /\ app'.queued = queued
<1>1. PICK fix, reported :
        app' = [running |-> running, loc |-> loc, fix |-> fix, reported |-> reported,
                queued |-> queued, todo |-> todo]
  BY DEF AppNext, IsApp
<1>2. QED
  BY <1>1 DEF AppInv, IsApp

LEMMA StopIs ==
  ASSUME AppInv, app' = Stopped PROVE AppInv' /\ ~app'.running
<1>1. IsApp(app', FALSE, <<>>, <<>>, app.reported, app.queued, <<>>)
  BY DEF AppInv, IsApp, Stopped
<1>2. AppNext(FALSE, <<>>, app.queued, <<>>)
  BY <1>1 DEF AppNext
<1>3. QED
  BY <1>2, AppNextIs DEF AppInv

(* The report that is sent is known to the application, unless it ends.    *)
LEMMA ReportDoes ==
  ASSUME Queues, AppInv, Report
  PROVE  /\ app.running /\ app.loc # <<>> /\ AppInv'
         /\ ~app'.running \/ (app'.loc = <<>> /\ app'.queued # {})
<1>1. /\ app.running /\ app.loc # <<>>
      /\ app' = IF ret'.kind = "report"
                THEN [app EXCEPT !.loc = <<>>, !.fix = <<>>, !.reported = TRUE,
                                 !.queued = @ \cup {ret'.name}]
                ELSE Stopped
  BY Zenon DEF Report
<1>2. CASE ret'.kind # "report"
  BY <1>1, <1>2, StopIs
<1>3. CASE ret'.kind = "report"
  <2>1. ret'.name = <<"time", clock>>
    <3>1. PICK loc, snr, bits :
            MoSend(App, Unnamed, [kind |-> "report"],
                   [kind |-> "report", name |-> Name(Unnamed), loc |-> loc, snr |-> snr,
                    fix |-> app.fix, bits |-> bits])
      BY Zenon DEF Report
    <3> DEFINE result == [kind |-> "report", name |-> Name(Unnamed), loc |-> loc, snr |-> snr,
                          fix |-> app.fix, bits |-> bits]
    <3>2. ret' = result \/ ret' = Raised
      BY <3>1 DEF MoSend, Returns, Throws
    <3>3. ret' = result
      BY <1>3, <3>2 DEF Raised
    <3>4. QED
      BY <3>3 DEF Name, Unnamed
  <2> DEFINE queued == app.queued \cup {<<"time", clock>>}
  <2>2. IsApp(app', app.running, <<>>, <<>>, TRUE, queued, app.todo)
    BY <1>1, <1>3, <2>1 DEF AppInv, IsApp
  <2>3. queued # {} /\ queued \subseteq {<<"time", t>> : t \in 0..MaxClock}
    BY DEF AppInv, Queues
  <2> HIDE DEF queued
  <2>4. AppNext(app.running, <<>>, queued, app.todo)
    BY <2>2 DEF AppNext
  <2>5. QED
    BY <1>1, <2>3, <2>4, AppNextIs
<1>4. QED
  BY <1>2, <1>3

(* What any other step does to it, if it goes on.                          *)
GoesOn ==
    /\ app.running
    /\ app'.queued \subseteq app.queued
    /\ app'.queued = app.queued \/ api = "threaded" \/ (mo' = <<>> /\ mo = <<>>)
    /\ app'.loc = app.loc \/ app'.loc = <<>> \/ api = "threaded" \/ app'.queued = {}

(* The class that is used stays the same.                                  *)
LEMMA NextApi ==
  ASSUME Queues, [Next]_vars PROVE api' = api
<1>1. CASE UNCHANGED mailbox
  BY <1>1 DEF mailbox
<1>2. CASE Elsewhere
  BY <1>2 DEF Elsewhere
<1>3. CASE Sends
  BY <1>3, Zenon DEF Sends, MoSend
<1>4. ASSUME NEW c \in Clients, Operation(c) PROVE api' = api
  BY <1>4, Zenon DEF Operation, MoClear, MoClearNext, MoClearEnds, MoDelete, MoDeleteNext, MoCancel,
     MtDelete, MonitorSet, ControlSet, ControlWrite
<1>5. CASE Transmit \/ Forget
  BY <1>5 DEF Transmit, Forget
<1>6. QED
  BY <1>1, <1>2, <1>3, <1>4, <1>5, StepKinds

LEMMA AppChange ==
  ASSUME Queues, AppInv, [Next]_vars
  PROVE  AppInv' /\ api' = api /\ (Report \/ ~app'.running \/ GoesOn)
<1>1. IsApp(app, app.running, app.loc, app.fix, app.reported, app.queued, app.todo)
      /\ app.queued \subseteq {<<"time", t>> : t \in 0..MaxClock}
      /\ (app.running \/ (app.loc = <<>> /\ app.todo = <<>>))
      /\ api \in {"threaded", "asyncio"}
  BY DEF AppInv, Queues
<1>2. CASE Locate
  <2>1. PICK fix \in Fixes :
          app' = IF location_from_nmea(fix) # <<>>
                 THEN [app EXCEPT !.loc = location_from_nmea(fix), !.fix = fix]
                 ELSE IF api = "threaded" THEN [app EXCEPT !.loc = <<DefaultLocation>>]
                 ELSE Stopped
    BY <1>2 DEF Locate
  <2>2. app.running /\ app.loc = <<>> /\ (api = "threaded" \/ app.queued = {}) /\ UNCHANGED api
    BY <1>2 DEF Locate, Turn, Due
  <2>3. CASE app' = Stopped
    BY <2>2, <2>3, StopIs
  <2>4. CASE app' # Stopped
    <3>1. PICK loc : \E f : app' = [app EXCEPT !.loc = loc, !.fix = f]
                            \/ app' = [app EXCEPT !.loc = loc]
      BY <2>1, <2>4
    <3>2. PICK f : IsApp(app', app.running, loc, f, app.reported, app.queued, app.todo)
      BY <1>1, <3>1 DEF IsApp
    <3>3. AppNext(app.running, loc, app.queued, app.todo)
      BY <3>2 DEF AppNext
    <3>4. QED
      BY <1>1, <2>2, <3>3, AppNextIs DEF GoesOn
  <2>5. QED
    BY <2>3, <2>4
<1>3. CASE GnssTimeout
  <2>1. /\ app.running /\ (api = "threaded" \/ app.queued = {}) /\ UNCHANGED api
        /\ app' = IF api = "threaded" THEN [app EXCEPT !.loc = <<DefaultLocation>>]
                  ELSE [app EXCEPT !.reported = TRUE]
    BY <1>3 DEF GnssTimeout, Turn, Due
  <2>2. PICK loc, reported : IsApp(app', app.running, loc, app.fix, reported, app.queued, app.todo)
    BY <1>1, <2>1 DEF IsApp
  <2>3. AppNext(app.running, loc, app.queued, app.todo)
    BY <2>2 DEF AppNext
  <2>4. QED
    BY <1>1, <2>1, <2>3, AppNextIs DEF GoesOn
<1>4. CASE PollMo
  <2>1. /\ app.running /\ app.loc = <<>> /\ UNCHANGED <<api, mo>>
        /\ \/ \E done : api = "threaded" /\ app' = [app EXCEPT !.queued = @ \ done]
           \/ mo = <<>> /\ app' = [app EXCEPT !.queued = {}]
           \/ app' = app
           \/ app' = Stopped
    BY <1>4 DEF PollMo, Poll, Turn, NoneLeft, queues
  <2>2. CASE app' = Stopped
    BY <2>1, <2>2, StopIs
  <2>3. CASE app' # Stopped
    <3>1. PICK queued : /\ queued \subseteq app.queued
                        /\ queued = app.queued \/ api = "threaded" \/ mo = <<>>
                        /\ IsApp(app', app.running, app.loc, app.fix, app.reported, queued, app.todo)
      <4>1. CASE \E done : api = "threaded" /\ app' = [app EXCEPT !.queued = @ \ done]
        <5>1. PICK done : api = "threaded" /\ app' = [app EXCEPT !.queued = @ \ done]
          BY <4>1
        <5>2. IsApp(app', app.running, app.loc, app.fix, app.reported, app.queued \ done, app.todo)
          BY <1>1, <5>1 DEF IsApp
        <5>3. QED
          BY <5>1, <5>2
      <4>2. CASE mo = <<>> /\ app' = [app EXCEPT !.queued = {}]
        <5>1. IsApp(app', app.running, app.loc, app.fix, app.reported, {}, app.todo)
          BY <1>1, <4>2 DEF IsApp
        <5>2. QED
          BY <4>2, <5>1
      <4>3. CASE app' = app
        <5>1. IsApp(app', app.running, app.loc, app.fix, app.reported, app.queued, app.todo)
          BY <1>1, <4>3 DEF IsApp
        <5>2. QED
          BY <5>1
      <4>4. QED
        BY <2>1, <2>3, <4>1, <4>2, <4>3
    <3>2. AppNext(app.running, app.loc, queued, app.todo)
      BY <3>1 DEF AppNext
    <3>3. queued \subseteq {<<"time", t>> : t \in 0..MaxClock}
      BY <1>1, <3>1
    <3>4. /\ AppInv' /\ app'.running = app.running /\ app'.loc = app.loc /\ app'.queued = queued
      BY <1>1, <3>2, <3>3, AppNextIs
    <3>5. QED
      BY <2>1, <3>1, <3>4 DEF GoesOn
  <2>4. QED
    BY <2>2, <2>3
<1>5. CASE PollMt \/ Command
  <2>1. /\ app.running /\ UNCHANGED api
        /\ (\E todo : app' = [app EXCEPT !.todo = todo]) \/ app' = Stopped
    BY <1>5 DEF PollMt, Command, Poll, Turn
  <2>2. CASE app' = Stopped
    BY <2>1, <2>2, StopIs
  <2>3. CASE app' # Stopped
    <3>1. PICK todo : app' = [app EXCEPT !.todo = todo]
      BY <2>1, <2>3
    <3>2. IsApp(app', app.running, app.loc, app.fix, app.reported, app.queued, todo)
      BY <1>1, <3>1 DEF IsApp
    <3>3. AppNext(app.running, app.loc, app.queued, todo)
      BY <3>2 DEF AppNext
    <3>4. QED
      BY <1>1, <2>1, <3>3, AppNextIs DEF GoesOn
  <2>4. QED
    BY <2>2, <2>3
<1>6. CASE Report
  <2>1. UNCHANGED api
    BY <1>6, Zenon DEF Report, MoSend
  <2>2. QED
    BY <1>6, <2>1, ReportDoes
<1>7. CASE UNCHANGED app
  <2>1. AppInv' /\ (~app'.running \/ GoesOn)
    BY <1>1, <1>7 DEF AppInv, IsApp, GoesOn
  <2>2. QED
    BY <2>1, NextApi
<1>8. QED
  BY <1>2, <1>3, <1>4, <1>5, <1>6, <1>7 DEF Next, Steps, vars

(* What a step does to the open reports.                                   *)
LEMMA ReportsKept ==
  ASSUME Queues, MoKept
  PROVE  \E f : \A j \in DOMAIN mo' :
            /\ f[j] \in DOMAIN mo /\ (OpenReport(mo'[j]) => OpenReport(mo[f[j]]))
            /\ \A k \in DOMAIN mo' : f[j] = f[k] => j = k
<1>1. PICK f : DerivedBy(f, mo', mo)
  BY DEF MoKept, Derived
<1>2. DOMAIN mo' = 1..Len(mo') /\ DOMAIN mo = 1..Len(mo)
  BY DEF MoKept, Queues
<1>3. \A j \in DOMAIN mo' :
        /\ f[j] \in DOMAIN mo /\ (OpenReport(mo'[j]) => OpenReport(mo[f[j]]))
        /\ \A k \in DOMAIN mo' : f[j] = f[k] => j = k
  BY <1>1, <1>2 DEF DerivedBy, Later, OpenReport
<1>4. QED
  BY <1>3

LEMMA ReportStep ==
  ASSUME Queues, AppInv, ReportInv, [Next]_vars PROVE ReportInv'
<1> SUFFICES ASSUME api' = "asyncio"
             PROVE  /\ \A i, j \in DOMAIN mo' : OpenReport(mo'[i]) /\ OpenReport(mo'[j]) => i = j
                    /\ app'.running /\ app'.queued = {} => \A i \in DOMAIN mo' : ~OpenReport(mo'[i])
                    /\ app'.running /\ app'.loc # <<>> => app'.queued = {}
  BY DEF ReportInv, OpenReport
<1>1. /\ api = "asyncio" /\ (Report \/ ~app'.running \/ GoesOn) /\ MoChange
      /\ \A i, j \in DOMAIN mo : OpenReport(mo[i]) /\ OpenReport(mo[j]) => i = j
      /\ app.running /\ app.queued = {} => \A i \in DOMAIN mo : ~OpenReport(mo[i])
      /\ app.running /\ app.loc # <<>> => app.queued = {}
  BY AppChange, NextTyped DEF ReportInv
(* The reports of the queue are those it had, as long as it sends none.    *)
<1>2. ASSUME MoKept \/ \E m : Added(m) /\ m.body.kind = "other"
      PROVE  /\ \A i, j \in DOMAIN mo' : OpenReport(mo'[i]) /\ OpenReport(mo'[j]) => i = j
             /\ (\A i \in DOMAIN mo : ~OpenReport(mo[i])) => \A i \in DOMAIN mo' : ~OpenReport(mo'[i])
  <2>1. CASE MoKept
    BY <1>1, <2>1, ReportsKept
  <2>2. ASSUME NEW m, Added(m), m.body.kind = "other"
        PROVE  \A j \in DOMAIN mo' : OpenReport(mo'[j]) => j \in DOMAIN mo /\ OpenReport(mo[j])
    <3>1. mo \in Seq(MoMessages) /\ m \in MoMessages /\ mo' = Append(mo, m)
      BY <2>2 DEF Queues, Added
    <3>2. ASSUME NEW j \in DOMAIN mo' PROVE (j \in DOMAIN mo /\ mo'[j] = mo[j]) \/ mo'[j] = m
      BY <3>1
    <3>3. QED
      BY <2>2, <3>2 DEF OpenReport
  <2>3. QED
    BY <1>1, <1>2, <2>1, <2>2
<1>3. CASE Report
  <2>1. /\ app.running /\ app.loc # <<>>
        /\ ~app'.running \/ (app'.loc = <<>> /\ app'.queued # {})
    BY <1>3, ReportDoes
  <2>2. \A i \in DOMAIN mo : ~OpenReport(mo[i])
    BY <1>1, <2>1
  <2>3. \A i, j \in DOMAIN mo' : OpenReport(mo'[i]) /\ OpenReport(mo'[j]) => i = j
    <3>1. CASE MoKept
      BY <1>2, <3>1
    <3>2. ASSUME NEW m, Added(m)
          PROVE  \A i, j \in DOMAIN mo' : OpenReport(mo'[i]) /\ OpenReport(mo'[j]) => i = j
      <4>1. mo \in Seq(MoMessages) /\ m \in MoMessages /\ mo' = Append(mo, m)
        BY <3>2 DEF Queues, Added
      <4>2. \A j \in DOMAIN mo' : (j \in DOMAIN mo /\ mo'[j] = mo[j]) \/ j = Len(mo) + 1
        BY <4>1
      <4>3. QED
        BY <2>2, <4>2
    <3>3. QED
      BY <1>1, <3>1, <3>2 DEF MoChange
  <2>4. QED
    BY <2>1, <2>3
<1>4. CASE ~Report
  <2>1. MoKept \/ \E m : Added(m) /\ m.body.kind = "other"
    BY <1>1, <1>4 DEF MoChange
  <2>2. CASE ~app'.running
    BY <1>2, <2>1, <2>2
  <2>3. CASE GoesOn
    <3>1. /\ app.running /\ (app'.queued = app.queued \/ mo' = <<>>)
          /\ app'.loc = app.loc \/ app'.loc = <<>> \/ app'.queued = {}
      BY <1>1, <2>3 DEF GoesOn
    <3>2. app'.queued = {} => \A i \in DOMAIN mo' : ~OpenReport(mo'[i])
      BY <1>1, <1>2, <2>1, <3>1
    <3>3. app'.loc # <<>> => app'.queued = {}
      BY <1>1, <2>3 DEF GoesOn
    <3>4. QED
      BY <1>2, <2>1, <3>2, <3>3
  <2>4. QED
    BY <1>1, <1>4, <2>2, <2>3
<1>5. QED
  BY <1>3, <1>4

LEMMA AtMostOne ==
  ASSUME Queues, ReportInv PROVE OneReportPending
<1> SUFFICES ASSUME api = "asyncio"
             PROVE  Cardinality({i \in DOMAIN mo : mo[i].body.kind = "report" /\ Open(mo[i].state)}) <= 1
  BY DEF OneReportPending
<1> DEFINE R == {i \in DOMAIN mo : mo[i].body.kind = "report" /\ Open(mo[i].state)}
<1>1. \A i, j \in R : i = j
  BY DEF ReportInv, OpenReport
<1>2. CASE R = {}
  BY <1>2, FS_EmptySet
<1>3. CASE R # {}
  <2> HIDE DEF R
  <2>1. PICK i : i \in R
    BY <1>3
  <2>2. R = {i}
    BY <1>1, <2>1
  <2>3. Cardinality({i}) = 1
    BY FS_Singleton
  <2>4. Cardinality(R) <= 1
    BY <2>2, <2>3
  <2>5. QED
    BY <2>4 DEF R
<1>4. QED
  BY <1>2, <1>3

-------------------------------------------------------------------------------
(***************************************************************************)
(* The report: nine numbers, and the two bytes before them.                *)
(***************************************************************************)

LEMMA ReportFieldsAre ==
  /\ DOMAIN ReportFields = 1..9
  /\ \A i \in 1..9 : /\ ReportFields[i].type \in {"uint", "int"}
                     /\ ReportFields[i].optional = FALSE /\ ReportFields[i].default = None
                     /\ ReportFields[i].size = <<31, 24, 25, 13, 8, 9, 4, 5, 9>>[i]
                     /\ ReportFields[i].size \in 1..31
<1>1. DOMAIN ReportFields = 1..9
  BY DEF ReportFields
<1>2. /\ ReportFields[1] = Integer("uint", 31) /\ ReportFields[2] = Integer("int", 24)
      /\ ReportFields[3] = Integer("int", 25) /\ ReportFields[4] = Integer("int", 13)
      /\ ReportFields[5] = Integer("uint", 8) /\ ReportFields[6] = Integer("uint", 9)
      /\ ReportFields[7] = Integer("uint", 4) /\ ReportFields[8] = Integer("uint", 5)
      /\ ReportFields[9] = Integer("uint", 9)
  BY DEF ReportFields
<1>3. \A type, size : /\ Integer(type, size).type = type /\ Integer(type, size).size = size
                      /\ Integer(type, size).optional = FALSE /\ Integer(type, size).default = None
  BY DEF Integer
<1>4. \A i \in 1..9 : i = 1 \/ i = 2 \/ i = 3 \/ i = 4 \/ i = 5 \/ i = 6 \/ i = 7 \/ i = 8 \/ i = 9
  OBVIOUS
<1> DEFINE sizes == <<31, 24, 25, 13, 8, 9, 4, 5, 9>>
<1>5. /\ sizes[1] = 31 /\ sizes[2] = 24 /\ sizes[3] = 25 /\ sizes[4] = 13 /\ sizes[5] = 8
      /\ sizes[6] = 9 /\ sizes[7] = 4 /\ sizes[8] = 5 /\ sizes[9] = 9
  OBVIOUS
<1>6. \A i \in 1..9 : sizes[i] \in 1..31
  <2> HIDE DEF sizes
  <2>1. QED
    BY <1>4, <1>5
<1> HIDE DEF sizes
<1>7. ASSUME NEW i \in 1..9
      PROVE  \E type \in {"uint", "int"} : ReportFields[i] = Integer(type, sizes[i])
  BY <1>2, <1>4, <1>5
<1>8. QED
  BY <1>1, <1>3, <1>6, <1>7 DEF sizes

(* Values of a report that fit.                                            *)
Fitting(report) ==
    /\ report = [i \in 1..9 |-> <<report[i][1]>>]
    /\ \A i \in 1..9 : Fits(ReportFields[i], report[i][1])

LEMMA ReportOfIs == \A loc, snr : ReportOf(loc, snr) = [i \in 1..9 |-> <<ReportOf(loc, snr)[i][1]>>]
<1> SUFFICES ASSUME NEW loc, NEW snr
             PROVE  ReportOf(loc, snr) = [i \in 1..9 |-> <<ReportOf(loc, snr)[i][1]>>]
  OBVIOUS
<1> DEFINE r == ReportOf(loc, snr)
           lat == Position(loc.latitude)
           lon == Position(loc.longitude)
           speed == Truncated(loc.speed * 1852, 10000)
<1>1. r = << <<loc.timestamp>>, <<lat>>, <<lon>>, <<loc.altitude>>, <<speed>>, <<loc.heading>>,
             <<loc.satellites>>, <<loc.pdop>>, <<snr>> >>
  BY Zenon DEF ReportOf
<1> HIDE DEF r, lat, lon, speed
<1>2. DOMAIN r = 1..9 /\ r = [i \in 1..9 |-> r[i]]
  BY <1>1
<1>3. /\ r[1] = <<loc.timestamp>> /\ r[2] = <<lat>> /\ r[3] = <<lon>> /\ r[4] = <<loc.altitude>>
      /\ r[5] = <<speed>> /\ r[6] = <<loc.heading>> /\ r[7] = <<loc.satellites>>
      /\ r[8] = <<loc.pdop>> /\ r[9] = <<snr>>
  BY <1>1
<1>4. \A i \in 1..9 : i = 1 \/ i = 2 \/ i = 3 \/ i = 4 \/ i = 5 \/ i = 6 \/ i = 7 \/ i = 8 \/ i = 9
  OBVIOUS
<1>5. \A i \in 1..9 : r[i] = <<r[i][1]>>
  BY <1>3, <1>4
<1>6. r = [i \in 1..9 |-> <<r[i][1]>>]
  BY <1>2, <1>5
<1>7. QED
  BY <1>6 DEF r

LEMMA SumOfSizes ==
  ASSUME NEW f, NEW base \in Nat, f[0] = base,
         \A i \in 1..9 : f[i] = f[i - 1] + <<31, 24, 25, 13, 8, 9, 4, 5, 9>>[i]
  PROVE  f[9] = base + 128
<1> DEFINE sizes == <<31, 24, 25, 13, 8, 9, 4, 5, 9>>
<1>1. /\ sizes[1] = 31 /\ sizes[2] = 24 /\ sizes[3] = 25 /\ sizes[4] = 13 /\ sizes[5] = 8
      /\ sizes[6] = 9 /\ sizes[7] = 4 /\ sizes[8] = 5 /\ sizes[9] = 9
  OBVIOUS
<1>2. \A i \in 1..9 : f[i] = f[i - 1] + sizes[i]
  OBVIOUS
<1> HIDE DEF sizes
<1>3. f[1] = base + 31 /\ f[2] = f[1] + 24 /\ f[3] = f[2] + 25 /\ f[4] = f[3] + 13 /\ f[5] = f[4] + 8
  BY <1>1, <1>2
<1>4. f[6] = f[5] + 9 /\ f[7] = f[6] + 4 /\ f[8] = f[7] + 5 /\ f[9] = f[8] + 9
  BY <1>1, <1>2
<1>5. QED
  BY <1>3, <1>4

(* A report that fits is encoded, read as it was, and takes 17 bytes.      *)
ReportRead(report, bits) ==
    /\ Decode(ReportFields, NewMessage(ReportFields), bits).ok = TRUE
    /\ Decode(ReportFields, NewMessage(ReportFields), bits).msg = report
    /\ Len(bits) = 8 * 17
    /\ ota_size(ReportFields, report) = 18

LEMMA ReportTrip ==
  ASSUME NEW report, Fitting(report)
  PROVE  \E bits : Encode(ReportFields, report, {}, FALSE) = <<bits>> /\ ReportRead(report, bits)
<1> DEFINE sizes == <<31, 24, 25, 13, 8, 9, 4, 5, 9>>
           before == NewMessage(ReportFields)
           Good(i, b) == /\ EncodeField(ReportFields[i], report[i]) = <<b>> /\ Len(b) = sizes[i]
                         /\ Reaches(ReportFields[i], b, before[i], report[i])
           part == [i \in 1..9 |-> CHOOSE b : Good(i, b)]
<1>1. /\ DOMAIN ReportFields = 1..9 /\ 9 \in Nat
      /\ \A i \in 1..9 : /\ ReportFields[i].type \in {"uint", "int"}
                         /\ ReportFields[i].optional = FALSE /\ ReportFields[i].default = None
                         /\ ReportFields[i].size = sizes[i]
                         /\ ReportFields[i].size \in 1..31
  BY ReportFieldsAre
<1> HIDE DEF sizes
<1>2. report = [i \in 1..9 |-> report[i]] /\ DOMAIN report = 1..9
      /\ \A i \in 1..9 : report[i] = <<report[i][1]>> /\ Fits(ReportFields[i], report[i][1])
  BY DEF Fitting
<1>3. ASSUME NEW i \in 1..9 PROVE Good(i, part[i])
  <2>1. PICK b : /\ GetsTo(ReportFields[i], <<report[i][1]>>, before[i], b, <<report[i][1]>>)
                 /\ Len(b) = ReportFields[i].size
    <3> HIDE DEF before
    <3>1. /\ NumberField(ReportFields[i])
          /\ Fits(ReportFields[i], report[i][1])
      BY <1>1, <1>2 DEF NumberField
    <3>2. QED
      BY <3>1, NumberTrip, Zenon
  <2>2. Good(i, b)
    <3> HIDE DEF before
    <3>1. QED
      BY <1>1, <1>2, <2>1 DEF GetsTo
  <2> HIDE DEF Good
  <2>3. Good(i, CHOOSE c : Good(i, c))
    BY <2>2
  <2>4. QED
    BY <2>3
<1> HIDE DEF part, before
<1>4. \A i \in 1..9 : part[i] \in Digits
  BY <1>3 DEF Reaches
<1>5. PICK cat : Joined(cat, part, 9)
  BY <1>1, <1>4, JoinedExists, Zenon
<1>6. Together(cat, part, 9) /\ \A i \in 0..9 : cat[i] \in Digits
  BY <1>5 DEF Joined
<1>7. Len(cat[9]) = 128 /\ cat[9] \in Digits
  <2> DEFINE l == [i \in 0..9 |-> Len(cat[i])]
  <2>1. l[0] = 0
    BY <1>6 DEF Together
  <2>2. ASSUME NEW i \in 1..9 PROVE l[i] = l[i - 1] + sizes[i]
    <3>1. cat[i] = cat[i - 1] \o part[i] /\ cat[i - 1] \in Digits /\ part[i] \in Digits
      <4>1. i - 1 \in 0..9
        OBVIOUS
      <4>2. QED
        BY <1>4, <1>6, <4>1 DEF Together
    <3>2. Len(cat[i]) = Len(cat[i - 1]) + Len(part[i])
      BY <3>1, DigitsPair, Zenon
    <3>3. Len(part[i]) = sizes[i]
      BY <1>3
    <3>4. l[i] = Len(cat[i]) /\ l[i - 1] = Len(cat[i - 1])
      OBVIOUS
    <3>5. QED
      BY <3>2, <3>3, <3>4
  <2>3. l[9] = Len(cat[9])
    OBVIOUS
  <2> HIDE DEF l
  <2>4. l[9] = 0 + 128
    BY <2>1, <2>2, SumOfSizes DEF sizes, Sizing
  <2>5. QED
    BY <1>6, <2>3, <2>4
<1> DEFINE bits == Padded(cat[9])
<1>8. Len(bits) = 8 * 17
  <2>1. Len(Padded(cat[9])) = Len(cat[9]) + (8 - (Len(cat[9]) % 8))
    BY <1>7, PaddedIs, Zenon
  <2>2. QED
    BY <1>7, <2>1
<1> HIDE DEF bits
<1>9. Encode(ReportFields, report, {}, FALSE) = <<bits>>
  <2>1. ASSUME NEW i \in 1..9
        PROVE  part[i] \in Digits /\ PartIs(ReportFields, report, {}, i, part[i])
    <3>1. Included(ReportFields, report, {}, i) /\ Marked(ReportFields[i], part[i]) = part[i]
      BY <1>1 DEF Included, Marked
    <3>2. QED
      BY <1>3, <1>4, <3>1 DEF PartIs
  <2>2. \A i \in 1..9 : ReportFields[i].optional \in BOOLEAN
    BY <1>1
  <2> DEFINE forward == FALSE
             n == 9
  <2>3. /\ forward \in BOOLEAN /\ n \in Nat /\ DOMAIN ReportFields = 1..n
        /\ \A i \in 1..n : ReportFields[i].optional \in BOOLEAN
        /\ \A i \in 1..n : part[i] \in Digits /\ PartIs(ReportFields, report, {}, i, part[i])
        /\ (\A i \in 0..n : cat[i] \in Digits) /\ Together(cat, part, n)
    BY <1>1, <1>6, <2>1, <2>2
  <2> HIDE DEF forward, n
  <2>4. Encode(ReportFields, report, {}, forward) =
            IF Len(Padded(cat[n])) \div 8 > (IF forward THEN MaxForward ELSE MaxReturn) THEN Raises
            ELSE <<Padded(cat[n])>>
    BY <2>3, EncodeIs
  <2>5. ~ (Len(bits) \div 8 > MaxReturn)
    BY <1>8, RoomForReport
  <2>6. QED
    BY <2>4, <2>5 DEF bits, forward, n
<1>10. PICK read : /\ Decodes(ReportFields, before, bits, read)
                   /\ Same(ReportFields, report, before,
                           {i \in DOMAIN ReportFields : Included(ReportFields, report, {}, i)}, read)
  <2>1. DOMAIN before = 1..9 /\ before = [i \in 1..9 |-> before[i]]
    BY <1>1 DEF before, NewMessage
  <2>2. \A i \in 1..9 : Trip(ReportFields[i], report[i], before[i])
    BY <1>3, Zenon DEF Trip
  <2>3. \A i \in 1..9 : ReportFields[i].optional \in BOOLEAN
    BY <1>1
  <2>4. FALSE \in BOOLEAN
    OBVIOUS
  <2>5. QED
    BY <1>1, <1>9, <2>1, <2>2, <2>3, <2>4, MessageArrives, Zenon
<1>11. read = report
  <2>1. read = [i \in 1..9 |-> read[i]]
    BY <1>1, <1>10 DEF Same
  <2>2. ASSUME NEW i \in 1..9 PROVE read[i] = report[i]
    <3>1. i \in {j \in DOMAIN ReportFields : Included(ReportFields, report, {}, j)}
      BY <1>1 DEF Included
    <3>2. Value(ReportFields[i], read[i]) = Value(ReportFields[i], report[i])
      BY <1>1, <1>10, <3>1 DEF Same
    <3>3. QED
      BY <1>1, <3>2 DEF Value
  <2>3. QED
    BY <1>2, <2>1, <2>2
<1>12. Decode(ReportFields, before, bits).ok = TRUE /\ Decode(ReportFields, before, bits).msg = report
  BY <1>10, <1>11 DEF Decodes
<1>13. ota_size(ReportFields, report) = 18
  <2>1. \A i \in 1..9 : Bits(ReportFields[i], report[i]) = sizes[i] /\ sizes[i] \in Nat
    <3>1. ASSUME NEW i \in 1..9 PROVE Bits(ReportFields[i], report[i]) = ReportFields[i].size
      <4>1. Bits(ReportFields[i], report[i]) = NumberBits(ReportFields[i], report[i])
        BY <1>1 DEF Bits, ScalarBits
      <4>2. report[i] # None
        BY <1>2 DEF None
      <4>3. ReportFields[i].size \in Nat
        BY <1>1
      <4>4. QED
        BY <1>1, <4>1, <4>2, <4>3 DEF NumberBits, OptionalBit
    <3>2. QED
      BY <1>1, <3>1
  <2>2. PICK f : Sizing(f, 9, ReportFields, report)
    <3>1. \A i \in 1..9 : Bits(ReportFields[i], report[i]) \in Nat
      BY <2>1
    <3>2. QED
      BY <1>1, <3>1, SizeUnfolds, Zenon
  <2>3. f[9] = 16 + 128
    BY <2>1, <2>2, SumOfSizes DEF sizes, Sizing
  <2>4. QED
    BY <2>2, <2>3 DEF Sizing
<1>14. QED
  BY <1>8, <1>9, <1>12, <1>13, Zenon DEF ReportRead, before

-------------------------------------------------------------------------------
(***************************************************************************)
(* What the application reads and reports.                                 *)
(***************************************************************************)
Telling == {"located", "report", "got", "crc"}

LEMMA OperationTells ==
  ASSUME Queues, NEW c \in Clients, Operation(c)
  PROVE  ret'.kind \notin Telling
<1>1. Idle.kind \notin Telling /\ Raised.kind \notin Telling /\ \A ok : Done(ok).kind \notin Telling
  BY DEF Idle, Raised, Done, Telling
<1>2. CASE MoClear(c) \/ MoClearNext(c) \/ MoDelete(c)
  <2>1. ret' \in {Idle, Raised}
    BY <1>2, Zenon DEF MoClear, MoClearNext, MoDelete, Goes, Returns, Throws
  <2>2. QED
    BY <1>1, <2>1
<1>3. CASE MoClearEnds(c)
  <2>1. busy[c] \in Clearings
    BY <1>3 DEF Queues, Operations, MoClearEnds, Continues, Idle, Deletions, Controls
  <2>2. ret'.kind = "cleared"
    BY <1>3, <2>1 DEF MoClearEnds, Returns, queues, Clearings
  <2>3. QED
    BY <2>2 DEF Telling
<1>4. CASE MoDeleteNext(c)
  <2>1. ret' = Idle \/ ret' = Raised \/ ret' = [kind |-> "deleted", count |-> -1]
    BY <1>4, Zenon DEF MoDeleteNext, Goes, Returns, Throws
  <2>2. QED
    BY <1>1, <2>1 DEF Telling
<1>5. ASSUME NEW i \in DOMAIN mo, MoCancel(c, mo[i].name) PROVE ret'.kind \notin Telling
  BY <1>1, <1>5 DEF MoCancel, Returns, Throws
<1>6. ASSUME NEW i \in DOMAIN mt, MtDelete(c, mt[i].name) PROVE ret'.kind \notin Telling
  BY <1>1, <1>6 DEF MtDelete, Returns, Throws
<1>7. ASSUME NEW events \in SUBSET Events, MonitorSet(c, events) PROVE ret'.kind \notin Telling
  BY <1>1, <1>7 DEF MonitorSet, Returns, Throws
<1>8. ASSUME NEW map \in Maps, ControlSet(c, map) PROVE ret'.kind \notin Telling
  BY <1>1, <1>8, Zenon DEF ControlSet, Returns, Throws
<1>9. CASE ControlWrite(c)
  <2>1. busy[c] \in Controls
    BY <1>9 DEF Queues, Operations, ControlWrite, Continues, Idle, Clearings, Deletions
  <2>2. ret' = [busy[c] EXCEPT !.kind = "written"] \/ ret' = Raised
    BY <1>9, Zenon DEF ControlWrite, Returns, Throws
  <2>3. [busy[c] EXCEPT !.kind = "written"].kind = "written"
    BY <2>1 DEF Controls
  <2>4. QED
    BY <1>1, <2>2, <2>3 DEF Telling
<1>10. QED
  BY <1>2, <1>3, <1>4, <1>5, <1>6, <1>7, <1>8, <1>9 DEF Operation

(* A report is a fact about what was submitted.                            *)
Reported(result) ==
    \E snr : result = [kind |-> "report", name |-> Name(Unnamed), loc |-> app.loc[1], snr |-> snr,
                       fix |-> app.fix,
                       bits |-> Encode(ReportFields, ReportOf(app.loc[1], snr), {}, FALSE)[1]]

LEMMA TellingSteps ==
  ASSUME Queues, [Next]_vars
  PROVE  ret' = ret \/ ret'.kind \notin Telling \/ Locate \/ (Report /\ Reported(ret'))
         \/ \E i \in DOMAIN mt : MtGet(mt[i].name)
<1>1. CASE UNCHANGED vars
  BY <1>1 DEF vars, mailbox
<1>2. Idle.kind \notin Telling /\ Raised.kind \notin Telling
  BY DEF Idle, Raised, Telling
<1>3. CASE Report
  <2>1. PICK snr : MoSend(App, Unnamed, [kind |-> "report"],
                          [kind |-> "report", name |-> Name(Unnamed), loc |-> app.loc[1], snr |-> snr,
                           fix |-> app.fix,
                           bits |-> Encode(ReportFields, ReportOf(app.loc[1], snr), {}, FALSE)[1]])
    BY <1>3, Zenon DEF Report
  <2> DEFINE result == [kind |-> "report", name |-> Name(Unnamed), loc |-> app.loc[1], snr |-> snr,
                        fix |-> app.fix,
                        bits |-> Encode(ReportFields, ReportOf(app.loc[1], snr), {}, FALSE)[1]]
  <2>2. Reported(result)
    BY Zenon DEF Reported
  <2>3. MoSend(App, Unnamed, [kind |-> "report"], result)
    BY <2>1, Zenon
  <2> HIDE DEF result
  <2>4. ret' = result \/ ret' = Raised
    BY <2>3 DEF MoSend, Returns, Throws
  <2>5. QED
    BY <1>2, <1>3, <2>2, <2>4
<1>4. CASE Steps /\ ~Locate /\ ~Report
  <2>1. ret' = Idle
    BY <1>4, Zenon DEF Steps, GnssTimeout, PollMo, PollMt, Poll, Command
  <2>2. QED
    BY <1>2, <2>1
<1>5. CASE Environment
  BY <1>2, <1>5 DEF Environment, Transmit, Forget, Tick
<1>6. ASSUME NEW c \in Clients, Operation(c) PROVE ret'.kind \notin Telling
  BY <1>6, OperationTells
<1>7. ASSUME NEW c \in Clients, NEW g, MoSend(c, g, [kind |-> "other"], [kind |-> "name"])
      PROVE  ret'.kind \notin Telling
  <2>1. ret' = [kind |-> "name"] \/ ret' = Raised
    BY <1>7, Zenon DEF MoSend, Returns, Throws
  <2>2. QED
    BY <1>2, <2>1 DEF Telling
<1>8. CASE ArriveEncoded \/ ArriveCommand
  <2>1. ret' = Idle
    BY <1>8, Zenon DEF ArriveEncoded, ArriveCommand, Arrive
  <2>2. QED
    BY <1>2, <2>1
<1>9. QED
  BY <1>1, <1>3, <1>4, <1>5, <1>6, <1>7, <1>8 DEF Next, Steps

-------------------------------------------------------------------------------
(* A fix is kept with the location it gave.                                *)
FixOf(fix, loc) == fix = <<>> \/ (fix \in Fixes /\ loc = location_from_nmea(fix))

FixInv ==
    IF app.loc = <<>> THEN app.fix = <<>>
    ELSE app.loc = <<app.loc[1]>> /\ FixOf(app.fix, app.loc)

LocatedInv ==
    ret.kind = "located" => ret.fix \in Fixes /\ ret.loc = location_from_nmea(ret.fix)

ReportedInv ==
    ret.kind = "report" =>
        /\ FixOf(ret.fix, <<ret.loc>>)
        /\ ret.bits = Encode(ReportFields, ReportOf(ret.loc, ret.snr), {}, FALSE)[1]

LEMMA LocationShape ==
  ASSUME NEW fix \in Fixes, location_from_nmea(fix) # <<>>
  PROVE  location_from_nmea(fix) = <<location_from_nmea(fix)[1]>>
         /\ Locates(fix, DOMAIN fix, location_from_nmea(fix)[1])
         /\ \A i \in DOMAIN fix : ~Rejected(fix[i])
<1> DEFINE x == location_from_nmea(fix)
           n == Len(fix)
           id == [i \in 1..n |-> i]
<1>1. Coherent(fix)
  BY FixesAssumption
<1>2. n \in Nat /\ DOMAIN fix = 1..n /\ fix = [i \in 1..n |-> fix[i]]
  <2>1. fix \in Seq({fix[i] : i \in DOMAIN fix})
    BY <1>1, CoherentTypes DEF IsSequence
  <2>2. QED
    BY <2>1
<1> HIDE DEF n
<1>3. (\A j \in 1..n : id[j] \in 1..n /\ id[j] = j) /\ {id[j] : j \in 1..n} = 1..n
  OBVIOUS
<1>4. fix = [i \in 1..n |-> fix[id[i]]]
  BY <1>2
<1> HIDE DEF id, x
<1>5. Reads(fix, id, n, x)
  <2>1. Reads(fix, id, n, location_from_nmea([i \in 1..n |-> fix[id[i]]]))
    BY <1>1, <1>2, <1>3, Located
  <2>2. QED
    BY <1>4, <2>1, Zenon DEF x
<1>6. x # <<>>
  BY DEF x
<1>7. ~(\E j \in 1..n : Rejected(fix[id[j]]))
  BY <1>5, <1>6 DEF Reads
<1>8. PICK loc : x = <<loc>> /\ Locates(fix, 1..n, loc)
  BY <1>3, <1>5, <1>7 DEF Reads
<1>9. x = <<x[1]>> /\ x[1] = loc
  BY <1>8
<1>10. QED
  BY <1>2, <1>3, <1>7, <1>8, <1>9 DEF x

LEMMA FixStep ==
  ASSUME Queues, AppInv, FixInv, [Next]_vars
  PROVE  FixInv'
<1>1. /\ IsApp(app, app.running, app.loc, app.fix, app.reported, app.queued, app.todo)
      /\ app.running \/ app.loc = <<>>
  BY DEF AppInv
<1>2. ASSUME app' = Stopped PROVE FixInv'
  <2>1. app'.loc = <<>> /\ app'.fix = <<>>
    BY <1>1, <1>2 DEF Stopped, IsApp
  <2>2. QED
    BY <2>1 DEF FixInv
<1>3. ASSUME app'.loc = app.loc, app'.fix = app.fix PROVE FixInv'
  BY <1>3 DEF FixInv, FixOf
<1>4. ASSUME app.loc = <<>>, app' = [app EXCEPT !.loc = <<DefaultLocation>>] PROVE FixInv'
  <2> DEFINE d == <<DefaultLocation>>
  <2>1. d # <<>> /\ d = <<d[1]>>
    OBVIOUS
  <2> HIDE DEF d
  <2>2. app'.loc = d /\ app'.fix = <<>>
    <3>1. app' = [app EXCEPT !.loc = d]
      BY <1>4 DEF d
    <3>2. QED
      BY <1>1, <1>4, <3>1 DEF FixInv, IsApp
  <2>3. QED
    BY <2>1, <2>2, Zenon DEF FixInv, FixOf
<1>5. CASE Locate
  <2>1. PICK fix \in Fixes :
          app' = IF location_from_nmea(fix) # <<>>
                 THEN [app EXCEPT !.loc = location_from_nmea(fix), !.fix = fix]
                 ELSE IF api = "threaded" THEN [app EXCEPT !.loc = <<DefaultLocation>>]
                 ELSE Stopped
    BY <1>5 DEF Locate
  <2>2. app.loc = <<>>
    BY <1>5 DEF Locate, Turn
  <2>3. CASE location_from_nmea(fix) # <<>>
    <3> DEFINE x == location_from_nmea(fix)
    <3>1. x = <<x[1]>> /\ x # <<>>
      BY <2>3, LocationShape
    <3>2. app' = [app EXCEPT !.loc = x, !.fix = fix]
      BY <2>1, <2>3
    <3> HIDE DEF x
    <3>3. app'.loc = x /\ app'.fix = fix
      BY <1>1, <3>2 DEF IsApp
    <3>4. QED
      BY <3>1, <3>3, Zenon DEF FixInv, FixOf, x
  <2>4. QED
    BY <1>2, <1>4, <2>1, <2>2, <2>3
<1>6. CASE GnssTimeout
  <2>1. /\ app.loc = <<>>
        /\ app' = IF api = "threaded" THEN [app EXCEPT !.loc = <<DefaultLocation>>]
                  ELSE [app EXCEPT !.reported = TRUE]
    BY <1>6 DEF GnssTimeout, Turn
  <2>2. CASE api = "threaded"
    BY <1>4, <2>1, <2>2
  <2>3. CASE api # "threaded"
    <3>1. app' = [app EXCEPT !.reported = TRUE]
      BY <2>1, <2>3
    <3>2. QED
      BY <1>1, <1>3, <3>1 DEF IsApp
  <2>4. QED
    BY <2>2, <2>3
<1>7. CASE Report
  <2>1. app' = Stopped \/ \E queued :
          app' = [app EXCEPT !.loc = <<>>, !.fix = <<>>, !.reported = TRUE, !.queued = queued]
    BY <1>7, Zenon DEF Report
  <2>2. CASE app' # Stopped
    <3>1. PICK queued :
            app' = [app EXCEPT !.loc = <<>>, !.fix = <<>>, !.reported = TRUE, !.queued = queued]
      BY <2>1, <2>2
    <3>2. IsApp(app', app.running, <<>>, <<>>, TRUE, queued, app.todo)
      BY <1>1, <3>1 DEF IsApp
    <3>3. app'.loc = <<>> /\ app'.fix = <<>>
      BY <3>2 DEF IsApp
    <3>4. QED
      BY <3>3 DEF FixInv
  <2>3. QED
    BY <1>2, <2>2
<1>8. CASE PollMo \/ PollMt \/ Command
  <2>1. \/ \E queued : app' = [app EXCEPT !.queued = queued]
        \/ \E todo : app' = [app EXCEPT !.todo = todo]
        \/ app' = app \/ app' = Stopped
    BY <1>8, Zenon DEF PollMo, PollMt, Command
  <2>2. ASSUME NEW queued, app' = [app EXCEPT !.queued = queued]
        PROVE  app'.loc = app.loc /\ app'.fix = app.fix
    BY <1>1, <2>2 DEF IsApp
  <2>3. ASSUME NEW todo, app' = [app EXCEPT !.todo = todo]
        PROVE  app'.loc = app.loc /\ app'.fix = app.fix
    BY <1>1, <2>3 DEF IsApp
  <2>4. QED
    BY <1>2, <1>3, <2>1, <2>2, <2>3
<1>9. CASE UNCHANGED app
  BY <1>3, <1>9
<1>10. QED
  BY <1>5, <1>6, <1>7, <1>8, <1>9 DEF Next, Steps, vars

LEMMA MtGetTells ==
  ASSUME NEW name, MtGet(name) PROVE ret'.kind \in {"got", "crc"}
<1>1. \/ \E read, after : ret' = [kind |-> "got", p |-> mt[Named(mt, name)].body.p,
                                 before |-> inbox[Payloads[mt[Named(mt, name)].body.p].schema],
                                 ok |-> after.ok,
                                 garbled |-> read # Line[mt[Named(mt, name)].body.p]]
      \/ \E garbled : ret' = [kind |-> "crc", garbled |-> garbled]
  BY Zenon DEF MtGet
<1>2. ASSUME NEW p, NEW before, NEW ok, NEW garbled,
             ret' = [kind |-> "got", p |-> p, before |-> before, ok |-> ok, garbled |-> garbled]
      PROVE  ret'.kind = "got"
  BY <1>2
<1>3. ASSUME NEW garbled, ret' = [kind |-> "crc", garbled |-> garbled]
      PROVE  ret'.kind = "crc"
  BY <1>3
<1>4. ret'.kind = "got" \/ ret'.kind = "crc"
  BY <1>1, <1>2, <1>3, Zenon
<1>5. QED
  BY <1>4

LEMMA ToldStep ==
  ASSUME Queues, FixInv, LocatedInv, ReportedInv, [Next]_vars
  PROVE  LocatedInv' /\ ReportedInv'
<1>1. CASE ret' = ret
  BY <1>1 DEF LocatedInv, ReportedInv, FixOf
<1>2. CASE ret'.kind \notin Telling
  BY <1>2 DEF LocatedInv, ReportedInv, Telling
<1>3. CASE Locate
  <2>1. PICK fix \in Fixes : ret' = [kind |-> "located", fix |-> fix, loc |-> location_from_nmea(fix)]
    BY <1>3 DEF Locate
  <2>2. ret'.kind = "located" /\ ret'.fix = fix /\ ret'.loc = location_from_nmea(fix)
    BY <2>1
  <2>3. QED
    BY <2>2 DEF LocatedInv, ReportedInv
<1>4. CASE Report /\ Reported(ret')
  <2>1. PICK snr : ret' = [kind |-> "report", name |-> Name(Unnamed), loc |-> app.loc[1], snr |-> snr,
                           fix |-> app.fix,
                           bits |-> Encode(ReportFields, ReportOf(app.loc[1], snr), {}, FALSE)[1]]
    BY <1>4, Zenon DEF Reported
  <2>2. /\ ret'.kind = "report" /\ ret'.loc = app.loc[1] /\ ret'.snr = snr /\ ret'.fix = app.fix
        /\ ret'.bits = Encode(ReportFields, ReportOf(app.loc[1], snr), {}, FALSE)[1]
    BY <2>1
  <2>3. app.loc = <<app.loc[1]>> /\ FixOf(app.fix, app.loc)
    BY <1>4 DEF Report, FixInv
  <2>4. LocatedInv'
    BY <2>2 DEF LocatedInv
  <2>5. ReportedInv'
    BY <2>2, <2>3, Zenon DEF ReportedInv, FixOf
  <2>6. QED
    BY <2>4, <2>5
<1>5. CASE \E i \in DOMAIN mt : MtGet(mt[i].name)
  BY <1>5, MtGetTells DEF LocatedInv, ReportedInv
<1>6. QED
  BY <1>1, <1>2, <1>3, <1>4, <1>5, TellingSteps

(* Positions: thousandths of a minute to 1/60000 degree, by way of         *)
(* millionths of a degree.                                                 *)
LEMMA PositionNear ==
  ASSUME NEW v \in Int, NEW h
  PROVE  Signed(v, h) - Position(Signed(Degrees(v), h)) \in -1..1
<1> DEFINE d == (100 * v + 3) \div 6
           q == (3 * d) \div 50
           r == (-(3 * d)) \div 50
<1>1. d \in Int /\ 6 * d <= 100 * v + 3 /\ 100 * v + 3 <= 6 * d + 5
  OBVIOUS
<1>2. Degrees(v) = d
  BY DEF Degrees
<1> HIDE DEF d
<1>3. q \in Int /\ 50 * q <= 3 * d /\ 3 * d <= 50 * q + 49
  BY <1>1
<1>4. r \in Int /\ 50 * r <= -(3 * d) /\ -(3 * d) <= 50 * r + 49
  BY <1>1
<1>5. Position(d) = IF 3 * d < 0 THEN -r ELSE q
  BY <1>1 DEF Position, Truncated
<1>6. Position(-d) = IF 3 * (-d) < 0 THEN -q ELSE r
  <2>1. 3 * (-d) = -(3 * d) /\ -(3 * (-d)) = 3 * d
    BY <1>1
  <2>2. QED
    BY <2>1 DEF Position, Truncated
<1> HIDE DEF q, r
<1>7. v - Position(d) \in -1..1
  BY <1>1, <1>3, <1>4, <1>5
<1>8. (-v) - Position(-d) \in -1..1
  BY <1>1, <1>3, <1>4, <1>6
<1>9. QED
  BY <1>2, <1>7, <1>8 DEF Signed

LEMMA ReportTells ==
  ASSUME ReportedInv PROVE ReportArrives
<1> SUFFICES ASSUME ret.kind = "report" PROVE ReportArrives
  BY DEF ReportArrives
<1> DEFINE report == ReportOf(ret.loc, ret.snr)
           read == Decode(ReportFields, NewMessage(ReportFields), ret.bits)
           Near(s) == /\ Signed(s.latitude[1], s.ns) - read.msg[2][1] \in -1..1
                      /\ Signed(s.longitude[1], s.ew) - read.msg[3][1] \in -1..1
           Right == /\ read.ok /\ read.msg = report
                    /\ 2 + Len(ret.bits) \div 8 = ota_size(ReportFields, report) + 1
                    /\ \A i \in DOMAIN ret.fix :
                         ret.fix[i].type = "RMC" /\ ret.fix[i].longitude # <<>> => Near(ret.fix[i])
<1>1. ASSUME \A i \in DOMAIN ReportFields : Fits(ReportFields[i], report[i][1])
      PROVE  Right
  <2> HIDE DEF report, read
  <2>1. Fitting(report)
    BY <1>1, ReportOfIs, ReportFieldsAre DEF Fitting, report
  <2>2. PICK bits : Encode(ReportFields, report, {}, FALSE) = <<bits>> /\ ReportRead(report, bits)
    BY <2>1, ReportTrip, Zenon
  <2>3. ret.bits = bits
    <3>1. ret.bits = Encode(ReportFields, report, {}, FALSE)[1]
      BY Zenon DEF ReportedInv, report
    <3> DEFINE encoded == Encode(ReportFields, report, {}, FALSE)
    <3>2. encoded = <<bits>> /\ ret.bits = encoded[1]
      BY <2>2, <3>1
    <3> HIDE DEF encoded
    <3>3. QED
      BY <3>2
  <2>4. /\ read.ok = TRUE /\ read.msg = report /\ Len(ret.bits) = 8 * 17
        /\ ota_size(ReportFields, report) = 18
    BY <2>2, <2>3, Zenon DEF ReportRead, read
  <2>5. 2 + Len(ret.bits) \div 8 = ota_size(ReportFields, report) + 1
    BY <2>4
  <2>6. ASSUME NEW i \in DOMAIN ret.fix, ret.fix[i].type = "RMC", ret.fix[i].longitude # <<>>
        PROVE  Near(ret.fix[i])
    <3> DEFINE s == ret.fix[i]
    <3>1. ret.fix \in Fixes /\ <<ret.loc>> = location_from_nmea(ret.fix)
      BY <2>6 DEF ReportedInv, FixOf
    <3>2. location_from_nmea(ret.fix)[1] = ret.loc /\ location_from_nmea(ret.fix) # <<>>
      BY <3>1
    <3>3. Locates(ret.fix, DOMAIN ret.fix, ret.loc) /\ ~Rejected(s)
      BY <3>1, <3>2, LocationShape
    <3>4. i \in Placed(ret.fix, DOMAIN ret.fix)
      BY <2>6 DEF Placed, Of
    <3>5. /\ ret.loc.latitude = Signed(Degrees(s.latitude[1]), s.ns)
          /\ ret.loc.longitude = Signed(Degrees(s.longitude[1]), s.ew)
      BY <3>3, <3>4, Zenon DEF Locates
    <3>6. s.latitude[1] \in Int /\ s.longitude[1] \in Int
      <4>1. IsColumn(s.latitude) /\ IsColumn(s.longitude)
        BY <2>6, <3>1, FixesAssumption, Zenon DEF Coherent
      <4>2. s.latitude # <<>> /\ s.longitude # <<>>
        BY <2>6, <3>3, Zenon DEF Rejected
      <4>3. QED
        BY <4>1, <4>2 DEF IsColumn
    <3>7. read.msg[2][1] = Position(ret.loc.latitude) /\ read.msg[3][1] = Position(ret.loc.longitude)
      BY <2>4 DEF report, ReportOf
    <3> HIDE DEF s
    <3>8. /\ Signed(s.latitude[1], s.ns) - read.msg[2][1] \in -1..1
          /\ Signed(s.longitude[1], s.ew) - read.msg[3][1] \in -1..1
      BY <3>5, <3>6, <3>7, PositionNear
    <3>9. QED
      BY <3>8 DEF s
  <2>7. QED
    BY <2>4, <2>5, <2>6
<1> HIDE DEF Right
<1>2. (\A i \in DOMAIN ReportFields : Fits(ReportFields[i], report[i][1])) => Right
  BY <1>1
<1>3. QED
  BY <1>2, Zenon DEF Right, ReportArrives

LEMMA ToldInit == InitApp => FixInv /\ LocatedInv /\ ReportedInv
<1> SUFFICES ASSUME InitApp PROVE FixInv /\ LocatedInv /\ ReportedInv
  OBVIOUS
<1>1. /\ app = [running |-> TRUE, loc |-> <<>>, fix |-> <<>>, reported |-> FALSE,
                queued |-> {}, todo |-> <<>>]
      /\ ret = Idle
  BY DEF InitApp, InitExchange, Init
<1>2. ret.kind \notin {"located", "report"}
  BY <1>1 DEF Idle
<1>3. app.loc = <<>> /\ app.fix = <<>>
  BY <1>1
<1>4. QED
  BY <1>2, <1>3 DEF FixInv, LocatedInv, ReportedInv

LEMMA FixAnyOrder ==
  ASSUME LocatedInv PROVE FixOrderFree
<1> SUFFICES ASSUME ret.kind = "located", NEW p \in Bijection(DOMAIN ret.fix, DOMAIN ret.fix),
                    NEW result, result = location_from_nmea([i \in DOMAIN ret.fix |-> ret.fix[p[i]]])
             PROVE  /\ Unordered(result) = Unordered(ret.loc)
                    /\ result # <<>> =>
                         \A k, m \in DOMAIN result[1].satellites_info :
                            result[1].satellites_info[k].prn = result[1].satellites_info[m].prn => k = m
  BY DEF FixOrderFree
<1>1. Coherent(ret.fix) /\ ret.loc = location_from_nmea(ret.fix)
  BY FixesAssumption DEF LocatedInv
<1>2. SameLocation(result, ret.loc)
  BY <1>1, AnyOrder
<1>3. CASE result = <<>> /\ ret.loc = <<>>
  BY <1>3 DEF Unordered
<1>4. CASE ~(result = <<>> /\ ret.loc = <<>>)
  <2> DEFINE a == result[1]
             b == ret.loc[1]
  <2>1. /\ result = <<a>> /\ ret.loc = <<b>>
        /\ [a EXCEPT !.satellites_info = ToSet(@)] = [b EXCEPT !.satellites_info = ToSet(@)]
        /\ \E S : ListsOnce(a.satellites_info, S)
    BY <1>2, <1>4, Zenon DEF SameLocation
  <2>2. result # <<>> /\ ret.loc # <<>>
    BY <2>1
  <2>3. /\ Unordered(result) = <<[a EXCEPT !.satellites_info = ToSet(@)]>>
        /\ Unordered(ret.loc) = <<[b EXCEPT !.satellites_info = ToSet(@)]>>
    BY <2>2, Zenon DEF Unordered
  <2>4. Unordered(result) = Unordered(ret.loc)
    BY <2>1, <2>3, Zenon
  <2>5. \A k, m \in DOMAIN a.satellites_info :
            a.satellites_info[k].prn = a.satellites_info[m].prn => k = m
    BY <2>1, Zenon DEF ListsOnce
  <2>6. QED
    BY <2>4, <2>5
<1>5. QED
  BY <1>3, <1>4

-------------------------------------------------------------------------------
(***************************************************************************)
(* The theorems.                                                           *)
(***************************************************************************)
AppsInv == Queues /\ MoInv /\ AppInv

LEMMA InitApps == InitApp => AppsInv /\ ControlInv /\ ClearInv /\ ReportInv
<1> SUFFICES ASSUME InitApp PROVE AppsInv /\ ControlInv /\ ClearInv /\ ReportInv
  OBVIOUS
<1>1. Queues
  BY InitTyped
<1>2. /\ mo = <<>> /\ busy = [c \in Clients |-> Idle]
      /\ app = [running |-> TRUE, loc |-> <<>>, fix |-> <<>>, reported |-> FALSE,
                queued |-> {}, todo |-> <<>>]
  BY DEF InitApp, InitExchange, Init
<1>3. \A c \in Clients : busy[c].kind = "idle"
  BY <1>2 DEF Idle
<1>4. MoInv /\ ControlInv /\ ClearInv
  BY <1>2, <1>3 DEF MoInv, ControlInv, ClearInv
<1>5. AppInv /\ ReportInv
  BY <1>2 DEF AppInv, IsApp, ReportInv
<1>6. QED
  BY <1>1, <1>4, <1>5 DEF AppsInv

LEMMA AppsStep == AppsInv /\ [Next]_vars => AppsInv'
  BY NextTyped, MoStep, AppChange DEF AppsInv

LEMMA AppsTypeOK == AppsInv => TypeOK
<1> SUFFICES ASSUME AppsInv PROVE TypeOK
  OBVIOUS
<1>1. s88 \subseteq Events /\ clock \in 0..MaxClock
  BY DEF AppsInv, Queues
<1>2. \A i \in DOMAIN mo : mo[i].state \in TX_READY..TX_CANCELLED
  <2>1. \A i \in DOMAIN mo : mo[i] \in MoMessages
    BY MoTyped DEF AppsInv
  <2>2. QED
    BY <2>1 DEF MoMessages, TxStates
<1>3. \A i \in DOMAIN mt : mt[i].state \in {RX_COMPLETE, RX_RETRIEVED}
  <2>1. \A i \in DOMAIN mt : mt[i] \in MtMessages
    BY DEF AppsInv, Queues
  <2>2. QED
    BY <2>1 DEF MtMessages, RxStates
<1>4. \A c \in Clients : busy[c].kind \in {"idle", "clear", "delete", "control"}
  <2>1. \A c \in Clients : busy[c] \in Operations
    BY DEF AppsInv, Queues
  <2>2. \A op \in Operations : op.kind \in {"idle", "clear", "delete", "control"}
    BY DEF Operations, Idle, Clearings, Deletions, Controls
  <2>3. QED
    BY <2>1, <2>2
<1>5. /\ \A i, j \in DOMAIN mo : mo[i].name = mo[j].name => i = j
      /\ app.queued \subseteq {<<"time", t>> : t \in 0..MaxClock}
      /\ app.running \/ (app.loc = <<>> /\ app.todo = <<>>)
  BY DEF AppsInv, MoInv, AppInv
<1>6. QED
  BY <1>1, <1>2, <1>3, <1>4, <1>5 DEF TypeOK

(* Whatever the clients, the application, the modem and the network do,    *)
(* the variables have their types: no two messages of the transmit queue   *)
(* have the same name, an application that has ended holds neither a       *)
(* location nor a list of messages, and what it takes for its queued       *)
(* reports are names made of times that have been.                         *)
THEOREM TypeCorrect == Spec => []TypeOK
<1>1. InitApp => AppsInv
  BY InitApps
<1>2. AppsInv /\ [Next]_vars => AppsInv'
  BY AppsStep
<1>3. AppsInv => TypeOK
  BY AppsTypeOK
<1>4. QED
  BY <1>1, <1>2, <1>3, PTL DEF Spec

(* The number that message_mo_clear() of the asyncio client returns is     *)
(* that of the messages its own commands have cancelled, and none of the   *)
(* messages that it found in the queue is ready to be sent any more,       *)
(* whatever is submitted, cancelled, cleared or transmitted in between.    *)
THEOREM ClearingIsExact == Spec => []ClearIsExact
<1>1. InitApp => AppsInv /\ ClearInv /\ ClearIsExact
  BY InitApps DEF InitApp, InitExchange, Init, ClearIsExact, Idle
<1>2. AppsInv /\ ClearInv /\ ClearIsExact /\ [Next]_vars => AppsInv' /\ ClearInv' /\ ClearIsExact'
  BY AppsStep, ClearStep, ClearExactStep DEF AppsInv
<1>3. QED
  BY <1>1, <1>2, PTL DEF Spec

(* After a notification_control_set() that succeeds and that no other one  *)
(* overlaps, the events its map names are monitored as the map says and    *)
(* all others as they were before, if each event is named once and only    *)
(* the last entry may turn one off.                                        *)
THEOREM ControlIsExact == Spec => []ControlSetExact
<1>1. InitApp => AppsInv /\ ControlInv /\ ControlSetExact
  BY InitApps DEF InitApp, InitExchange, Init, ControlSetExact, Idle
<1>2. AppsInv /\ ControlInv /\ ControlSetExact /\ [Next]_vars
        => AppsInv' /\ ControlInv' /\ ControlSetExact'
  BY AppsStep, ControlStep DEF AppsInv
<1>3. QED
  BY <1>1, <1>2, PTL DEF Spec

(* The asyncio example never has two of its reports in the transmit queue  *)
(* that are still to be transmitted, whatever other clients and the        *)
(* network do to the queue, and although a command that timed out may have *)
(* submitted one.                                                          *)
THEOREM OneReportAtATime == Spec => []OneReportPending
<1>1. InitApp => AppsInv /\ ReportInv
  BY InitApps
<1>2. AppsInv /\ ReportInv /\ [Next]_vars => AppsInv' /\ ReportInv'
  BY AppsStep, ReportStep DEF AppsInv
<1>3. AppsInv /\ ReportInv => OneReportPending
  BY AtMostOne DEF AppsInv
<1>4. QED
  BY <1>1, <1>2, <1>3, PTL DEF Spec

(* The same sentences in another order give the same Location, or raise    *)
(* as well; only the order of satellites_info depends on it, and no        *)
(* satellite is listed twice.                                              *)
THEOREM OrderOfSentences == Spec => []FixOrderFree
<1>1. InitApp => AppsInv /\ FixInv /\ LocatedInv /\ ReportedInv
  BY InitApps, ToldInit
<1>2. AppsInv /\ FixInv /\ LocatedInv /\ ReportedInv /\ [Next]_vars
        => AppsInv' /\ FixInv' /\ LocatedInv' /\ ReportedInv'
  BY AppsStep, FixStep, ToldStep DEF AppsInv
<1>3. LocatedInv => FixOrderFree
  BY FixAnyOrder
<1>4. QED
  BY <1>1, <1>2, <1>3, PTL DEF Spec

(* A report whose values fit is decoded with the values it was made of;    *)
(* its position is within one unit of the sentence it came from.           *)
THEOREM ReportsArrive == Spec => []ReportArrives
<1>1. InitApp => AppsInv /\ FixInv /\ LocatedInv /\ ReportedInv
  BY InitApps, ToldInit
<1>2. AppsInv /\ FixInv /\ LocatedInv /\ ReportedInv /\ [Next]_vars
        => AppsInv' /\ FixInv' /\ LocatedInv' /\ ReportedInv'
  BY AppsStep, FixStep, ToldStep DEF AppsInv
<1>3. ReportedInv => ReportArrives
  BY ReportTells
<1>4. QED
  BY <1>1, <1>2, <1>3, PTL DEF Spec

LEMMA OtherOctet == \A x \in Octet : (x + 1) % 256 \in Octet /\ (x + 1) % 256 # x
  BY DEF Octet

(* The client accepts the response as it was sent, and no garbled one.     *)
LEMMA WholeOnly ==
  ASSUME NEW line \in Seq(Octet)
  PROVE  {read \in Readings(line) : validate_crc(read, Remainder(line))} = {line}
<1>1. line \in Readings(line) /\ validate_crc(line, Remainder(line))
  BY CrcIsRemainder DEF Readings, validate_crc
<1>2. ASSUME NEW read \in Readings(line), read # line PROVE ~validate_crc(read, Remainder(line))
  <2>1. PICK i \in DOMAIN line : read = [line EXCEPT ![i] = (@ + 1) % 256]
    BY <1>2 DEF Readings
  <2> DEFINE c == (line[i] + 1) % 256
  <2>2. i \in 1..Len(line) /\ line[i] \in Octet
    BY ElementOfSeq
  <2>3. c \in Octet /\ c # line[i]
    BY <2>2, OtherOctet, Zenon
  <2>4. read = [line EXCEPT ![i] = c]
    BY <2>1
  <2> HIDE DEF c
  <2>5. read \in Seq(Octet)
    BY <2>2, <2>3, <2>4
  <2>6. Remainder(read) # Remainder(line)
    BY <2>2, <2>3, <2>4, GarbledDiffers
  <2>7. QED
    BY <2>5, <2>6, CrcIsRemainder DEF validate_crc
<1>3. QED
  BY <1>1, <1>2

(* So message_mt_get() returns the response as it was sent, or reports a   *)
(* CRC error that is one.                                                  *)
LEMMA AcceptedIs ==
  ASSUME NEW p \in DOMAIN Payloads, Line[p] \in Seq(Octet)
  PROVE  Accepted[p] = {Line[p]} /\ Refused[p] \subseteq {TRUE}
<1>1. Accepted[p] = {read \in Readings(Line[p]) : validate_crc(read, Remainder(Line[p]))}
  BY DEF Accepted
<1>2. Refused[p] = {read # Line[p] : read \in Readings(Line[p]) \ Accepted[p]}
  BY DEF Refused
<1>3. Accepted[p] = {Line[p]}
  BY <1>1, WholeOnly
<1>4. QED
  BY <1>2, <1>3

-----------------------------------------------------------------------------
(***************************************************************************)
(* What a message holds, once it is composed: see Composed.                *)
(***************************************************************************)

(* The states of scalar fields, of the elements of an array and of arrays. *)
Scalars == {None} \cup {<<v>> : v \in Int \cup Seq(Octet)}
Lists(f) == {el \in [DOMAIN f.fields -> Scalars] : \A j \in DOMAIN f.fields : Holds(f.fields[j], el[j])}
Items(f)  == {<<el>> : el \in Lists(f)}
Arrays(f) == [template : Lists(f), elements : Seq(Items(f))]

LEMMA HoldsScalars ==
  ASSUME NEW f, IsScalar(f), NEW s, Holds(f, s)
  PROVE  s \in Scalars
<1>1. CASE s = None
  BY <1>1 DEF Scalars
<1>2. CASE s # None
  <2> DEFINE v == s[1]
             D == Seq(Octet)
  <2>1. /\ s = <<v>>
        /\ f.type = "bool" => v \in {0, 1}
        /\ f.type = "enum" => v \in 0..f.items - 1
        /\ f.type \in {"uint", "int"} => v \in Int
        /\ f.type \in {"string", "data"} => v \in D
    BY <1>2, HoldsValue
  <2>2. f.type = "bool" \/ f.type = "enum" \/ f.type \in {"uint", "int"} \/ f.type \in {"string", "data"}
    BY Zenon DEF IsScalar
  <2> HIDE DEF v, D
  <2>3. v \in Int \/ v \in D
    BY <2>1, <2>2
  <2>4. QED
    BY <2>1, <2>3 DEF Scalars, D
<1>3. QED
  BY <1>1, <1>2

LEMMA ListsAre ==
  ASSUME NEW f, \A j \in DOMAIN f.fields : IsScalar(f.fields[j]),
         NEW el, el = [j \in DOMAIN f.fields |-> el[j]], \A j \in DOMAIN f.fields : Holds(f.fields[j], el[j])
  PROVE  el \in Lists(f)
<1>1. \A j \in DOMAIN f.fields : el[j] \in Scalars
  BY HoldsScalars
<1>2. QED
  BY <1>1 DEF Lists

(* A new array, and one with a new element.                                *)
ArrayField(f) == f.type = "array" /\ IsField(f)

(* A new array is one, without elements.                                   *)
LEMMA NewArray ==
  ASSUME NEW f, ArrayField(f)
  PROVE  NewField(f) \in Arrays(f) /\ \A j \in DOMAIN f.fields : IsScalar(f.fields[j])
<1>1. \A j \in DOMAIN f.fields : IsScalar(f.fields[j])
  BY DEF IsField, IsScalar, ArrayField
<1> DEFINE t == [j \in DOMAIN f.fields |-> NewScalar(f.fields[j])]
<1>2. t = [j \in DOMAIN f.fields |-> t[j]] /\ \A j \in DOMAIN f.fields : Holds(f.fields[j], t[j])
  BY <1>1, NewScalarHolds
<1>3. NewField(f) = [template |-> t, elements |-> <<>>]
  BY DEF NewField, ArrayField
<1> HIDE DEF t
<1>4. t \in Lists(f)
  BY <1>1, <1>2, ListsAre
<1>6. NewField(f) \in Arrays(f)
  BY <1>3, <1>4 DEF Arrays
<1>7. QED
  BY <1>1, <1>6

(* The parts of an array.                                                  *)
ArrayIs(f, s, t, els) ==
    t \in Lists(f) /\ els \in Seq(Items(f)) /\ s = [template |-> t, elements |-> els]

LEMMA ArrayParts ==
  ASSUME NEW f, NEW s
  PROVE  s \in Arrays(f) <=> \E t, els : ArrayIs(f, s, t, els)
<1>1. ASSUME s \in Arrays(f) PROVE ArrayIs(f, s, s.template, s.elements)
  BY <1>1 DEF Arrays, ArrayIs
<1>2. ASSUME NEW t, NEW els, ArrayIs(f, s, t, els) PROVE s \in Arrays(f)
  BY <1>2 DEF Arrays, ArrayIs
<1>3. QED
  BY <1>1, <1>2

LEMMA PutElements ==
  ASSUME NEW s, NEW t, NEW els, s = [template |-> t, elements |-> els], NEW new, NEW next,
         next = [s EXCEPT !.elements = new]
  PROVE  next = [template |-> t, elements |-> new]
BY SMT

(* new_element() adds an element of the defaults.                          *)
LEMMA NewElement ==
  ASSUME NEW f, ArrayField(f), NEW s \in Arrays(f)
  PROVE  new_element(f, s) \in Arrays(f) /\ new_element(f, s).elements # <<>>
<1> DEFINE E == Items(f)
           value(j) == IF s.template[j] = None THEN f.fields[j].default ELSE s.template[j]
           el == [j \in DOMAIN f.fields |-> value(j)]
<1>1. PICK t, els : ArrayIs(f, s, t, els)
  BY ArrayParts
<1>2. t \in Lists(f) /\ els \in Seq(E) /\ s = [template |-> t, elements |-> els]
  BY <1>1 DEF ArrayIs
<1>3. \A j \in DOMAIN f.fields : Holds(f.fields[j], value(j))
  <2>1. \A j \in DOMAIN f.fields : IsScalar(f.fields[j])
    BY NewArray
  <2>2. \A j \in DOMAIN f.fields : Holds(f.fields[j], f.fields[j].default)
    BY <2>1, Zenon DEF IsScalar, Holds
  <2>3. \A j \in DOMAIN f.fields : Holds(f.fields[j], t[j])
    BY <1>2 DEF Lists
  <2>4. s.template = t
    BY <1>2
  <2>5. QED
    BY <2>2, <2>3, <2>4
<1>4. el \in Lists(f)
  <2>1. el = [j \in DOMAIN f.fields |-> el[j]] /\ \A j \in DOMAIN f.fields : Holds(f.fields[j], el[j])
    <3> HIDE DEF value
    <3>1. QED
      BY <1>3
  <2> HIDE DEF el
  <2>2. QED
    BY <2>1, NewArray, ListsAre
<1> DEFINE next == new_element(f, s)
           more == Append(els, <<el>>)
<1>5. next = [s EXCEPT !.elements = more]
  <2>1. next = [s EXCEPT !.elements = Append(s.elements, <<el>>)]
    BY Zenon DEF new_element
  <2>2. s.elements = els
    BY <1>2
  <2> HIDE DEF el, next
  <2>3. QED
    BY <2>1, <2>2, Zenon
<1> HIDE DEF next, el
<1>6. <<el>> \in E
  BY <1>4 DEF Items
<1> DEFINE x == <<el>>
<1>7. x \in E
  BY <1>6
<1> HIDE DEF x, E
<1>8. Append(els, x) \in Seq(E) /\ Append(els, x) # <<>>
  <2>1. els \in Seq(E)
    BY <1>2 DEF E
  <2>2. QED
    BY <1>7, <2>1, AppendProperties
<1>9. more \in Seq(E) /\ more # <<>>
  BY <1>8 DEF x
<1> HIDE DEF more
<1>10. next = [template |-> t, elements |-> more]
  BY <1>2, <1>5, PutElements
<1>11. next.elements = more
  BY <1>10
<1>12. next \in Arrays(f)
  BY <1>2, <1>9, <1>10, ArrayParts DEF ArrayIs, E
<1>13. QED
  BY <1>9, <1>11, <1>12 DEF next

(* The last element of a list is another one.                              *)
LEMMA LastPut ==
  ASSUME NEW E, NEW els \in Seq(E), els # <<>>, NEW x \in E
  PROVE  Len(els) \in 1..Len(els) /\ els[Len(els)] \in E /\ [els EXCEPT ![Len(els)] = x] \in Seq(E)
<1>1. Len(els) \in Nat /\ Len(els) # 0 /\ \A i \in 1..Len(els) : els[i] \in E
  BY EmptySeq
<1>2. Len(els) \in 1..Len(els)
  BY <1>1
<1> DEFINE l == Len(els)
<1>3. l \in 1..l /\ l \in 1..Len(els)
  BY <1>2
<1> HIDE DEF l
<1>4. [els EXCEPT ![l] = x] \in Seq(E)
  BY <1>3, ExceptSeq
<1>5. QED
  BY <1>1, <1>2, <1>4 DEF l

(* The values for the fields of an element.                                *)
GivenList(f, values) ==
    DOMAIN values = DOMAIN f.fields /\ \A j \in DOMAIN f.fields : IsState(f.fields[j], values[j])

(* An exception, or an array.                                              *)
Fills(f, result) == result = Raises \/ \E s \in Arrays(f) : result = <<s>>

(* The values that a caller gives to the last element are of their types.  *)
LEMMA FilledFills ==
  ASSUME NEW f, ArrayField(f), NEW s \in Arrays(f), s.elements # <<>>,
         NEW values, GivenList(f, values)
  PROVE  Fills(f, Filled(f, s, values))
<1> DEFINE D == DOMAIN f.fields
           State(j) == IF values[j] # None THEN Assign(f.fields[j], values[j][1])
                       ELSE <<Last(s.elements)[1][j]>>
           states == [j \in DOMAIN values |-> State(j)]
           element == [j \in DOMAIN states |-> states[j][1]]
           els == s.elements
           next == [s EXCEPT !.elements = [els EXCEPT ![Len(els)] = <<element>>]]
<1>1. PICK t, old : ArrayIs(f, s, t, old)
  BY ArrayParts
<1>2. t \in Lists(f) /\ old \in Seq(Items(f)) /\ s = [template |-> t, elements |-> old] /\ els = old
  BY <1>1 DEF ArrayIs
<1>3. Filled(f, s, values) = IF \E j \in DOMAIN states : states[j] = Raises THEN Raises ELSE <<next>>
  <2>1. Filled(f, s, values) = IF AllOf(states) = Raises THEN Raises
                               ELSE <<[s EXCEPT !.elements = [els EXCEPT ![Len(els)] = <<AllOf(states)[1]>>]]>>
    BY Zenon DEF Filled, Then
  <2>2. AllOf(states) = IF \E j \in DOMAIN states : states[j] = Raises THEN Raises ELSE <<element>>
    BY Zenon DEF AllOf
  <2>3. <<element>>[1] = element /\ <<element>> # Raises
    BY IsResult, Zenon
  <2> HIDE DEF states, element
  <2>4. QED
    BY <2>1, <2>2, <2>3, Zenon
<1>4. DOMAIN states = D /\ \A j \in D : states[j] = State(j)
  <2>1. DOMAIN values = D
    BY DEF GivenList
  <2> HIDE DEF State, D
  <2>2. QED
    BY <2>1
<1>5. \A j \in D : IsScalar(f.fields[j])
  BY NewArray
<1>6. CASE \E j \in DOMAIN states : states[j] = Raises
  BY <1>3, <1>6 DEF Fills
<1>7. CASE ~ \E j \in DOMAIN states : states[j] = Raises
  <2>1. ASSUME NEW j \in D PROVE Holds(f.fields[j], states[j][1])
    <3> DEFINE g == f.fields[j]
               v == values[j]
    <3>1. IsScalar(g) /\ IsState(g, v) /\ states[j] = State(j) /\ states[j] # Raises
      BY <1>4, <1>5, <1>7 DEF GivenList
    <3>2. CASE v # None
      <4>1. IsValue(g, v[1])
        BY <3>1, <3>2 DEF IsState
      <4>2. Keeps(g, Assign(g, v[1]))
        <5> DEFINE x == v[1]
        <5>1. IsValue(g, x)
          BY <4>1
        <5> HIDE DEF x, g
        <5>2. Keeps(g, Assign(g, x))
          BY <3>1, <5>1, AssignHolds
        <5>3. QED
          BY <5>2 DEF x
      <4>3. states[j] = Assign(g, v[1])
        BY <3>1, <3>2
      <4>4. PICK st : Holds(g, st) /\ states[j] = <<st>>
        BY <3>1, <4>2, <4>3, Zenon DEF Keeps
      <4>5. states[j][1] = st
        BY <4>4, IsResult, Zenon
      <4>6. QED
        BY <4>4, <4>5
    <3>3. CASE v = None
      <4>1. states[j] = <<Last(els)[1][j]>>
        BY <3>1, <3>3
      <4>2. states[j][1] = Last(els)[1][j]
        BY <4>1, IsResult, Zenon
      <4>3. Last(els) \in Items(f)
        <5>1. old # <<>> /\ \A i \in 1..Len(old) : old[i] \in Items(f)
          BY <1>2
        <5>2. Len(old) \in 1..Len(old)
          BY <1>2, <5>1, EmptySeq
        <5>3. old[Len(old)] \in Items(f)
          BY <5>1, <5>2
        <5>4. QED
          BY <1>2, <5>3 DEF Last
      <4>4. PICK el \in Lists(f) : Last(els) = <<el>>
        BY <4>3 DEF Items
      <4>5. Last(els)[1] = el
        BY <4>4, IsResult, Zenon
      <4>6. Holds(g, el[j])
        BY DEF Lists
      <4>7. QED
        BY <4>2, <4>5, <4>6
    <3>4. QED
      BY <3>2, <3>3
  <2>2. element \in Lists(f)
    <3>1. element = [j \in D |-> element[j]] /\ \A j \in D : Holds(f.fields[j], element[j])
      <4> HIDE DEF states, D
      <4>1. QED
        BY <1>4, <2>1
    <3> HIDE DEF element
    <3>2. QED
      BY <1>5, <3>1, ListsAre
  <2> DEFINE x == <<element>>
             new == [old EXCEPT ![Len(old)] = x]
  <2>3. x \in Items(f)
    BY <2>2 DEF Items
  <2>4. next = [s EXCEPT !.elements = new]
    <3> HIDE DEF x, element, els
    <3>1. els = old
      BY <1>2
    <3>2. QED
      BY <3>1, Zenon DEF x
  <2> HIDE DEF x, next, element
  <2>5. new \in Seq(Items(f))
    BY <1>2, <2>3, LastPut
  <2> HIDE DEF new
  <2>6. next = [template |-> t, elements |-> new]
    BY <1>2, <2>4, PutElements
  <2>7. next \in Arrays(f)
    BY <1>2, <2>5, <2>6, ArrayParts DEF ArrayIs
  <2>8. Filled(f, s, values) = <<next>>
    BY <1>3, <1>7, Zenon
  <2>9. QED
    BY <2>7, <2>8 DEF Fills
<1>8. QED
  BY <1>6, <1>7

(* The elements that are given, one after the other.                       *)
ListStep(f, s, el) == Then(s, LAMBDA state : Filled(f, new_element(f, state), el))

(* One element after the other: an array, or an exception.                 *)
LEMMA ListStepFills ==
  ASSUME NEW f, ArrayField(f), NEW acc, Fills(f, acc), NEW el, GivenList(f, el)
  PROVE  Fills(f, ListStep(f, acc, el))
<1>1. ListStep(f, acc, el) = IF acc = Raises THEN Raises ELSE Filled(f, new_element(f, acc[1]), el)
  BY Zenon DEF ListStep, Then
<1>2. CASE acc = Raises
  BY <1>1, <1>2 DEF Fills
<1>3. CASE acc # Raises
  <2>1. PICK s \in Arrays(f) : acc = <<s>>
    BY <1>3 DEF Fills
  <2>2. acc[1] = s
    BY <2>1, IsResult, Zenon
  <2> DEFINE n == new_element(f, s)
  <2>3. n \in Arrays(f) /\ n.elements # <<>>
    BY NewElement
  <2> HIDE DEF n
  <2>4. Fills(f, Filled(f, n, el))
    BY <2>3, FilledFills
  <2>5. QED
    BY <1>1, <1>3, <2>2, <2>4 DEF n
<1>4. QED
  BY <1>2, <1>3

Listing(f, base, elements) ==
    FoldLeft(LAMBDA s, el : Then(s, LAMBDA state : Filled(f, new_element(f, state), el)), base, elements)

(* All elements: an array, or an exception.                                *)
LEMMA ListingFills ==
  ASSUME NEW f, ArrayField(f), NEW elements, IsList(elements),
         \A k \in DOMAIN elements : GivenList(f, elements[k]), NEW base, Fills(f, base)
  PROVE  Fills(f, Listing(f, base, elements))
<1> DEFINE n == Len(elements)
           A == {Raises} \cup {<<s>> : s \in Arrays(f)}
           Op(a, i) == ListStep(f, a, elements[i])
           step == [i \in 1..n |-> [a \in A |-> Op(a, i)]]
           Folds(g) == g = [s \in SUBSET (DOMAIN elements) |->
                            IF s = {} THEN base ELSE Op(g[s \ {Max(s)}], Max(s))]
<1>1. n \in Nat /\ DOMAIN elements = 1..n
  BY DEF IsList
<1>2. \A x : x \in A <=> Fills(f, x)
  BY DEF Fills
<1> HIDE DEF A
<1>3. \A i \in 1..n : \A a \in A : step[i][a] = Op(a, i) /\ step[i][a] \in A
  <2> SUFFICES ASSUME NEW i \in 1..n, NEW a \in A PROVE step[i][a] = Op(a, i) /\ step[i][a] \in A
    OBVIOUS
  <2>1. step[i][a] = Op(a, i)
    <3> HIDE DEF Op
    <3>1. QED
      OBVIOUS
  <2> DEFINE el == elements[i]
  <2>2. GivenList(f, el) /\ Fills(f, a)
    BY <1>1, <1>2
  <2> HIDE DEF el
  <2>3. Fills(f, ListStep(f, a, el))
    BY <2>2, ListStepFills
  <2>4. Fills(f, Op(a, i))
    BY <2>3 DEF el
  <2> HIDE DEF Op, step
  <2>5. QED
    BY <1>2, <2>1, <2>4
<1>4. \E g : Folds(g) /\ \A s \in SUBSET (1..n) : g[s] \in A
  <2>1. base \in A
    BY <1>2
  <2>3. PICK it \in [SUBSET (1..n) -> A] : IsFold(it, n, base, step)
    <3>1. \A i \in 1..n : \A a \in A : step[i][a] \in A
      BY <1>3
    <3> HIDE DEF step, n
    <3>2. QED
      BY <1>1, <3>1, <2>1, FoldExists
  <2> HIDE DEF step, n
  <2>4. ASSUME NEW s \in SUBSET (1..n), s # {}
        PROVE  step[Max(s)][it[s \ {Max(s)}]] = Op(it[s \ {Max(s)}], Max(s))
    <3>1. Max(s) \in 1..n /\ it[s \ {Max(s)}] \in A
      BY <1>1, <2>4, GreatestExists
    <3> HIDE DEF Op
    <3>2. QED
      BY <1>3, <3>1
  <2> HIDE DEF Op
  <2>5. Folds(it)
    BY <1>1, <2>3, <2>4 DEF IsFold
  <2>6. QED
    BY <2>5
<1>5. Listing(f, base, elements) = (CHOOSE g : Folds(g))[DOMAIN elements]
  BY Zenon DEF Listing, FoldLeft, MapThenFoldSet, ListStep
<1> HIDE DEF Op, step, n
<1>7. QED
  <2> DEFINE h == CHOOSE g : Folds(g)
  <2>1. Folds(h)
    <3> HIDE DEF Folds
    <3>1. QED
      BY <1>4
  <2> HIDE DEF h
  <2>2. h = [s \in SUBSET (1..n) |-> IF s = {} THEN base ELSE Op(h[s \ {Max(s)}], Max(s))]
    BY <1>1, <2>1
  <2> DEFINE S == {k \in 0..n : h[1..k] \in A}
  <2>3. 0 \in S
    <3>1. 1..0 = {} /\ {} \in SUBSET (1..n)
      OBVIOUS
    <3>2. h[1..0] = base
      BY <2>2, <3>1
    <3>3. base \in A
      BY <1>2
    <3>4. QED
      BY <1>1, <3>2, <3>3
  <2>4. ASSUME NEW k \in 0..(n - 1), k \in S PROVE k + 1 \in S
    <3> DEFINE i == k + 1
    <3>1. i \in 1..n /\ i \in Nat /\ i # 0 /\ i - 1 = k /\ i \in 0..n
      BY <1>1
    <3> HIDE DEF i
    <3>2. Max(1..i) = i /\ (1..i) \ {i} = 1..(i - 1) /\ 1..i # {} /\ 1..i \in SUBSET (1..n)
      <4>1. \A x \in 1..i : x \in 1..n
        BY <1>1, <3>1
      <4>2. QED
        BY <3>1, <4>1, MaxUpTo
    <3>3. \A t \in SUBSET (1..n) : t # {} => h[t] = Op(h[t \ {Max(t)}], Max(t))
      BY <2>2
    <3>4. h[1..i] = Op(h[(1..i) \ {Max(1..i)}], Max(1..i))
      BY <3>2, <3>3
    <3>5. h[1..i] = Op(h[1..k], i)
      BY <3>1, <3>2, <3>4, Zenon
    <3>6. h[1..k] \in A
      BY <2>4
    <3> DEFINE el == elements[i]
               a == h[1..k]
    <3>7. GivenList(f, el) /\ Fills(f, a)
      BY <1>1, <1>2, <3>1, <3>6
    <3> HIDE DEF el, a
    <3>8. Fills(f, ListStep(f, a, el))
      BY <3>7, ListStepFills
    <3>9. h[1..i] \in A
      BY <1>2, <3>5, <3>8, Zenon DEF Op, a, el
    <3>10. QED
      BY <3>1, <3>9 DEF i
  <2>5. n \in S
    <3> HIDE DEF S
    <3>1. 0..n \subseteq S
      BY <1>1, <2>3, <2>4, UpToInduction
    <3>2. QED
      BY <1>1, <3>1
  <2>6. h[1..n] \in A
    BY <2>5
  <2>7. QED
    BY <1>1, <1>2, <1>5, <2>6 DEF h

(* What an array holds.                                                    *)
LEMMA ArrayHolds ==
  ASSUME NEW f, ArrayField(f), NEW s \in Arrays(f)
  PROVE  HasElements(f, s)
<1>1. PICK t, els : ArrayIs(f, s, t, els)
  BY ArrayParts
<1>2. t \in Lists(f) /\ els \in Seq(Items(f)) /\ s = [template |-> t, elements |-> els]
  BY <1>1 DEF ArrayIs
<1>3. s.elements = els /\ Len(els) \in Nat /\ DOMAIN els = 1..Len(els) /\ \A i \in 1..Len(els) : els[i] \in Items(f)
  BY <1>2
<1>4. ASSUME NEW i \in DOMAIN s.elements
      PROVE  /\ Elements(s)[i] = [j \in DOMAIN f.fields |-> Elements(s)[i][j]]
             /\ \A j \in DOMAIN f.fields : Holds(f.fields[j], Elements(s)[i][j])
  <2>1. els[i] \in Items(f) /\ s.elements[i] = els[i]
    BY <1>3, <1>4
  <2>2. PICK el \in Lists(f) : els[i] = <<el>>
    BY <2>1 DEF Items
  <2>3. Elements(s)[i] = IF s.elements[i] = <<>> THEN s.template ELSE s.elements[i][1]
    BY <1>4 DEF Elements
  <2>4. s.elements[i] # <<>> /\ s.elements[i][1] = el
    BY <2>1, <2>2
  <2>5. Elements(s)[i] = el
    BY <2>3, <2>4
  <2>6. el = [j \in DOMAIN f.fields |-> el[j]] /\ \A j \in DOMAIN f.fields : Holds(f.fields[j], el[j])
    BY DEF Lists
  <2>7. QED
    BY <2>5, <2>6
<1>5. IsList(s.elements)
  BY <1>3 DEF IsList
<1>6. QED
  BY <1>4, <1>5 DEF HasElements

(* An exception, or a state of field f.                                    *)
HoldsResult(f, result) == result = Raises \/ \E s : FieldHolds(f, s) /\ result = <<s>>

(* The state of a field that is given a value, or none.                    *)
StateOf(f, value) ==
    CASE value = None -> <<NewField(f)>>
      [] value # None /\ f.type # "array" -> Assign(f, value[1])
      [] value # None /\ f.type = "array" -> Listing(f, <<NewField(f)>>, value[1])

(* What a field holds that is given a value, or none.                      *)
LEMMA StateHolds ==
  ASSUME NEW f, IsField(f), NEW value, IsGiven(f, value)
  PROVE  HoldsResult(f, StateOf(f, value))
<1>1. CASE f.type = "array"
  <2>1. ArrayField(f)
    BY <1>1 DEF ArrayField
  <2>2. Fills(f, <<NewField(f)>>)
    BY <2>1, NewArray DEF Fills
  <2>3. ASSUME NEW result, Fills(f, result) PROVE HoldsResult(f, result)
    <3>1. \A s \in Arrays(f) : FieldHolds(f, s)
      BY <1>1, <2>1, ArrayHolds DEF FieldHolds
    <3>2. QED
      BY <2>3, <3>1 DEF Fills, HoldsResult
  <2>4. CASE value = None
    <3>1. StateOf(f, value) = <<NewField(f)>>
      BY <2>4, Zenon DEF StateOf
    <3>2. QED
      BY <2>2, <2>3, <3>1
  <2>5. CASE value # None
    <3> DEFINE elements == value[1]
    <3>1. IsList(elements) /\ \A k \in DOMAIN elements : GivenList(f, elements[k])
      BY <1>1, <2>5 DEF IsGiven, GivenList
    <3>2. StateOf(f, value) = Listing(f, <<NewField(f)>>, elements)
      BY <1>1, <2>5, Zenon DEF StateOf
    <3> HIDE DEF elements
    <3> DEFINE base == <<NewField(f)>>
    <3>3. Fills(f, base)
      BY <2>2
    <3> HIDE DEF base
    <3>4. Fills(f, Listing(f, base, elements))
      BY <2>1, <3>1, <3>3, ListingFills
    <3>5. QED
      BY <2>3, <3>2, <3>4 DEF base
  <2>6. QED
    BY <2>4, <2>5
<1>2. CASE f.type # "array"
  <2>1. IsScalar(f) /\ IsState(f, value)
    BY <1>2 DEF IsField, IsGiven
  <2>2. CASE value = None
    <3>1. StateOf(f, value) = <<NewField(f)>>
      BY <2>2, Zenon DEF StateOf
    <3>2. FieldHolds(f, NewField(f))
      BY <1>2, <2>1, NewScalarHolds DEF NewField, FieldHolds
    <3>3. QED
      BY <3>1, <3>2 DEF HoldsResult
  <2>3. CASE value # None
    <3> DEFINE v == value[1]
    <3>1. IsValue(f, v)
      BY <2>1, <2>3 DEF IsState
    <3>2. StateOf(f, value) = Assign(f, v)
      BY <1>2, <2>3, Zenon DEF StateOf
    <3> HIDE DEF v
    <3>3. Keeps(f, Assign(f, v))
      BY <2>1, <3>1, AssignHolds
    <3>4. QED
      BY <1>2, <3>2, <3>3 DEF Keeps, HoldsResult, FieldHolds
  <2>4. QED
    BY <2>2, <2>3
<1>3. QED
  BY <1>1, <1>2

SchemaOf(p) == Schemas[Payloads[p].schema]

(* The schema of message p.                                                *)
LEMMA SchemaIs ==
  ASSUME NEW p \in DOMAIN Payloads
  PROVE  /\ Payloads[p].schema \in DOMAIN Schemas /\ IsSchema(SchemaOf(p))
         /\ \A i \in DOMAIN SchemaOf(p) : IsGiven(SchemaOf(p)[i], Payloads[p].values[i])
<1>1. /\ Payloads[p].schema \in DOMAIN Schemas
      /\ DOMAIN Payloads[p].values = DOMAIN SchemaOf(p)
      /\ \A i \in DOMAIN Payloads[p].values : IsGiven(SchemaOf(p)[i], Payloads[p].values[i])
  BY ExchangeAssumption DEF SchemaOf
<1>2. IsSchema(SchemaOf(p))
  BY <1>1, ExchangeAssumption DEF SchemaOf, IsSchema
<1>3. QED
  BY <1>1, <1>2

(* Every field of a message that was composed holds a value of its type.   *)
LEMMA SentHolds ==
  ASSUME NEW p \in DOMAIN Payloads, Sent[p] # Raises
  PROVE  \A i \in DOMAIN SchemaOf(p) : FieldHolds(SchemaOf(p)[i], Sent[p][1][i])
<1> DEFINE schema == SchemaOf(p)
           values == Payloads[p].values
           states == [i \in DOMAIN schema |-> StateOf(schema[i], values[i])]
           msg == [i \in DOMAIN states |-> states[i][1]]
<1>1. Sent[p] = Composed(schema, values)
  BY Zenon DEF Sent, SchemaOf
<1>2. Composed(schema, values) = AllOf(states)
  BY Zenon DEF Composed, StateOf, Listing
<1> HIDE DEF states, schema, values
<1>3. AllOf(states) = IF \E i \in DOMAIN states : states[i] = Raises THEN Raises ELSE <<msg>>
  BY Zenon DEF AllOf
<1>4. (\A i \in DOMAIN states : states[i] # Raises) /\ Sent[p] = <<msg>>
  BY <1>1, <1>2, <1>3, Zenon
<1>5. Sent[p][1] = msg
  BY <1>4, IsResult, Zenon
<1>6. DOMAIN states = DOMAIN schema /\ \A i \in DOMAIN schema : states[i] = StateOf(schema[i], values[i])
  BY Zenon DEF states
<1>7. ASSUME NEW i \in DOMAIN schema PROVE FieldHolds(schema[i], Sent[p][1][i])
  <2> DEFINE f == schema[i]
             value == values[i]
  <2>1. IsField(f) /\ IsGiven(f, value)
    BY SchemaIs DEF IsSchema, schema, values
  <2> HIDE DEF f, value
  <2>2. HoldsResult(f, StateOf(f, value))
    BY <2>1, StateHolds
  <2>3. states[i] = StateOf(f, value) /\ states[i] # Raises
    BY <1>4, <1>6 DEF f, value
  <2>4. PICK s : FieldHolds(f, s) /\ states[i] = <<s>>
    BY <2>2, <2>3, Zenon DEF HoldsResult
  <2>5. msg[i] = states[i][1]
    BY <1>6
  <2>6. msg[i] = s
    BY <2>4, <2>5, IsResult, Zenon
  <2>7. QED
    BY <1>5, <2>4, <2>6 DEF f
<1>8. QED
  BY <1>7 DEF schema

-----------------------------------------------------------------------------
(***************************************************************************)
(* Messages that arrive.                                                   *)
(***************************************************************************)

(* What is sent and how the response reads: p's payload is whole bytes,    *)
(* and the client accepts its octets and no others.                        *)
LineOf(p, payload) ==
    /\ Sent[p] # Raises /\ WholeBytesOf(payload)
    /\ Encode(SchemaOf(p), Sent[p][1], Payloads[p].exclude, TRUE) = <<payload>>
    /\ Chars(Line[p]) = payload
    /\ Accepted[p] = {Line[p]} /\ Refused[p] \subseteq {TRUE}

(* What message p is sent as, and what the client accepts of it.           *)
LEMMA LineIs ==
  ASSUME NEW p \in DOMAIN Payloads, Payload[p] # Raises
  PROVE  \E payload : LineOf(p, payload)
<1> DEFINE schema == SchemaOf(p)
           exclude == Payloads[p].exclude
           coded == Encode(schema, Sent[p][1], exclude, TRUE)
           payload == coded[1]
<1>1. Payload[p] = IF Sent[p] = Raises THEN Raises ELSE coded
  BY Zenon DEF Payload, Then, SchemaOf
<1>2. Sent[p] # Raises /\ Payload[p] = coded /\ coded # Raises
  BY <1>1
<1>3. coded = <<payload>>
  <2> DEFINE Mark(i)   == IF schema[i].optional THEN << <<1>> >> ELSE << <<>> >>
             Part(i)   == IF ~Included(schema, Sent[p][1], exclude, i) THEN << <<0>> >>
                          ELSE Join(<<Mark(i), EncodeField(schema[i], Sent[p][1][i])>>)
             Pad(bits) == bits \o Zeros(8 - (Len(bits) % 8))
             joined    == Join([i \in DOMAIN schema |-> Part(i)])
             whole     == Pad(joined[1])
  <2>1. coded = IF joined = Raises THEN Raises
                ELSE IF Len(whole) \div 8 > (IF TRUE THEN MaxForward ELSE MaxReturn) THEN Raises ELSE <<whole>>
    BY Zenon DEF Encode, Then
  <2> HIDE DEF joined, whole, coded
  <2>2. coded = <<whole>>
    BY <1>2, <2>1, Zenon
  <2>3. <<whole>>[1] = whole
    BY IsResult
  <2>4. QED
    BY <2>2, <2>3 DEF payload
<1> HIDE DEF payload
<1>4. WholeBytesOf(payload)
  <2>1. IsSchema(schema) /\ \A i \in DOMAIN schema : FieldHolds(schema[i], Sent[p][1][i])
    BY <1>2, SchemaIs, SentHolds
  <2>2. TRUE \in BOOLEAN
    OBVIOUS
  <2> HIDE DEF schema, exclude
  <2>3. QED
    BY <1>3, <2>1, <2>2, EncodeTyped, Zenon DEF coded
<1>5. Line[p] = Octets(payload)
  <2>1. Line[p] = IF Payload[p] = Raises THEN Raises ELSE Octets(Payload[p][1])
    BY Zenon DEF Line, Then
  <2>2. Payload[p][1] = payload
    BY <1>2, <1>3, IsResult, Zenon
  <2>3. QED
    BY <2>1, <2>2
<1>6. Octets(payload) = Bytes(payload)
  BY DEF Octets, Bytes
<1>7. Bytes(payload) \in Seq(Octet) /\ Chars(Bytes(payload)) = payload
  BY <1>4, BytesIs DEF WholeBytesOf
<1>8. Accepted[p] = {Line[p]} /\ Refused[p] \subseteq {TRUE}
  <2>1. Line[p] \in Seq(Octet)
    BY <1>5, <1>6, <1>7
  <2>2. QED
    BY <2>1, AcceptedIs
<1>9. QED
  BY <1>2, <1>3, <1>4, <1>5, <1>6, <1>7, <1>8, Zenon DEF LineOf, coded, schema, exclude

SentIn(p) == {i \in DOMAIN SchemaOf(p) : Included(SchemaOf(p), Sent[p][1], Payloads[p].exclude, i)}

(* The fields of p that were included are read as they were sent.          *)
ReadsAs(p, before, ok, read) ==
    (\A i \in SentIn(p) : Carried(SchemaOf(p)[i], Sent[p][1][i], before[i]))
    => /\ ok
       /\ \A i \in DOMAIN SchemaOf(p) :
            Value(SchemaOf(p)[i], read[i]) =
                IF i \in SentIn(p) THEN Value(SchemaOf(p)[i], Sent[p][1][i])
                ELSE Value(SchemaOf(p)[i], before[i])

(* Decoded, the payload of p says what p said.                             *)
LEMMA DecodesLine ==
  ASSUME NEW p \in DOMAIN Payloads, NEW payload, LineOf(p, payload),
         NEW before, Shaped(SchemaOf(p), before),
         NEW after, after = Decode(SchemaOf(p), before, payload)
  PROVE  ReadsAs(p, before, after.ok, after.msg)
<1> DEFINE schema == SchemaOf(p)
           msg == Sent[p][1]
           exclude == Payloads[p].exclude
           n == Len(schema)
           in == {i \in DOMAIN schema : Included(schema, msg, exclude, i)}
<1>1. /\ n \in Nat /\ DOMAIN schema = 1..n
      /\ \A i \in 1..n : IsField(schema[i]) /\ FieldHolds(schema[i], msg[i])
  BY SchemaIs, SentHolds DEF IsSchema, IsList, LineOf
<1>2. Encode(schema, msg, exclude, TRUE) = <<payload>>
  BY Zenon DEF LineOf
<1>3. before = [i \in 1..n |-> before[i]] /\ \A i \in 1..n : FieldReads(schema[i], before[i])
  BY <1>1 DEF Shaped
<1>4. after = Decode(schema, before, payload)
  OBVIOUS
<1> HIDE DEF schema, msg, exclude
<1>5. SUFFICES ASSUME \A i \in in : Carried(schema[i], msg[i], before[i])
               PROVE  after.ok /\ \A i \in DOMAIN schema :
                        Value(schema[i], after.msg[i]) =
                          IF i \in in THEN Value(schema[i], msg[i]) ELSE Value(schema[i], before[i])
  BY Zenon DEF ReadsAs, SentIn, schema, msg, exclude
<1>6. ASSUME NEW i \in 1..n, Included(schema, msg, exclude, i)
      PROVE  Trip(schema[i], msg[i], before[i])
  <2>1. Carried(schema[i], msg[i], before[i])
    BY <1>1, <1>5, <1>6
  <2>2. IsField(schema[i]) /\ FieldHolds(schema[i], msg[i]) /\ FieldReads(schema[i], before[i])
    BY <1>1, <1>3
  <2>3. QED
    BY <2>1, <2>2, FieldTrip, Zenon
<1>7. \A i \in 1..n : schema[i].optional \in BOOLEAN
  BY <1>1 DEF IsField, IsScalar
<1>8. DOMAIN before = 1..n /\ TRUE \in BOOLEAN
  BY <1>3
<1>9. PICK read : Decodes(schema, before, payload, read) /\ Same(schema, msg, before, in, read)
  <2> HIDE DEF n
  <2>1. QED
    BY <1>1, <1>2, <1>3, <1>6, <1>7, <1>8, MessageArrives, Zenon
<1>10. PICK off : after = [ok |-> TRUE, off |-> off, msg |-> read]
  BY <1>4, <1>9, Zenon DEF Decodes
<1>11. after.ok /\ after.msg = read
  BY <1>10
<1>12. QED
  BY <1>9, <1>11, Zenon DEF Same

-----------------------------------------------------------------------------
(* A message that arrived encoded is one that could be encoded.            *)
CameEncoded(m) ==
    m.body.kind = "encoded" => m.body.p \in DOMAIN Payloads /\ Payload[m.body.p] # Raises

MtInv == \A i \in 1..Len(mt) : CameEncoded(mt[i])

(* The message objects are shaped like their schemas.                      *)
InboxInv ==
    /\ inbox = [k \in DOMAIN Schemas |-> inbox[k]]
    /\ \A k \in DOMAIN Schemas : Shaped(Schemas[k], inbox[k])

(* What the steps do to the receive queue.                                 *)
LEMMA MtSteps ==
  ASSUME Queues, [Next]_vars
  PROVE  \/ mt' = mt
         \/ \E name : InQueue(mt, name) /\ mt' = WithState(mt, name, RX_RETRIEVED)
         \/ \E name : InQueue(mt, name) /\ mt' = Without(mt, name)
         \/ ArriveEncoded \/ ArriveCommand
<1>1. CASE UNCHANGED vars
  BY <1>1 DEF vars, mailbox, queues
<1>2. CASE Steps /\ ~Command
  BY <1>2, Zenon DEF Steps, Locate, GnssTimeout, Report, MoSend, PollMo, PollMt, Poll, queues
<1>3. CASE Command
  BY <1>3, Zenon DEF Command
<1>4. CASE Environment
  BY <1>4, Zenon DEF Environment, Transmit, Forget, Tick, queues
<1>5. ASSUME NEW c \in Clients, Operation(c)
      PROVE  mt' = mt \/ \E name : InQueue(mt, name) /\ mt' = Without(mt, name)
  <2>1. ASSUME NEW i \in DOMAIN mt, MtDelete(c, mt[i].name)
        PROVE  mt' = mt \/ (InQueue(mt, mt[i].name) /\ mt' = Without(mt, mt[i].name))
    BY <2>1 DEF MtDelete, InQueue
  <2>2. CASE ~ \E i \in DOMAIN mt : MtDelete(c, mt[i].name)
    BY <1>5, <2>2, Zenon DEF Operation, MoClear, MoClearNext, MoClearEnds, MoDelete, MoDeleteNext,
       MoCancel, MonitorSet, ControlSet, ControlWrite, queues
  <2>3. QED
    BY <2>1, <2>2
<1>6. ASSUME NEW c \in Clients, NEW g, MoSend(c, g, [kind |-> "other"], [kind |-> "name"])
      PROVE  mt' = mt
  BY <1>6, Zenon DEF MoSend
<1>7. ASSUME NEW i \in DOMAIN mt, MtGet(mt[i].name)
      PROVE  InQueue(mt, mt[i].name) /\ mt' = WithState(mt, mt[i].name, RX_RETRIEVED)
  BY <1>7, Zenon DEF MtGet, InQueue
<1>8. QED
  BY <1>1, <1>2, <1>3, <1>4, <1>5, <1>6, <1>7 DEF Next

(* Messages in the receive queue were encoded.                             *)
LEMMA MtStep ==
  ASSUME Queues, MtInv, [Next]_vars
  PROVE  MtInv'
<1>0. mt \in Seq(MtMessages) /\ Len(mt) \in Nat
  BY DEF Queues
<1>1. CASE mt' = mt
  BY <1>1 DEF MtInv, CameEncoded
<1>2. ASSUME NEW name, InQueue(mt, name), mt' = WithState(mt, name, RX_RETRIEVED)
      PROVE  MtInv'
  <2>1. HasState(MtMessages, RX_RETRIEVED)
    BY DEF HasState, MtMessages, RxStates
  <2>2. /\ Len(mt') = Len(mt)
        /\ \A i \in 1..Len(mt) :
             mt'[i] = IF i = Named(mt, name) THEN [mt[i] EXCEPT !.state = RX_RETRIEVED] ELSE mt[i]
    BY <1>0, <1>2, <2>1, WithStateIs
  <2>3. ASSUME NEW i \in 1..Len(mt) PROVE mt'[i].body = mt[i].body
    <3>1. mt[i] \in MtMessages
      BY <1>0
    <3>2. [mt[i] EXCEPT !.state = RX_RETRIEVED].body = mt[i].body
      BY <3>1 DEF MtMessages
    <3>3. QED
      BY <2>2, <3>2
  <2>4. QED
    BY <2>2, <2>3 DEF MtInv, CameEncoded
<1>3. ASSUME NEW name, InQueue(mt, name), mt' = Without(mt, name)
      PROVE  MtInv'
  <2>1. /\ Named(mt, name) \in 1..Len(mt) /\ Len(mt') = Len(mt) - 1
        /\ \A i \in 1..(Len(mt) - 1) : mt'[i] = IF i < Named(mt, name) THEN mt[i] ELSE mt[i + 1]
    BY <1>0, <1>3, WithoutIs
  <2>2. ASSUME NEW i \in 1..Len(mt') PROVE \E j \in 1..Len(mt) : mt'[i] = mt[j]
    <3>1. i \in 1..(Len(mt) - 1) /\ i \in 1..Len(mt) /\ i + 1 \in 1..Len(mt)
      BY <1>0, <2>1
    <3>2. QED
      BY <2>1, <3>1
  <2>3. QED
    BY <2>2 DEF MtInv, CameEncoded
<1>4. ASSUME NEW body, body.kind = "encoded" => body.p \in DOMAIN Payloads /\ Payload[body.p] # Raises,
             Arrive(body)
      PROVE  MtInv'
  <2> DEFINE m == [name |-> <<"FM", activity.mt>>, state |-> RX_COMPLETE, body |-> body]
  <2>1. mt' = Append(mt, m) /\ m.body = body
    BY <1>4 DEF Arrive
  <2> HIDE DEF m
  <2>2. Len(mt') = Len(mt) + 1 /\ \A i \in 1..Len(mt') : mt'[i] = IF i <= Len(mt) THEN mt[i] ELSE m
    BY <1>0, <2>1
  <2>3. CameEncoded(m)
    BY <1>4, <2>1 DEF CameEncoded
  <2>4. QED
    BY <1>0, <2>2, <2>3 DEF MtInv, CameEncoded
<1>5. CASE ArriveEncoded
  <2>1. PICK p \in DOMAIN Payloads : Payload[p] # Raises /\ Arrive([kind |-> "encoded", p |-> p])
    BY <1>5, Zenon DEF ArriveEncoded
  <2> DEFINE body == [kind |-> "encoded", p |-> p]
  <2>2. body.p = p /\ Arrive(body)
    BY <2>1
  <2> HIDE DEF body
  <2>3. QED
    BY <1>4, <2>1, <2>2
<1>6. CASE ArriveCommand
  <2>1. PICK kind \in {"interval", "other"} : Arrive([kind |-> kind])
    BY <1>6 DEF ArriveCommand
  <2> DEFINE body == [kind |-> kind]
  <2>2. body.kind # "encoded" /\ Arrive(body)
    BY <2>1
  <2> HIDE DEF body
  <2>3. QED
    BY <1>4, <2>2
<1>7. QED
  BY <1>1, <1>2, <1>3, <1>5, <1>6, MtSteps

(* The message objects change in message_mt_get() alone.                   *)
LEMMA InboxSteps ==
  ASSUME [Next]_vars
  PROVE  inbox' = inbox \/ \E i \in DOMAIN mt : MtGet(mt[i].name)
<1>1. CASE UNCHANGED vars
  BY <1>1 DEF vars
<1>2. CASE Steps
  BY <1>2, Zenon DEF Steps, Locate, GnssTimeout, Report, PollMo, PollMt, Poll, Command
<1>3. CASE ArriveEncoded \/ ArriveCommand
  BY <1>3, Zenon DEF ArriveEncoded, ArriveCommand
<1>4. QED
  BY <1>1, <1>2, <1>3, Zenon DEF Next

(* What message_mt_get() returns of message p, and what it leaves.         *)
Gets(p, k, result) ==
    \/ \E read \in Accepted[p] :
          /\ inbox' = [inbox EXCEPT ![k] = Decode(Schemas[k], inbox[k], Chars(read)).msg]
          /\ result = [kind |-> "got", p |-> p, before |-> inbox[k],
                       ok |-> Decode(Schemas[k], inbox[k], Chars(read)).ok, garbled |-> read # Line[p]]
    \/ \E garbled \in Refused[p] : result = [kind |-> "crc", garbled |-> garbled] /\ UNCHANGED inbox

(* message_mt_get() gets one of the messages that were encoded.            *)
LEMMA MtGetGets ==
  ASSUME Queues, MtInv, NEW i \in DOMAIN mt, MtGet(mt[i].name)
  PROVE  \E p \in DOMAIN Payloads : Payload[p] # Raises /\ Gets(p, Payloads[p].schema, ret')
<1> DEFINE m == mt[Named(mt, mt[i].name)]
           p == m.body.p
           k == Payloads[p].schema
<1>1. InQueue(mt, mt[i].name)
  BY DEF InQueue
<1>2. Named(mt, mt[i].name) \in 1..Len(mt)
  <2>1. mt \in Seq(MtMessages)
    BY DEF Queues
  <2>2. DOMAIN mt = 1..Len(mt)
    BY <2>1
  <2>3. QED
    BY <1>1, <2>2, NamedIs
<1>3. m.body.kind = "encoded"
  BY Zenon DEF MtGet
<1>4. p \in DOMAIN Payloads /\ Payload[p] # Raises
  BY <1>2, <1>3 DEF MtInv, CameEncoded
<1>5. Gets(p, k, ret')
  BY Zenon DEF MtGet, Gets
<1>6. QED
  BY <1>4, <1>5

(* What it gets is what was sent.                                          *)
LEMMA GetsArrive ==
  ASSUME InboxInv, NEW p \in DOMAIN Payloads, Payload[p] # Raises, Gets(p, Payloads[p].schema, ret')
  PROVE  InboxInv' /\ RoundTrip'
<1> DEFINE k == Payloads[p].schema
           line == Line[p]
           after == Decode(Schemas[k], inbox[k], Chars(line))
<1>1. PICK payload : LineOf(p, payload)
  BY LineIs
<1>2. /\ Chars(line) = payload /\ payload \in Digits
      /\ Accepted[p] = {line} /\ Refused[p] \subseteq {TRUE}
  BY <1>1 DEF LineOf, WholeBytesOf
<1>3. k \in DOMAIN Schemas /\ SchemaOf(p) = Schemas[k] /\ IsSchema(Schemas[k])
  BY SchemaIs DEF SchemaOf
<1>4. Shaped(Schemas[k], inbox[k])
  BY <1>3 DEF InboxInv
<1> HIDE DEF k
<1>5. CASE \E garbled \in Refused[p] : ret' = [kind |-> "crc", garbled |-> garbled] /\ UNCHANGED inbox
  <2>1. ret' = [kind |-> "crc", garbled |-> TRUE] /\ inbox' = inbox
    BY <1>2, <1>5
  <2>2. ret'.kind = "crc" /\ ret'.garbled
    BY <2>1
  <2>3. RoundTrip'
    BY <2>2 DEF RoundTrip
  <2>4. InboxInv'
    BY <2>1 DEF InboxInv
  <2>5. QED
    BY <2>3, <2>4
<1>6. CASE \E read \in Accepted[p] :
             /\ inbox' = [inbox EXCEPT ![k] = Decode(Schemas[k], inbox[k], Chars(read)).msg]
             /\ ret' = [kind |-> "got", p |-> p, before |-> inbox[k],
                        ok |-> Decode(Schemas[k], inbox[k], Chars(read)).ok, garbled |-> read # Line[p]]
  <2> DEFINE ok == after.ok
             msg == after.msg
             before == inbox[k]
             garbled == line # line
  <2>1. /\ inbox' = [inbox EXCEPT ![k] = msg]
        /\ ret' = [kind |-> "got", p |-> p, before |-> before, ok |-> ok, garbled |-> garbled]
    BY <1>2, <1>6, Zenon
  <2>2. ReadsAs(p, before, ok, msg)
    BY <1>1, <1>2, <1>3, <1>4, DecodesLine
  <2>3. Shaped(Schemas[k], msg)
    BY <1>2, <1>3, <1>4, DecodeShaped
  <2>4. ~garbled
    OBVIOUS
  <2> HIDE DEF ok, msg, before, garbled
  <2>5. ret'.kind = "got" /\ ret'.p = p /\ ret'.before = before /\ ret'.ok = ok /\ ret'.garbled = garbled
    BY <2>1
  <2>6. /\ inbox' = [j \in DOMAIN Schemas |-> inbox'[j]] /\ inbox'[k] = msg
        /\ \A j \in DOMAIN Schemas : j # k => inbox'[j] = inbox[j]
    BY <1>3, <2>1 DEF InboxInv
  <2>7. InboxInv'
    BY <2>3, <2>6 DEF InboxInv
  <2>8. RoundTrip'
    <3>1. ret'.kind # "crc"
      BY <2>5
    <3>2. QED
      BY <2>2, <2>4, <2>5, <2>6, <3>1, Zenon DEF RoundTrip, ReadsAs, SentIn, SchemaOf, k
  <2>9. QED
    BY <2>7, <2>8
<1>7. QED
  BY <1>5, <1>6, Zenon DEF Gets, k

(* The other steps leave the message objects, or say nothing of a message. *)
LEMMA ReadStep ==
  ASSUME Queues, MtInv, InboxInv, RoundTrip, [Next]_vars
  PROVE  InboxInv' /\ RoundTrip'
<1>1. CASE \E i \in DOMAIN mt : MtGet(mt[i].name)
  <2>1. PICK p \in DOMAIN Payloads : Payload[p] # Raises /\ Gets(p, Payloads[p].schema, ret')
    BY <1>1, MtGetGets
  <2>2. QED
    BY <2>1, GetsArrive
<1>2. CASE ~ \E i \in DOMAIN mt : MtGet(mt[i].name)
  <2>1. inbox' = inbox
    BY <1>2, InboxSteps
  <2>2. InboxInv'
    BY <2>1 DEF InboxInv
  <2>3. CASE ret' = ret
    BY <2>1, <2>2, <2>3 DEF RoundTrip
  <2>4. CASE ret'.kind \notin {"got", "crc"}
    BY <2>2, <2>4 DEF RoundTrip
  <2>5. ret' = ret \/ ret'.kind \notin {"got", "crc"}
    <3>1. ASSUME Locate PROVE ret'.kind \notin {"got", "crc"}
      <4>1. PICK fix, loc : ret' = [kind |-> "located", fix |-> fix, loc |-> loc]
        BY <3>1, Zenon DEF Locate
      <4>2. QED
        BY <4>1
    <3>2. ASSUME Reported(ret') PROVE ret'.kind \notin {"got", "crc"}
      <4>1. PICK name, loc, snr, fix, bits :
              ret' = [kind |-> "report", name |-> name, loc |-> loc, snr |-> snr, fix |-> fix, bits |-> bits]
        BY <3>2, Zenon DEF Reported
      <4>2. QED
        BY <4>1
    <3>3. QED
      BY <1>2, <3>1, <3>2, TellingSteps DEF Telling
  <2>6. QED
    BY <2>2, <2>3, <2>4, <2>5
<1>3. QED
  BY <1>1, <1>2

LEMMA ReadInit == InitApp => MtInv /\ InboxInv /\ RoundTrip
<1> SUFFICES ASSUME InitApp PROVE MtInv /\ InboxInv /\ RoundTrip
  OBVIOUS
<1>1. mt = <<>> /\ ret = Idle /\ inbox = [k \in DOMAIN Schemas |-> NewMessage(Schemas[k])]
  BY DEF InitApp, InitExchange, Init
<1>2. MtInv
  BY <1>1 DEF MtInv
<1>3. ret.kind \notin {"got", "crc"}
  BY <1>1 DEF Idle
<1>4. ASSUME NEW k \in DOMAIN Schemas PROVE Shaped(Schemas[k], inbox[k])
  <2>1. IsSchema(Schemas[k])
    BY ExchangeAssumption DEF IsSchema
  <2>2. inbox[k] = NewMessage(Schemas[k])
    BY <1>1
  <2>3. QED
    BY <2>1, <2>2, NewShaped
<1>5. InboxInv
  BY <1>1, <1>4 DEF InboxInv
<1>6. QED
  BY <1>2, <1>3, <1>5 DEF RoundTrip

(* A message that is retrieved has the values it was sent with, in every   *)
(* field that was included, whatever the object had decoded before, and the*)
(* others are as they were; a garbled response is refused, and no other is:*)
(* for any schemas and payloads, as far as the code can carry the fields.  *)
THEOREM MessagesArrive == Spec => []RoundTrip
<1>1. InitApp => AppsInv /\ MtInv /\ InboxInv /\ RoundTrip
  BY InitApps, ReadInit
<1>2. AppsInv /\ MtInv /\ InboxInv /\ RoundTrip /\ [Next]_vars
        => AppsInv' /\ MtInv' /\ InboxInv' /\ RoundTrip'
  BY AppsStep, MtStep, ReadStep DEF AppsInv
<1>3. QED
  BY <1>1, <1>2, PTL DEF Spec
===============================================================================
