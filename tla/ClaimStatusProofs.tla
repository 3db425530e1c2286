-------------------------- MODULE ClaimStatusProofs -------------------------
(***************************************************************************)
(* Theorems about ClaimStatus: whatever conflicts, lost answers, late      *)
(* updates and other writers there are, the network data of the last       *)
(* sandbox ends up in the status of its claim, and entries of others are   *)
(* lost on retries only.                                                   *)
(***************************************************************************)
EXTENDS ClaimStatus, SequenceTheorems, TLAPS

\* A list names every device of this driver.
AllOurs(list) ==
    \A i \in DOMAIN Results : \E j \in DOMAIN list :
        list[j].driver = "us" /\ list[j].device = Results[i]

\* The entries of this driver's devices carry the data of sandbox n.
OursCarry(list, n) ==
    \A j \in DOMAIN list : list[j].driver = "us" => list[j].data = n

\* The claim object: a list that names one device of this driver names all of
\* them, and one that a prepare wrote does.
ObjectInv ==
    /\ api.uid <= uids /\ listed.uid <= uids /\ record <= uids /\ sandbox.uid <= uids
    /\ api.uid = 0 => api = NoClaim
    /\ ListsOurs(api.devices) => AllOurs(api.devices)
    /\ api.uid # 0 /\ listed.uid = api.uid => AllOurs(api.devices)

\* What writer w holds, against object a, the u-th claim being the last: its copy
\* is not newer than the object, its list is complete, and at the first attempt
\* it has every entry of others that the object has.
WriterOK(w, a, u) ==
    w.stage \in {"update", "fetch"} =>
        /\ w.claim.uid > 0 /\ w.claim.uid <= u
        /\ w.claim.uid = a.uid => w.claim.version <= a.version
        /\ AllOurs(w.claim.devices) /\ AllOurs(w.original)
        /\ w.stage = "update" /\ w.tries = 0 /\ w.claim.uid = a.uid
           /\ w.claim.version = a.version => Their(w.claim.devices) = Their(a.devices)

\* The lists of the runner carry the data of the update it handles.
RunnerInv ==
    runner.stage \in {"update", "fetch"} =>
        OursCarry(runner.claim.devices, update) /\ OursCarry(runner.original, update)

\* The channel holds the updates the runner has not received yet, in order.
QueueInv ==
    /\ update + Len(queue) = sandbox.number
    /\ \A i \in DOMAIN queue : queue[i] = update + i

\* The last update is handled: its data is in the status, or its loss is logged.
DeliveredInv ==
    runner = IdleWriter /\ queue = <<>> /\ api.uid # 0 /\ sandbox.uid = api.uid
    /\ sandbox.number > listed.number /\ lost # sandbox.number
    => OursCarry(api.devices, sandbox.number)

StatusInv ==
    /\ TypeOK /\ ObjectInv /\ others \in Nat /\ theirs <= others
    /\ WriterOK(hook, api, uids) /\ WriterOK(runner, api, uids)
    /\ RunnerInv /\ QueueInv /\ DeliveredInv

-----------------------------------------------------------------------------
(* Lists of device statuses *)

\* What the definitions say of a list is a matter of the entries at its indices.
LEMMA ListOf ==
    ASSUME NEW S, NEW n \in Nat, NEW f \in [1 .. n -> S]
    PROVE  f \in Seq(S) /\ Len(f) = n /\ DOMAIN f = 1 .. n
  OBVIOUS

\* The devices of this driver, as prepareDevices lists them.
LEMMA OursType == \A data \in Nat : Ours(data) \in Seq(Entries)
  <1> TAKE data \in Nat
  <1>1. Len(Results) \in Nat /\ DOMAIN Results = 1 .. Len(Results)
    BY StatusAssumption
  <1>2. Ours(data) \in [1 .. Len(Results) -> Entries]
    BY <1>1 DEF Ours, Entry, Entries
  <1> QED BY <1>1, <1>2, ListOf

\* The list of a prepare: the entries of the claim and every device of this driver.
LEMMA WithOursIs ==
    ASSUME NEW list \in Seq(Entries)
    PROVE  /\ WithOurs(list) \in Seq(Entries) /\ AllOurs(WithOurs(list))
           /\ Their(WithOurs(list)) = Their(list)
  <1> DEFINE o == Ours(0)
             r == list \o o
  <1>1. o \in Seq(Entries) BY OursType
  <1>2. /\ r \in Seq(Entries) /\ Len(r) = Len(list) + Len(o)
        /\ \A i \in 1 .. Len(list) + Len(o) :
              r[i] = IF i <= Len(list) THEN list[i] ELSE o[i - Len(list)]
    <2> HIDE DEF o
    <2> QED BY <1>1, ConcatProperties, Zenon
  <1>3. /\ DOMAIN Results = 1 .. Len(Results) /\ Len(Results) \in Nat
        /\ Len(o) = Len(Results)
        /\ \A i \in 1 .. Len(Results) : o[i].driver = "us" /\ o[i].device = Results[i]
    <2>1. DOMAIN Results = 1 .. Len(Results) /\ Len(Results) \in Nat
      BY StatusAssumption
    <2>2. DOMAIN o = 1 .. Len(Results) BY <2>1 DEF Ours
    <2>3. \A i \in 1 .. Len(Results) : o[i] = Entry("us", Results[i], 0)
      BY <2>1 DEF Ours
    <2>4. Len(o) = Len(Results)
      <3> HIDE DEF o
      <3> QED BY <1>1, <2>1, <2>2
    <2>5. \A i \in 1 .. Len(Results) : o[i].driver = "us" /\ o[i].device = Results[i]
      <3> TAKE i \in 1 .. Len(Results)
      <3>1. o[i] = [driver |-> "us", device |-> Results[i], data |-> 0]
        BY <2>3 DEF Entry
      <3> HIDE DEF o
      <3> QED BY <3>1
    <2> HIDE DEF o
    <2> QED BY <2>1, <2>4, <2>5
  <1>4. Len(list) \in Nat /\ DOMAIN list = 1 .. Len(list) /\ DOMAIN r = 1 .. Len(list) + Len(o)
    <2> HIDE DEF o, r
    <2> QED BY <1>2, <1>3
  <1> HIDE DEF o, r
  <1>5. AllOurs(r)
    <2> SUFFICES ASSUME NEW i \in DOMAIN Results
                 PROVE  \E j \in DOMAIN r : r[j].driver = "us" /\ r[j].device = Results[i]
      BY DEF AllOurs
    <2>1. i + Len(list) \in DOMAIN r /\ r[i + Len(list)] = o[i]
      BY <1>2, <1>3, <1>4
    <2> QED BY <2>1, <1>3
  <1>6. Their(r) = Their(list)
    <2>1. TheirIndices(r) = TheirIndices(list)
      BY <1>2, <1>3, <1>4 DEF TheirIndices
    <2>2. \A i \in TheirIndices(list) : r[i] = list[i]
      BY <1>2, <1>3, <1>4 DEF TheirIndices
    <2> QED BY <2>1, <2>2 DEF Their
  <1>7. r = WithOurs(list) BY DEF r, o, WithOurs
  <1> QED BY <1>2, <1>5, <1>6, <1>7

\* The list of the runner: the same devices, those of this driver with the data
\* of the update.
LEMMA WithNetworkDataIs ==
    ASSUME NEW list \in Seq(Entries), update \in Nat
    PROVE  /\ WithNetworkData(list) \in Seq(Entries)
           /\ AllOurs(list) => AllOurs(WithNetworkData(list))
           /\ OursCarry(WithNetworkData(list), update)
           /\ Their(WithNetworkData(list)) = Their(list)
  <1> DEFINE r == WithNetworkData(list)
  <1>1. Len(list) \in Nat /\ DOMAIN list = 1 .. Len(list)
        /\ \A i \in DOMAIN list : list[i] \in Entries
    OBVIOUS
  <1>2. DOMAIN r = DOMAIN list BY DEF WithNetworkData
  <1>3. \A i \in DOMAIN list :
          /\ r[i] \in Entries /\ r[i].driver = list[i].driver
          /\ r[i].device = list[i].device
          /\ list[i].driver = "us" => r[i].data = update
          /\ list[i].driver # "us" => r[i] = list[i]
    BY <1>1 DEF WithNetworkData, Entries
  <1>4. r \in [1 .. Len(list) -> Entries]
    BY <1>1, <1>3 DEF WithNetworkData
  <1>5. r \in Seq(Entries) BY <1>1, <1>4, ListOf
  <1>6. TheirIndices(r) = TheirIndices(list)
        /\ \A i \in TheirIndices(list) : r[i] = list[i]
    BY <1>2, <1>3 DEF TheirIndices
  <1> HIDE DEF r
  <1>7. AllOurs(list) => AllOurs(r) BY <1>2, <1>3 DEF AllOurs
  <1>8. OursCarry(r, update) BY <1>2, <1>3 DEF OursCarry
  <1>9. Their(r) = Their(list) BY <1>6 DEF Their
  <1> QED BY <1>5, <1>7, <1>8, <1>9 DEF r

\* A write of the other driver leaves the entries of this one alone.
LEMMA WithTheirsIs ==
    ASSUME NEW list \in Seq(Entries), NEW e \in Entries, e.driver = "them"
    PROVE  /\ WithTheirs(list, e) \in Seq(Entries)
           /\ ListsOurs(WithTheirs(list, e)) => ListsOurs(list)
           /\ AllOurs(list) => AllOurs(WithTheirs(list, e))
           /\ \A n : OursCarry(list, n) => OursCarry(WithTheirs(list, e), n)
  <1> DEFINE r == WithTheirs(list, e)
  <1>1. Len(list) \in Nat /\ DOMAIN list = 1 .. Len(list)
        /\ \A i \in DOMAIN list : list[i] \in Entries
    OBVIOUS
  <1>2. /\ r \in Seq(Entries) /\ DOMAIN list \subseteq DOMAIN r
        /\ \A i \in DOMAIN r : r[i] = e \/ (i \in DOMAIN list /\ r[i] = list[i])
        /\ \A i \in DOMAIN list : list[i].driver = "us" => r[i] = list[i]
    <2>1. CASE TheirIndices(list) = {}
      <3>1. r = Append(list, e) BY <2>1 DEF WithTheirs
      <3>2. /\ r \in Seq(Entries) /\ Len(r) = Len(list) + 1
            /\ \A i \in 1 .. Len(list) : r[i] = list[i]
            /\ r[Len(list) + 1] = e
        BY <3>1
      <3> HIDE DEF r
      <3>3. DOMAIN r = 1 .. Len(list) + 1 BY <1>1, <3>2
      <3> QED BY <1>1, <3>2, <3>3
    <2>2. CASE TheirIndices(list) # {}
      <3>1. r = [i \in DOMAIN list |-> IF i \in TheirIndices(list) THEN e ELSE list[i]]
        BY <2>2 DEF WithTheirs
      <3>2. r \in [1 .. Len(list) -> Entries] BY <3>1, <1>1
      <3>3. \A i \in DOMAIN list : list[i].driver = "us" => i \notin TheirIndices(list)
        BY DEF TheirIndices
      <3>4. r \in Seq(Entries) BY <1>1, <3>2, ListOf
      <3> QED BY <1>1, <3>1, <3>3, <3>4
    <2> QED BY <2>1, <2>2
  <1> HIDE DEF r
  <1>3. ListsOurs(r) => ListsOurs(list) BY <1>2 DEF ListsOurs
  <1>4. AllOurs(list) => AllOurs(r)
    <2> SUFFICES ASSUME AllOurs(list), NEW i \in DOMAIN Results
                 PROVE  \E j \in DOMAIN r : r[j].driver = "us" /\ r[j].device = Results[i]
      BY DEF AllOurs
    <2>1. PICK j \in DOMAIN list : list[j].driver = "us" /\ list[j].device = Results[i]
      BY DEF AllOurs
    <2> QED BY <2>1, <1>2
  <1>5. \A n : OursCarry(list, n) => OursCarry(r, n)
    BY <1>2 DEF OursCarry
  <1> QED BY <1>2, <1>3, <1>4, <1>5 DEF r

\* Receiving from a channel that holds the numbers that follow n.
LEMMA TailIs ==
    ASSUME NEW q \in Seq(Nat), q # <<>>, NEW n \in Nat, \A i \in DOMAIN q : q[i] = n + i
    PROVE  /\ Tail(q) \in Seq(Nat) /\ Len(Tail(q)) = Len(q) - 1 /\ Head(q) = n + 1
           /\ \A i \in DOMAIN Tail(q) : Tail(q)[i] = n + 1 + i
  <1>1. Len(q) \in Nat /\ Len(q) > 0 /\ DOMAIN q = 1 .. Len(q) OBVIOUS
  <1>2. /\ Tail(q) \in Seq(Nat) /\ Len(Tail(q)) = Len(q) - 1
        /\ \A i \in 1 .. Len(q) - 1 : Tail(q)[i] = q[i + 1]
    OBVIOUS
  <1>3. DOMAIN Tail(q) = 1 .. Len(q) - 1 BY <1>2
  <1> QED BY <1>1, <1>2, <1>3

-----------------------------------------------------------------------------
(* Writers *)

\* The object after a write of its list of devices.
LEMMA RewriteIs ==
    ASSUME NEW a \in Objects, NEW l \in Seq(Entries)
    PROVE  LET b == [a EXCEPT !.version = @ + 1, !.devices = l]
           IN  b \in Objects /\ b.uid = a.uid /\ b.version = a.version + 1 /\ b.devices = l
  <1>1. a.version \in Nat /\ a.version + 1 \in Nat BY DEF Objects
  <1> QED BY <1>1 DEF Objects

\* What a writer holds stays right when the object it read is changed, deleted or
\* created again.
LEMMA WriterKept ==
    ASSUME NEW w \in Writers, NEW a \in Objects, NEW b \in Objects,
           NEW u \in Nat, NEW v \in Nat, WriterOK(w, a, u), u <= v,
           \/ b = a
           \/ b.uid = a.uid /\ b.version = a.version + 1
           \/ b.uid = 0 \/ b.uid > u
    PROVE  WriterOK(w, b, v)
  <1>1. /\ w.claim.uid \in Nat /\ w.claim.version \in Nat
        /\ a.uid \in Nat /\ a.version \in Nat /\ b.uid \in Nat /\ b.version \in Nat
    BY DEF Writers, Objects
  <1> QED BY <1>1 DEF WriterOK

\* A writer without an update.
LEMMA IdleIsWriter ==
    IdleWriter \in Writers /\ IdleWriter.stage = "idle" /\ NoClaim \in Objects
  BY StatusAssumption DEF IdleWriter, NoClaim, Writers, Objects

\* A failed attempt ends the update or is counted.
LEMMA FailedTryIs ==
    ASSUME NEW w \in Writers
    PROVE  /\ FailedTry(w) \in Writers
           /\ \/ FailedTry(w) = IdleWriter
              \/ /\ FailedTry(w).stage = w.stage /\ FailedTry(w).claim = w.claim
                 /\ FailedTry(w).original = w.original /\ FailedTry(w).tries > 0
  <1>1. IdleWriter \in Writers BY IdleIsWriter
  <1>2. CASE w.tries + 1 < Steps
    <2>1. FailedTry(w) = [w EXCEPT !.tries = w.tries + 1] BY <1>2 DEF FailedTry
    <2>2. w.tries \in 0 .. Steps - 1 BY DEF Writers
    <2>3. w.tries + 1 \in 0 .. Steps - 1 /\ w.tries + 1 > 0
      BY <1>2, <2>2, StatusAssumption
    <2> QED BY <2>1, <2>3 DEF Writers
  <1>3. CASE ~(w.tries + 1 < Steps)
    BY <1>1, <1>3 DEF FailedTry
  <1> QED BY <1>2, <1>3

\* One call of a writer: it leaves the object alone or writes its list over the
\* version it read, and keeps a copy that is in order.
LEMMA WriterStep ==
    ASSUME TypeOK, NEW w \in Writers, NEW next, Update(w, next) \/ Fetch(w, next),
           WriterOK(w, api, uids), api.uid <= uids
    PROVE  /\ next \in Writers /\ WriterOK(next, api', uids)
           /\ \/ api' = api
              \/ /\ api' = Written(w) /\ w.stage = "update"
                 /\ w.claim.uid = api.uid /\ w.claim.version = api.version
                 /\ next.stage \in {"idle", "update"}
           /\ w.stage \in {"update", "fetch"} /\ api' \in Objects
           /\ \/ next = IdleWriter
              \/ /\ next.stage \in {"update", "fetch"} /\ next.original = w.original
                 /\ next.claim.devices \in {w.claim.devices, w.original}
  <1>0. /\ api \in Objects /\ uids \in Nat /\ IdleWriter \in Writers
        /\ \A a, u : WriterOK(IdleWriter, a, u)
    BY IdleIsWriter DEF TypeOK, WriterOK
  <1>1. /\ w.claim \in Objects /\ w.claim.devices \in Seq(Entries)
        /\ w.original \in Seq(Entries)
    BY DEF Writers, Objects
  <1>2. Written(w) \in Objects /\ Written(w).uid = api.uid
        /\ Written(w).version = api.version + 1
    BY <1>0, <1>1, RewriteIs DEF Written
  <1>3. ASSUME NEW x \in Writers, x.stage \in {"update", "fetch"}, x.claim.uid > 0, x.claim.uid <= uids,
               x.claim.uid = api.uid => x.claim.version <= api.version,
               AllOurs(x.claim.devices), AllOurs(x.original),
               x.original = w.original, x.claim.devices \in {w.claim.devices, w.original},
               NEW b \in {api, Written(w)}
        PROVE  /\ FailedTry(x) \in Writers /\ WriterOK(FailedTry(x), b, uids)
               /\ \/ FailedTry(x) = IdleWriter
                  \/ /\ FailedTry(x).stage = x.stage
                     /\ FailedTry(x).original = w.original
                     /\ FailedTry(x).claim.devices \in {w.claim.devices, w.original}
    <2>1. CASE FailedTry(x) = IdleWriter
      BY <2>1, <1>0
    <2>2. CASE FailedTry(x) # IdleWriter
      <3> DEFINE y == FailedTry(x)
      <3>1. /\ y \in Writers /\ y.stage = x.stage /\ y.claim = x.claim
            /\ y.original = x.original /\ y.tries > 0 /\ y.tries # 0
        BY <2>2, <1>3, FailedTryIs DEF Writers
      <3> HIDE DEF y
      <3>2. WriterOK(y, b, uids)
        <4>1. y.claim.version \in Nat /\ y.claim.uid \in Nat /\ api.version \in Nat
          BY <3>1, <1>0 DEF Writers, Objects
        <4>2. b.uid = api.uid /\ b.version >= api.version /\ b.version \in Nat
          BY <1>2, <1>3, <4>1
        <4> QED BY <3>1, <1>3, <4>1, <4>2 DEF WriterOK
      <3> QED BY <3>1, <3>2, <1>3 DEF y
    <2> QED BY <2>1, <2>2
  <1>4. ASSUME Update(w, next) PROVE w.stage = "update" BY <1>4 DEF Update
  <1>5. w.stage \in {"update", "fetch"} BY <1>4 DEF Fetch
  <1>6. /\ w.claim.uid > 0 /\ w.claim.uid <= uids
        /\ w.claim.uid = api.uid => w.claim.version <= api.version
        /\ AllOurs(w.claim.devices) /\ AllOurs(w.original)
    BY <1>5 DEF WriterOK
  <1>7. ASSUME Answer(w.claim) = "ok"
        PROVE  w.claim.uid = api.uid /\ w.claim.version = api.version
    BY <1>7 DEF Answer
  <1>8. CASE Update(w, next)
    <2>1. CASE Answer(w.claim) = "ok" /\ api' = Written(w) /\ next = IdleWriter
      <3>1. IdleWriter.stage = "idle" BY DEF IdleWriter
      <3> QED BY <2>1, <3>1, <1>0, <1>2, <1>4, <1>5, <1>7, <1>8
    <2>2. CASE api' = api /\ next = [w EXCEPT !.stage = "fetch"]
      <3>1. /\ next \in Writers /\ next.stage = "fetch" /\ next.claim = w.claim
            /\ next.original = w.original
        BY <2>2 DEF Writers
      <3>2. WriterOK(next, api, uids) BY <3>1, <1>6 DEF WriterOK
      <3> QED BY <2>2, <3>1, <3>2, <1>0, <1>5
    <2>3. CASE api' = api /\ next = FailedTry(w)
      BY <2>3, <1>0, <1>3, <1>5, <1>6
    <2>4. CASE Answer(w.claim) = "ok" /\ api' \in {api, Written(w)} /\ next = FailedTry(w)
      <3>1. /\ next \in Writers /\ WriterOK(next, api', uids)
            /\ \/ next = IdleWriter
               \/ /\ next.stage = w.stage /\ next.original = w.original
                  /\ next.claim.devices \in {w.claim.devices, w.original}
        BY <2>4, <1>3, <1>5, <1>6
      <3>2. IdleWriter.stage = "idle" BY DEF IdleWriter
      <3> QED BY <2>4, <3>1, <3>2, <1>0, <1>2, <1>4, <1>5, <1>7, <1>8
    <2> QED BY <1>8, <2>1, <2>2, <2>3, <2>4 DEF Update
  <1>9. CASE Fetch(w, next)
    <2>0. api' = api /\ w.stage = "fetch" BY <1>9 DEF Fetch
    <2>1. CASE api.uid # 0 /\ next = FailedTry([Refreshed(w) EXCEPT !.stage = "update"])
      <3> DEFINE x == [Refreshed(w) EXCEPT !.stage = "update"]
      <3>1. /\ x \in Writers /\ x.stage = "update" /\ x.original = w.original
            /\ x.claim.uid = api.uid /\ x.claim.version = api.version
            /\ x.claim.devices = w.original
        BY <1>0, <1>1 DEF Refreshed, Writers, Objects
      <3>2. api.uid > 0 /\ api.version <= api.version BY <2>1, <1>0 DEF Objects
      <3> HIDE DEF x
      <3>3. /\ FailedTry(x) \in Writers /\ WriterOK(FailedTry(x), api, uids)
            /\ \/ FailedTry(x) = IdleWriter
               \/ /\ FailedTry(x).stage = x.stage
                  /\ FailedTry(x).original = w.original
                  /\ FailedTry(x).claim.devices \in {w.claim.devices, w.original}
        BY <3>1, <3>2, <1>3, <1>6
      <3>4. next = FailedTry(x) BY <2>1 DEF x
      <3> QED BY <2>0, <3>1, <3>3, <3>4, <1>0, <1>5
    <2>2. CASE next = FailedTry([w EXCEPT !.stage = "update"])
      <3> DEFINE x == [w EXCEPT !.stage = "update"]
      <3>1. /\ x \in Writers /\ x.stage = "update" /\ x.original = w.original
            /\ x.claim = w.claim
        BY DEF Writers
      <3> HIDE DEF x
      <3>3. /\ FailedTry(x) \in Writers /\ WriterOK(FailedTry(x), api, uids)
            /\ \/ FailedTry(x) = IdleWriter
               \/ /\ FailedTry(x).stage = x.stage
                  /\ FailedTry(x).original = w.original
                  /\ FailedTry(x).claim.devices \in {w.claim.devices, w.original}
        BY <3>1, <1>3, <1>6
      <3>4. next = FailedTry(x) BY <2>2 DEF x
      <3> QED BY <2>0, <3>1, <3>3, <3>4, <1>0, <1>5
    <2> QED BY <1>9, <2>1, <2>2 DEF Fetch
  <1> QED BY <1>8, <1>9

-----------------------------------------------------------------------------
(* The invariant is inductive *)

\* At first there is no claim, no writer and no sandbox.
LEMMA StatusInvInit == Init => StatusInv
  <1> SUFFICES ASSUME Init PROVE StatusInv OBVIOUS
  <1> USE DEF Init, NoClaim, IdleWriter
  <1>1. TypeOK BY StatusAssumption DEF TypeOK, Writers, Objects
  <1>2. ObjectInv BY DEF ObjectInv, ListsOurs
  <1>3. WriterOK(hook, api, uids) /\ WriterOK(runner, api, uids) /\ RunnerInv
    BY DEF WriterOK, RunnerInv
  <1>4. QueueInv BY DEF QueueInv
  <1>5. DeliveredInv BY DEF DeliveredInv
  <1> QED BY <1>1, <1>2, <1>3, <1>4, <1>5 DEF StatusInv

\* A prepare takes a copy of the current object.
LEMMA PrepareKeeps ==
    ASSUME StatusInv, PrepareResourceClaim
    PROVE  StatusInv'
  <1> USE DEF StatusInv
  <1>1. UNCHANGED <<api, uids, queue, runner, update, sandbox, theirs, listed, lost,
                    others>> /\ record' = api.uid /\ api.uid # 0
    BY DEF PrepareResourceClaim
  <1>2. api \in Objects /\ api.devices \in Seq(Entries) /\ api.uid \in Nat /\ api.version \in Nat
    BY DEF TypeOK, Objects
  <1> DEFINE l == WithOurs(api.devices)
  <1>3. l \in Seq(Entries) /\ AllOurs(l) /\ Their(l) = Their(api.devices)
    BY <1>2, WithOursIs
  <1>4. hook' = [stage |-> "update", claim |-> [api EXCEPT !.devices = l],
                 original |-> l, tries |-> 0]
    BY DEF PrepareResourceClaim
  <1> HIDE DEF l
  <1>5. /\ hook' \in Writers /\ hook'.claim.uid = api.uid
        /\ hook'.claim.version = api.version /\ hook'.claim.devices = l
        /\ hook'.original = l
    <2> DEFINE c == [api EXCEPT !.devices = l]
    <2>1. c \in Objects /\ c.uid = api.uid /\ c.version = api.version /\ c.devices = l
      BY <1>2, <1>3 DEF Objects
    <2>2. hook' = [stage |-> "update", claim |-> c, original |-> l, tries |-> 0]
      BY <1>4
    <2> HIDE DEF c
    <2>3. 0 \in 0 .. Steps - 1 BY StatusAssumption
    <2> QED BY <1>3, <2>1, <2>2, <2>3 DEF Writers
  <1>6. TypeOK' BY <1>1, <1>2, <1>5 DEF TypeOK
  <1>7. ObjectInv' BY <1>1 DEF ObjectInv, ListsOurs, AllOurs
  <1>8. WriterOK(hook, api, uids)'
    BY <1>1, <1>2, <1>3, <1>5 DEF WriterOK, ObjectInv
  <1>9. (WriterOK(runner, api, uids) /\ RunnerInv)' BY <1>1 DEF RunnerInv
  <1>10. (QueueInv /\ DeliveredInv)' BY <1>1 DEF QueueInv, DeliveredInv
  <1> QED BY <1>1, <1>6, <1>7, <1>8, <1>9, <1>10

\* The hook writes a complete list, and notes that it listed the devices.
LEMMA HookKeeps ==
    ASSUME StatusInv, UpdatePreparedStatus
    PROVE  StatusInv'
  <1> USE DEF StatusInv
  <1>1. /\ UNCHANGED <<uids, record, queue, runner, update, sandbox, theirs, lost, others>>
        /\ Update(hook, hook') \/ Fetch(hook, hook')
        /\ listed' = IF api' # api THEN [sandbox EXCEPT !.uid = api.uid] ELSE listed
    BY DEF UpdatePreparedStatus
  <1>2. /\ api \in Objects /\ api.uid \in Nat /\ api.version \in Nat /\ uids \in Nat
        /\ hook \in Writers /\ runner \in Writers /\ sandbox \in [number : Nat, uid : Nat]
    BY DEF TypeOK, Objects
  <1>3. /\ hook' \in Writers /\ WriterOK(hook', api', uids) /\ api' \in Objects
        /\ \/ api' = api
           \/ /\ api' = Written(hook) /\ hook.stage = "update"
              /\ hook.claim.uid = api.uid /\ hook.claim.version = api.version
    BY <1>1, <1>2, WriterStep DEF ObjectInv
  <1>4. CASE api' = api
    <2>1. listed' = listed BY <1>1, <1>4
    <2>2. TypeOK' BY <1>1, <1>3, <1>4, <2>1 DEF TypeOK
    <2>3. (ObjectInv /\ QueueInv /\ DeliveredInv /\ WriterOK(runner, api, uids) /\ RunnerInv)'
      BY <1>1, <1>4, <2>1
         DEF ObjectInv, QueueInv, DeliveredInv, RunnerInv, ListsOurs, AllOurs
    <2> QED BY <1>1, <1>3, <2>2, <2>3
  <1>5. CASE api' = Written(hook) /\ hook.stage = "update"
             /\ hook.claim.uid = api.uid /\ hook.claim.version = api.version
    <2>1. /\ api'.uid = api.uid /\ api'.version = api.version + 1
          /\ api'.devices = hook.claim.devices
      BY <1>2, <1>5 DEF Written, Objects
    <2>2. AllOurs(hook.claim.devices) /\ api.uid > 0 BY <1>5 DEF WriterOK
    <2>3. api' # api BY <1>2, <2>1
    <2>4. listed' \in [number : Nat, uid : Nat] /\ listed'.number = sandbox.number
          /\ listed'.uid = api.uid
      BY <1>1, <1>2, <2>3
    <2>5. TypeOK' BY <1>1, <1>3, <2>4 DEF TypeOK
    <2>6. ObjectInv' BY <1>1, <2>1, <2>2, <2>4, <1>2 DEF ObjectInv, ListsOurs, AllOurs
    <2>7. WriterOK(runner, api', uids)
      BY <1>2, <1>3, <2>1, WriterKept
    <2>8. DeliveredInv' BY <1>1, <1>2, <2>4 DEF DeliveredInv
    <2>9. (QueueInv /\ RunnerInv)' BY <1>1 DEF QueueInv, RunnerInv
    <2> QED BY <1>1, <1>3, <2>5, <2>6, <2>7, <2>8, <2>9
  <1> QED BY <1>3, <1>4, <1>5

\* The runner takes the next sandbox from the channel.
LEMMA ReceiveKeeps ==
    ASSUME StatusInv, ReceiveUpdate
    PROVE  StatusInv'
  <1> USE DEF StatusInv
  <1>1. UNCHANGED <<api, uids, record, hook, sandbox, theirs, listed, lost, others>>
        /\ update' = Head(queue) /\ queue' = Tail(queue) /\ queue # <<>>
        /\ runner' = [IdleWriter EXCEPT !.stage = "get"]
    BY DEF ReceiveUpdate
  <1>2. queue \in Seq(Nat) /\ update \in Nat /\ sandbox.number \in Nat BY DEF TypeOK
  <1>3. /\ runner' \in Writers /\ runner'.stage = "get"
    BY <1>1, IdleIsWriter DEF Writers
  <1>4. /\ update' \in Nat /\ queue' \in Seq(Nat)
        /\ update' = update + 1 /\ Len(queue') = Len(queue) - 1
        /\ \A i \in DOMAIN queue' : queue'[i] = update + 1 + i
    BY <1>1, <1>2, TailIs DEF QueueInv
  <1>5. TypeOK' BY <1>1, <1>3, <1>4 DEF TypeOK
  <1>6. QueueInv'
    <2>1. Len(queue) \in Nat BY <1>2
    <2> QED BY <1>1, <1>2, <1>4, <2>1 DEF QueueInv
  <1>7. (WriterOK(hook, api, uids) /\ WriterOK(runner, api, uids) /\ RunnerInv)'
    BY <1>1, <1>3 DEF WriterOK, RunnerInv
  <1>8. (ObjectInv /\ DeliveredInv)'
    BY <1>1, <1>3 DEF ObjectInv, DeliveredInv, IdleWriter, ListsOurs, AllOurs
  <1> QED BY <1>1, <1>5, <1>6, <1>7, <1>8

\* The runner takes a copy of the object of that name, or drops the update.
LEMMA GetKeeps ==
    ASSUME StatusInv, GetClaim
    PROVE  StatusInv'
  <1> USE DEF StatusInv
  <1>1. UNCHANGED <<api, uids, record, hook, queue, update, sandbox, theirs, listed, others>>
    BY DEF GetClaim
  <1>2. /\ api \in Objects /\ api.devices \in Seq(Entries) /\ api.uid \in Nat
        /\ api.version \in Nat /\ update \in Nat /\ sandbox.number \in Nat /\ lost \in Nat
        /\ queue \in Seq(Nat)
    BY DEF TypeOK, Objects
  <1>3. (ObjectInv /\ QueueInv /\ WriterOK(hook, api, uids))'
    BY <1>1 DEF ObjectInv, QueueInv, ListsOurs, AllOurs
  <1>4. CASE ListsOurs(api.devices) /\ UNCHANGED lost
             /\ runner' = [stage |-> "update", tries |-> 0,
                           claim |-> [api EXCEPT !.devices = WithNetworkData(api.devices)],
                           original |-> WithNetworkData(api.devices)]
    <2> DEFINE l == WithNetworkData(api.devices)
               c == [api EXCEPT !.devices = l]
    <2>1. /\ l \in Seq(Entries) /\ AllOurs(l) /\ Their(l) = Their(api.devices)
          /\ OursCarry(l, update)
      BY <1>2, <1>4, WithNetworkDataIs DEF ObjectInv
    <2>2. runner' = [stage |-> "update", tries |-> 0, claim |-> c, original |-> l]
      BY <1>4
    <2> HIDE DEF l
    <2>3. c \in Objects /\ c.uid = api.uid /\ c.version = api.version /\ c.devices = l
      BY <1>2, <2>1 DEF Objects
    <2> HIDE DEF c
    <2>4. 0 \in 0 .. Steps - 1 BY StatusAssumption
    <2>5. /\ runner' \in Writers /\ runner'.claim = c /\ runner'.original = l
          /\ runner'.stage = "update"
      BY <2>1, <2>2, <2>3, <2>4 DEF Writers
    <2>6. TypeOK' BY <1>1, <1>4, <2>5 DEF TypeOK
    <2>7. api.uid # 0 BY <1>4 DEF ObjectInv, NoClaim, ListsOurs
    <2>8. WriterOK(runner, api, uids)'
      BY <1>1, <1>2, <2>1, <2>3, <2>5, <2>7 DEF WriterOK, ObjectInv
    <2>9. RunnerInv' BY <1>1, <2>1, <2>3, <2>5 DEF RunnerInv, OursCarry
    <2>10. DeliveredInv' BY <2>5, IdleIsWriter DEF DeliveredInv
    <2> QED BY <1>1, <1>3, <2>6, <2>8, <2>9, <2>10
  <1>5. CASE runner' = IdleWriter
             /\ ((~ListsOurs(api.devices) /\ UNCHANGED lost) \/ lost' = update)
    <2>1. TypeOK' BY <1>1, <1>2, <1>5, IdleIsWriter DEF TypeOK
    <2>2. (WriterOK(runner, api, uids) /\ RunnerInv)'
      BY <1>5, IdleIsWriter DEF WriterOK, RunnerInv
    <2>3. DeliveredInv'
      <3>1. CASE ~ListsOurs(api.devices)
        BY <1>1, <3>1 DEF DeliveredInv, ListsOurs, OursCarry
      <3>2. CASE lost' = update
        <4>1. queue = <<>> => update = sandbox.number BY <1>2 DEF QueueInv
        <4> QED BY <1>1, <3>2, <4>1 DEF DeliveredInv
      <3> QED BY <1>5, <3>1, <3>2
    <2> QED BY <1>1, <1>3, <2>1, <2>2, <2>3
  <1> QED BY <1>4, <1>5 DEF GetClaim

\* The runner writes the data of its update, or logs that it is lost.
LEMMA RunnerKeeps ==
    ASSUME StatusInv, UpdateClaimNetworkDataWithRetry
    PROVE  StatusInv'
  <1> USE DEF StatusInv
  <1>1. /\ UNCHANGED <<uids, record, hook, queue, update, sandbox, theirs, listed, others>>
        /\ Update(runner, runner') \/ Fetch(runner, runner')
        /\ lost' = IF runner' = IdleWriter /\ api' = api THEN update ELSE lost
    BY DEF UpdateClaimNetworkDataWithRetry
  <1>2. /\ api \in Objects /\ api.uid \in Nat /\ api.version \in Nat /\ uids \in Nat
        /\ hook \in Writers /\ runner \in Writers /\ lost \in Nat /\ update \in Nat
        /\ sandbox.number \in Nat /\ queue \in Seq(Nat)
    BY DEF TypeOK, Objects
  <1>3. /\ runner' \in Writers /\ WriterOK(runner', api', uids) /\ api' \in Objects
        /\ \/ api' = api
           \/ /\ api' = Written(runner) /\ runner.stage = "update"
              /\ runner.claim.uid = api.uid /\ runner.claim.version = api.version
        /\ runner.stage \in {"update", "fetch"}
        /\ \/ runner' = IdleWriter
           \/ /\ runner'.stage \in {"update", "fetch"}
              /\ runner'.original = runner.original
              /\ runner'.claim.devices \in {runner.claim.devices, runner.original}
    BY <1>1, <1>2, WriterStep DEF ObjectInv
  <1>4. lost' \in Nat BY <1>1, <1>2
  <1>5. TypeOK' BY <1>1, <1>3, <1>4 DEF TypeOK
  <1>6. RunnerInv'
    <2>1. OursCarry(runner.claim.devices, update) /\ OursCarry(runner.original, update)
      BY <1>3 DEF RunnerInv
    <2>2. CASE runner' = IdleWriter BY <2>2, IdleIsWriter DEF RunnerInv
    <2>3. CASE runner'.original = runner.original
               /\ runner'.claim.devices \in {runner.claim.devices, runner.original}
      <3>1. OursCarry(runner'.claim.devices, update') /\ OursCarry(runner'.original, update')
        BY <1>1, <2>1, <2>3
      <3> QED BY <3>1 DEF RunnerInv, OursCarry
    <2> QED BY <1>3, <2>2, <2>3
  <1>7. queue = <<>> => update = sandbox.number BY <1>2 DEF QueueInv
  <1>8. QueueInv' BY <1>1 DEF QueueInv
  <1>9. CASE api' = api
    <2>1. (ObjectInv /\ WriterOK(hook, api, uids))'
      BY <1>1, <1>9 DEF ObjectInv, ListsOurs, AllOurs
    <2>2. DeliveredInv' BY <1>1, <1>7, <1>9 DEF DeliveredInv
    <2> QED BY <1>1, <1>3, <1>5, <1>6, <1>8, <2>1, <2>2
  <1>10. CASE api' = Written(runner) /\ runner.stage = "update"
              /\ runner.claim.uid = api.uid /\ runner.claim.version = api.version
    <2>1. /\ api'.uid = api.uid /\ api'.version = api.version + 1
          /\ api'.devices = runner.claim.devices
      BY <1>2, <1>10 DEF Written, Objects
    <2>2. AllOurs(runner.claim.devices) /\ api.uid > 0 BY <1>10 DEF WriterOK
    <2>3. ObjectInv' BY <1>1, <1>2, <2>1, <2>2 DEF ObjectInv, ListsOurs, AllOurs
    <2>4. WriterOK(hook, api', uids)
      <3>1. WriterOK(hook, api, uids) /\ uids <= uids BY <1>2
      <3> QED BY <1>2, <1>3, <2>1, <3>1, WriterKept
    <2>5. OursCarry(api'.devices, update) BY <1>3, <2>1 DEF RunnerInv
    <2>6. DeliveredInv' BY <1>1, <1>7, <2>5 DEF DeliveredInv, OursCarry
    <2> QED BY <1>1, <1>3, <1>5, <1>6, <1>8, <2>3, <2>4, <2>6
  <1> QED BY <1>3, <1>9, <1>10

\* A sandbox is queued behind the updates that wait.
LEMMA RunKeeps ==
    ASSUME StatusInv, RunPodSandbox
    PROVE  StatusInv'
  <1> USE DEF StatusInv
  <1>1. UNCHANGED <<api, uids, record, hook, runner, update, theirs, listed, lost, others>>
        /\ sandbox' = [number |-> sandbox.number + 1, uid |-> record]
        /\ queue' = Append(queue, sandbox.number + 1)
    BY DEF RunPodSandbox
  <1>2. queue \in Seq(Nat) /\ update \in Nat /\ sandbox.number \in Nat /\ record \in Nat
    BY DEF TypeOK
  <1>3. sandbox' \in [number : Nat, uid : Nat] /\ sandbox'.number = sandbox.number + 1
        /\ sandbox'.uid = record
    BY <1>1, <1>2
  <1>4. /\ queue' \in Seq(Nat) /\ Len(queue') = Len(queue) + 1 /\ queue' # <<>>
        /\ Len(queue) \in Nat /\ queue'[Len(queue) + 1] = sandbox.number + 1
        /\ \A i \in DOMAIN queue : queue'[i] = queue[i]
        /\ DOMAIN queue = 1 .. Len(queue) /\ DOMAIN queue' = 1 .. Len(queue) + 1
    BY <1>1, <1>2
  <1>5. TypeOK' BY <1>1, <1>3, <1>4 DEF TypeOK
  <1>6. QueueInv'
    <2>1. \A i \in 1 .. Len(queue) + 1 : queue'[i] = update + i
      <3>1. \A i \in 1 .. Len(queue) : queue'[i] = update + i BY <1>4 DEF QueueInv
      <3>2. queue'[Len(queue) + 1] = update + (Len(queue) + 1)
        BY <1>2, <1>4 DEF QueueInv
      <3>3. \A i \in 1 .. Len(queue) + 1 : i \in 1 .. Len(queue) \/ i = Len(queue) + 1
        BY <1>4
      <3> QED BY <3>1, <3>2, <3>3
    <2>2. update + Len(queue') = sandbox'.number BY <1>2, <1>3, <1>4 DEF QueueInv
    <2> QED BY <1>1, <1>4, <2>1, <2>2 DEF QueueInv
  <1>7. DeliveredInv' BY <1>4 DEF DeliveredInv
  <1>8. (ObjectInv /\ WriterOK(hook, api, uids) /\ WriterOK(runner, api, uids) /\ RunnerInv)'
    BY <1>1, <1>3 DEF ObjectInv, ListsOurs, AllOurs, RunnerInv, OursCarry
  <1> QED BY <1>1, <1>5, <1>6, <1>7, <1>8

\* Forgetting the record changes neither the object nor the writers.
LEMMA UnprepareKeeps ==
    ASSUME StatusInv, UnprepareResourceClaim
    PROVE  StatusInv'
  <1>1. UNCHANGED <<api, uids, hook, queue, runner, update, sandbox, theirs, listed, lost,
                    others>> /\ record' = 0
    BY DEF UnprepareResourceClaim
  <1> USE DEF StatusInv
  <1>2. TypeOK' BY <1>1 DEF TypeOK
  <1>3. ObjectInv' BY <1>1 DEF ObjectInv, ListsOurs, AllOurs, TypeOK
  <1>4. (WriterOK(hook, api, uids) /\ WriterOK(runner, api, uids) /\ RunnerInv
         /\ QueueInv /\ DeliveredInv)'
    BY <1>1 DEF RunnerInv, QueueInv, DeliveredInv, OursCarry
  <1> QED BY <1>1, <1>2, <1>3, <1>4

\* Everyone else's writes of the object: a higher version, and the entries of
\* this driver as they were.
LEMMA OthersKeep ==
    ASSUME StatusInv, DeleteClaim \/ CreateClaim \/ OtherDriverWrites \/ ObjectChanges
    PROVE  StatusInv'
  <1> USE DEF StatusInv
  <1>1. UNCHANGED <<record, hook, queue, runner, update, sandbox, listed, lost>>
    BY DEF DeleteClaim, CreateClaim, OtherDriverWrites, ObjectChanges
  <1>2. /\ api \in Objects /\ api.devices \in Seq(Entries) /\ api.uid \in Nat
        /\ api.version \in Nat /\ uids \in Nat /\ theirs \in Nat
        /\ hook \in Writers /\ runner \in Writers /\ sandbox.uid \in Nat
        /\ listed.uid \in Nat /\ record \in Nat
    BY DEF TypeOK, Objects
  <1>3. /\ theirs' \in Nat /\ others' \in Nat /\ theirs' <= others' /\ uids' \in Nat
        /\ uids <= uids'
    BY <1>2 DEF DeleteClaim, CreateClaim, OtherDriverWrites, ObjectChanges
  <1>4. /\ api' \in Objects
        /\ \/ api'.uid = 0 /\ api' = NoClaim /\ uids' = uids
           \/ api'.uid > uids /\ api'.uid <= uids' /\ api'.devices = <<>>
           \/ /\ api'.uid = api.uid /\ api'.version = api.version + 1 /\ uids' = uids
              /\ api.uid # 0
              /\ ListsOurs(api'.devices) => ListsOurs(api.devices)
              /\ AllOurs(api.devices) => AllOurs(api'.devices)
              /\ \A n : OursCarry(api.devices, n) => OursCarry(api'.devices, n)
    <2>1. CASE DeleteClaim
      BY <2>1, IdleIsWriter DEF DeleteClaim, NoClaim
    <2>2. CASE CreateClaim
      <3>1. api' = [uid |-> uids + 1, version |-> 1, devices |-> <<>>] /\ uids' = uids + 1
        BY <2>2 DEF CreateClaim
      <3> QED BY <1>2, <3>1 DEF Objects
    <2>3. CASE OtherDriverWrites
      <3> DEFINE e == Entry("them", TheirDevice, others + 1)
                 l == WithTheirs(api.devices, e)
      <3>1. e \in Entries /\ e.driver = "them" BY DEF Entry, Entries
      <3>2. api' = [api EXCEPT !.version = api.version + 1, !.devices = l] /\ api.uid # 0
            /\ uids' = uids
        BY <2>3 DEF OtherDriverWrites
      <3> HIDE DEF e
      <3>3. /\ l \in Seq(Entries)
            /\ ListsOurs(l) => ListsOurs(api.devices)
            /\ AllOurs(api.devices) => AllOurs(l)
            /\ \A n : OursCarry(api.devices, n) => OursCarry(l, n)
        BY <1>2, <3>1, WithTheirsIs
      <3> HIDE DEF l
      <3>4. api' \in Objects /\ api'.uid = api.uid /\ api'.version = api.version + 1
            /\ api'.devices = l
        BY <1>2, <3>2, <3>3, RewriteIs
      <3> QED BY <3>2, <3>3, <3>4
    <2>4. CASE ObjectChanges
      <3>1. api' = [api EXCEPT !.version = api.version + 1] /\ api.uid # 0 /\ uids' = uids
        BY <2>4 DEF ObjectChanges
      <3>2. api.version + 1 \in Nat BY <1>2
      <3>3. api' \in Objects /\ api'.uid = api.uid /\ api'.version = api.version + 1
            /\ api'.devices = api.devices
        BY <1>2, <3>1, <3>2 DEF Objects
      <3> QED BY <3>1, <3>3
    <2> QED BY <2>1, <2>2, <2>3, <2>4
  <1>5. TypeOK' BY <1>1, <1>3, <1>4 DEF TypeOK
  <1>6. WriterOK(hook, api', uids') /\ WriterOK(runner, api', uids')
    BY <1>2, <1>3, <1>4, WriterKept
  <1>7. (RunnerInv /\ QueueInv)' BY <1>1 DEF RunnerInv, QueueInv, OursCarry
  <1>8. ObjectInv'
    <2> USE DEF ObjectInv
    <2>1. CASE api' = NoClaim /\ uids' = uids
      BY <1>1, <1>2, <2>1 DEF NoClaim, ListsOurs
    <2>2. CASE api'.uid > uids /\ api'.uid <= uids' /\ api'.devices = <<>>
      BY <1>1, <1>2, <1>3, <1>4, <2>2 DEF ListsOurs, Objects
    <2>3. CASE /\ api'.uid = api.uid /\ uids' = uids /\ api.uid # 0
               /\ ListsOurs(api'.devices) => ListsOurs(api.devices)
               /\ AllOurs(api.devices) => AllOurs(api'.devices)
      <3>1. ListsOurs(api'.devices) => AllOurs(api'.devices) BY <2>3
      <3>2. listed.uid = api.uid => AllOurs(api'.devices) BY <2>3
      <3> QED BY <1>1, <2>3, <3>1, <3>2 DEF ListsOurs, AllOurs
    <2> QED BY <1>4, <2>1, <2>2, <2>3
  <1>9. DeliveredInv'
    <2>1. CASE api'.uid = 0 BY <2>1 DEF DeliveredInv
    <2>2. CASE api'.uid > uids
      BY <1>1, <1>2, <1>4, <2>2 DEF DeliveredInv, ObjectInv, Objects
    <2>3. CASE /\ api'.uid = api.uid /\ api.uid # 0
               /\ \A n : OursCarry(api.devices, n) => OursCarry(api'.devices, n)
      <3>1. OursCarry(api.devices, sandbox.number) => OursCarry(api'.devices, sandbox'.number)
        BY <1>1, <2>3
      <3> QED BY <1>1, <2>3, <3>1 DEF DeliveredInv, OursCarry
    <2> QED BY <1>4, <2>1, <2>2, <2>3
  <1> QED BY <1>1, <1>3, <1>5, <1>6, <1>7, <1>8, <1>9

\* Every step keeps the invariant.
LEMMA StatusInvNext == StatusInv /\ [Next]_vars => StatusInv'
  <1> SUFFICES ASSUME StatusInv, [Next]_vars PROVE StatusInv' OBVIOUS
  <1>1. CASE UNCHANGED vars
    BY <1>1 DEF vars, StatusInv, TypeOK, ObjectInv, RunnerInv, QueueInv, DeliveredInv,
                ListsOurs, AllOurs, OursCarry
  <1> QED BY <1>1, PrepareKeeps, HookKeeps, ReceiveKeeps, GetKeeps, RunnerKeeps, RunKeeps,
             UnprepareKeeps, OthersKeep DEF Next, HookStep, RunnerStep

-----------------------------------------------------------------------------
(* The theorems *)

\* The object, the copies of both writers, the channel and the latest sandbox
\* always agree in the ways StatusInv says.
THEOREM StatusInvariant == Spec => []StatusInv
  BY StatusInvInit, StatusInvNext, PTL DEF Spec

\* Once every update is handled, the status of a claim that a prepare reported
\* written lists all its devices with the network data of the latest sandbox
\* started for it, however often updates met conflicts, lost answers, other
\* writers or a claim of the same name that was created again.
THEOREM LastSandboxAlwaysWins == Spec => []LastSandboxWins
  <1>1. StatusInv => LastSandboxWins
    BY DEF StatusInv, ObjectInv, DeliveredInv, LastSandboxWins, AllOurs, OursCarry
  <1> QED BY <1>1, StatusInvariant, PTL

\* A first attempt of this driver to write the status takes no entry of another
\* driver out of it.
THEOREM OthersLoseOnlyOnRetry == Spec => TheirsLostOnlyOnRetry
  <1> DEFINE Step == api'.uid = api.uid /\ theirs' = theirs
                     /\ Their(api'.devices) # Their(api.devices)
                     => \E w \in {hook, runner} : w.stage = "update" /\ w.tries > 0
  <1>1. ASSUME StatusInv, [Next]_vars PROVE [Step]_vars
    <2> SUFFICES ASSUME Next, api'.uid = api.uid, theirs' = theirs,
                        Their(api'.devices) # Their(api.devices)
                 PROVE  \E w \in {hook, runner} : w.stage = "update" /\ w.tries > 0
      BY <1>1
    <2>1. /\ api \in Objects /\ uids \in Nat /\ hook \in Writers /\ runner \in Writers
          /\ api.uid \in Nat /\ others \in Nat /\ theirs <= others /\ api # api'
          /\ theirs \in Nat
      BY <1>1 DEF StatusInv, TypeOK, Objects
    <2>2. ASSUME NEW w \in {hook, runner}, NEW next, Update(w, next) \/ Fetch(w, next)
          PROVE  w.stage = "update" /\ w.tries > 0
      <3>1. WriterOK(w, api, uids) /\ w \in Writers BY <1>1, <2>1, <2>2 DEF StatusInv
      <3>2. /\ api' = Written(w) /\ w.stage = "update"
            /\ w.claim.uid = api.uid /\ w.claim.version = api.version
        BY <1>1, <2>1, <2>2, <3>1, WriterStep DEF StatusInv, ObjectInv
      <3>3. api'.devices = w.claim.devices BY <2>1, <3>2 DEF Written, Objects
      <3>4. w.tries # 0 BY <3>1, <3>2, <3>3 DEF WriterOK
      <3>5. w.tries \in 0 .. Steps - 1 BY <3>1 DEF Writers
      <3> QED BY <3>2, <3>4, <3>5, StatusAssumption
    <2>3. CASE UpdatePreparedStatus BY <2>2, <2>3 DEF UpdatePreparedStatus
    <2>4. CASE UpdateClaimNetworkDataWithRetry
      BY <2>2, <2>4 DEF UpdateClaimNetworkDataWithRetry
    <2>5. CASE DeleteClaim \/ CreateClaim
      BY <2>1, <2>5 DEF DeleteClaim, CreateClaim, NoClaim
    <2>6. CASE OtherDriverWrites BY <2>1, <2>6 DEF OtherDriverWrites
    <2>7. CASE ObjectChanges
      <3>1. api'.devices = api.devices BY <2>1, <2>7 DEF ObjectChanges, Objects
      <3> QED BY <3>1
    <2>8. CASE PrepareResourceClaim \/ ReceiveUpdate \/ GetClaim \/ RunPodSandbox
               \/ UnprepareResourceClaim
      BY <2>1, <2>8 DEF PrepareResourceClaim, ReceiveUpdate, GetClaim, RunPodSandbox,
                        UnprepareResourceClaim
    <2> QED BY <2>3, <2>4, <2>5, <2>6, <2>7, <2>8 DEF Next, HookStep, RunnerStep
  <1>2. StatusInv /\ [Next]_vars => [Step]_vars BY <1>1
  <1> QED BY <1>2, StatusInvariant, PTL DEF Spec, TheirsLostOnlyOnRetry
=============================================================================
