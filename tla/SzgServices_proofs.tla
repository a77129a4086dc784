------------------------ MODULE SzgServices_proofs ------------------------
(***************************************************************************)
(* Theorems about SzgServices, for any number of components, services,     *)
(* networks, blocks and ports: the types, the agreement of the tables,     *)
(* that every request is in one place, and that no port is in two.  First  *)
(* the lists of ports, then what the methods of the broker do to the       *)
(* tables, then the handlers.                                              *)
(***************************************************************************)
EXTENDS SzgServices, NaturalsInduction, WellFoundedInduction, TLAPS

-----------------------------------------------------------------------------
(* The ports that are filtered out of a list.                              *)

(* A set of natural numbers that holds 0 and the successors of its         *)
(* elements holds them all: a least one it did not hold would follow one   *)
(* it holds.                                                               *)
LEMMA AllNaturals ==
  ASSUME NEW P, 0 \in P, \A n \in Nat : n \in P => n + 1 \in P
  PROVE  \A n \in Nat : n \in P
<1> DEFINE T == {n \in Nat : n \notin P}
           R == OpToRel(<, Nat)
<1> SUFFICES ASSUME T # {} PROVE FALSE
  OBVIOUS
<1>1. IsWellFoundedOn(R, Nat)
  BY NatLessThanWellFounded
<1>2. \A x, y \in Nat : <<x, y>> \in R <=> x < y
  BY DEF OpToRel
<1>3. T \subseteq Nat /\ 0 \notin T
  OBVIOUS
<1> HIDE DEF R
<1>4. PICK n \in T : \A m \in T : ~(<<m, n>> \in R)
  BY <1>1, <1>3, WFMin, Zenon
<1>5. n # 0 /\ n - 1 \in Nat /\ n - 1 < n
  BY <1>3
<1>6. n - 1 \in P
  BY <1>2, <1>4, <1>5
<1> QED BY <1>5, <1>6

(* The recursion that defines Only on q has a solution: one for a prefix   *)
(* of q extends to the next element.                                       *)
Step(q, S, f, i) ==
  IF i = 0 THEN <<>>
  ELSE IF q[i] \in S THEN Append(f[i - 1], q[i]) ELSE f[i - 1]

Solves(q, S, n, f) == f = [i \in 0..n |-> Step(q, S, f, i)]

(* There is a solution for prefixes of any length.                         *)
LEMMA Solution ==
  ASSUME NEW q, NEW S, NEW n \in Nat
  PROVE  \E f : Solves(q, S, n, f)
<1> DEFINE P == {k \in Nat : \E f : Solves(q, S, k, f)}
<1>1. 0 \in P
  <2> DEFINE f == [i \in 0..0 |-> <<>>]
  <2>1. \A i \in 0..0 : Step(q, S, f, i) = <<>>
    BY DEF Step
  <2> QED BY <2>1 DEF Solves
<1>2. ASSUME NEW k \in Nat, k \in P
      PROVE  k + 1 \in P
  <2>1. PICK f : Solves(q, S, k, f)
    BY <1>2
  <2> DEFINE g == [i \in 0..k + 1 |->
                     IF i = k + 1 THEN Step(q, S, f, i) ELSE f[i]]
  <2>2. \A i \in 0..k : f[i] = Step(q, S, f, i)
    BY <2>1 DEF Solves
  <2>3. \A i \in 0..k : g[i] = f[i]
    OBVIOUS
  <2>4. \A i \in 0..k + 1 : g[i] = Step(q, S, g, i)
    <3> SUFFICES ASSUME NEW i \in 0..k + 1 PROVE g[i] = Step(q, S, g, i)
      OBVIOUS
    <3>1. g[i] = Step(q, S, f, i)
      BY <2>2
    <3>2. i = 0 \/ i - 1 \in 0..k
      OBVIOUS
    <3> HIDE DEF g
    <3> QED BY <2>3, <3>1, <3>2 DEF Step
  <2>5. g = [i \in 0..k + 1 |-> g[i]]
    OBVIOUS
  <2> HIDE DEF g
  <2>6. Solves(q, S, k + 1, g)
    BY <2>4, <2>5 DEF Solves
  <2> QED BY <2>6
<1> HIDE DEF P
<1>3. n \in P
  BY <1>1, <1>2, AllNaturals
<1> QED BY <1>3 DEF P

(* No element occurs twice.                                                *)
NoRepeat(q) == \A i, j \in DOMAIN q : q[i] = q[j] => i = j

(* Appending an element adds it, and is no repetition if it is new.        *)
LEMMA AppendMembers ==
  ASSUME NEW T, NEW s \in Seq(T), NEW x \in T
  PROVE  /\ Append(s, x) \in Seq(T)
         /\ Len(Append(s, x)) = Len(s) + 1
         /\ Members(Append(s, x)) = Members(s) \cup {x}
         /\ NoRepeat(s) /\ x \notin Members(s) => NoRepeat(Append(s, x))
<1> DEFINE a == Append(s, x)
<1>1. /\ DOMAIN a = 1..Len(s) + 1 /\ DOMAIN s = 1..Len(s)
      /\ Len(s) \in Nat /\ Len(a) = Len(s) + 1 /\ a \in Seq(T)
      /\ \A j \in 1..Len(s) : a[j] = s[j]
      /\ a[Len(s) + 1] = x
  OBVIOUS
<1> HIDE DEF a
<1>2. Members(a) = Members(s) \cup {x}
  BY <1>1 DEF Members
<1>3. NoRepeat(s) /\ x \notin Members(s) => NoRepeat(a)
  BY <1>1 DEF Members, NoRepeat
<1> QED BY <1>1, <1>2, <1>3 DEF a

(* What is left is a list of elements of q, those in S; without            *)
(* repetitions if q has none, and as long as q if all are in S.            *)
LEMMA OnlyIsList ==
  ASSUME NEW T, NEW q \in Seq(T), NEW S
  PROVE  /\ Only(q, S) \in Seq(T)
         /\ Members(Only(q, S)) = Members(q) \cap S
         /\ NoRepeat(q) => NoRepeat(Only(q, S))
         /\ Members(q) \subseteq S => Len(Only(q, S)) = Len(q)
<1> DEFINE n == Len(q)
           kept == CHOOSE f : Solves(q, S, n, f)
           Good(i) == /\ kept[i] \in Seq(T)
                      /\ Members(kept[i]) = {q[j] : j \in 1..i} \cap S
                      /\ NoRepeat(q) => NoRepeat(kept[i])
                      /\ Members(q) \subseteq S => Len(kept[i]) = i
           P == {i \in Nat : i <= n => Good(i)}
<1>0. n \in Nat
  OBVIOUS
<1>1. Only(q, S) = kept[n]
  BY DEF Only, Solves, Step
<1>2. Solves(q, S, n, kept)
  BY <1>0, Solution
<1> HIDE DEF kept
<1>3. \A i \in 0..n : kept[i] = Step(q, S, kept, i)
  BY <1>2 DEF Solves
<1>4. 0 \in P
  <2>1. kept[0] = <<>>
    BY <1>0, <1>3 DEF Step
  <2>2. /\ Members(<<>>) = {} /\ 1..0 = {} /\ <<>> \in Seq(T)
        /\ NoRepeat(<<>>) /\ Len(<<>>) = 0
    BY DEF Members, NoRepeat
  <2> QED BY <2>1, <2>2
<1>5. ASSUME NEW i \in Nat, i \in P
      PROVE  i + 1 \in P
  <2> SUFFICES ASSUME i + 1 <= n PROVE Good(i + 1)
    OBVIOUS
  <2>1. Good(i) /\ i + 1 \in 1..n /\ q[i + 1] \in T
    BY <1>0, <1>5
  <2>2. kept[i + 1] = IF q[i + 1] \in S THEN Append(kept[i], q[i + 1])
                                        ELSE kept[i]
    BY <1>3, <2>1 DEF Step
  <2>3. {q[j] : j \in 1..(i + 1)} = {q[j] : j \in 1..i} \cup {q[i + 1]}
    OBVIOUS
  <2>4. /\ NoRepeat(q) => q[i + 1] \notin {q[j] : j \in 1..i}
        /\ q[i + 1] \in Members(q)
    BY <2>1 DEF NoRepeat, Members
  <2>5. CASE q[i + 1] \in S
    <3>1. /\ Append(kept[i], q[i + 1]) \in Seq(T)
          /\ Len(Append(kept[i], q[i + 1])) = Len(kept[i]) + 1
          /\ Members(Append(kept[i], q[i + 1]))
               = Members(kept[i]) \cup {q[i + 1]}
          /\ NoRepeat(kept[i]) /\ q[i + 1] \notin Members(kept[i])
               => NoRepeat(Append(kept[i], q[i + 1]))
      BY <2>1, AppendMembers
    <3>2. kept[i + 1] = Append(kept[i], q[i + 1])
      BY <2>2, <2>5
    <3> QED BY <2>1, <2>3, <2>4, <2>5, <3>1, <3>2
  <2>6. CASE q[i + 1] \notin S
    <3>1. kept[i + 1] = kept[i] /\ ~(Members(q) \subseteq S)
      BY <2>2, <2>4, <2>6
    <3> QED BY <2>1, <2>3, <2>6, <3>1
  <2> QED BY <2>5, <2>6
<1> HIDE DEF P
<1>6. n \in P
  BY <1>0, <1>4, <1>5, AllNaturals
<1>7. Good(n)
  BY <1>0, <1>6 DEF P
<1>8. Members(q) = {q[j] : j \in 1..n}
  BY DEF Members
<1> QED BY <1>1, <1>7, <1>8

(* Without leaves a list of the same kind of elements.                     *)
LEMMA WithoutIsList ==
  ASSUME NEW T, NEW q \in Seq(T), NEW S
  PROVE  Without(q, S) \in Seq(T)
BY OnlyIsList DEF Without

(* The ports that go back to the pool are a list of ports again            *)
(* (arPhleetConnectionBroker.cpp:165-176).                                 *)
LEMMA ReturnedIsList ==
  ASSUME NEW b, NEW T, NEW q \in Seq(T)
  PROVE  Returned(b, q) \in Seq(T)
<1> DEFINE V == {p \in Members(q) : PortValid(b, p)}
<1>1. Returned(b, q) = Only(q, V)
  BY DEF Returned
<1> HIDE DEF V
<1> QED BY <1>1, OnlyIsList

(* A list of elements of T has its members in T.                           *)
LEMMA MembersIn ==
  ASSUME NEW T, NEW q \in Seq(T)
  PROVE  Members(q) \subseteq T
BY DEF Members

(* A new pool is a list of ports (arPhleetConnectionBroker.cpp:761-784).   *)
LEMMA PoolIsList ==
  ASSUME NEW k \in Block
  PROVE  [i \in 1..k.size |-> k.first + i - 1] \in Seq(Port)
<1>1. k.first \in Nat /\ k.size \in Nat
  BY ServicesAssumption
<1>2. \A i \in 1..k.size : k.first + i - 1 \in PortsOf(k)
  BY <1>1 DEF PortsOf
<1>3. PortsOf(k) \subseteq Port
  BY DEF Port
<1>4. \A i \in 1..k.size : k.first + i - 1 \in Port
  BY <1>2, <1>3
<1> QED BY <1>1, <1>4

-----------------------------------------------------------------------------
(* The tables of services and the components' lists, service by service.   *)
Known(table, s) == table[s] # NoOffer

AwaitedBy(b, s, c) ==
  Known(b.used, s) /\ \E t \in b.used[s].notes : t.comp = c

ServicesAgree(b) ==
  \A s \in Service :
    /\ ~Known(b.temporary, s) \/ ~Known(b.used, s)
    /\ Known(b.temporary, s) => b.temporary[s].notes = {}
    /\ \A c \in Component :
         /\ s \in b.tempTags[c] <=>
              Known(b.temporary, s) /\ b.temporary[s].comp = c
         /\ s \in b.usedTags[c] <=> Known(b.used, s) /\ b.used[s].comp = c
         /\ s \in b.releaseTags[c] <=> AwaitedBy(b, s, c)

(* Who waits waits for a service that is not offered, or for one in S.     *)
WaitersBut(b, S) ==
  \A w \in b.pending : w.service \in S \/ ~Known(b.used, w.service)

Good(b) == b \in Tables /\ ServicesAgree(b)

IInv ==
  /\ ConnTypeOK(Request)
  /\ Good(broker)
  /\ WaitersBut(broker, {})
  /\ assigned \in [Component -> SUBSET Service]
  /\ lastMatch \in [Component -> 0..MaxMatch]

(* What a known service has.                                               *)
LEMMA OfferFields ==
  ASSUME NEW o \in Offers, o # NoOffer
  PROVE  /\ o \in Offer /\ Len(o.ports) \in Size
         /\ o.comp \in Component /\ o.net \in Network
         /\ o.ports \in Seq(Port) /\ o.notes \in SUBSET Ticket
         /\ o = [comp |-> o.comp, net |-> o.net, ports |-> o.ports,
                 notes |-> o.notes]
BY DEF Offers, Offer

(* What requestPorts writes down is a record of a service.                 *)
LEMMA OfferIsKnown ==
  ASSUME NEW c \in Component, NEW n \in Network, NEW q \in Seq(Port),
         Len(q) \in Size, NEW N \in SUBSET Ticket
  PROVE  LET o == [comp |-> c, net |-> n, ports |-> q, notes |-> N]
         IN o \in Offers /\ o # NoOffer
BY ServicesAssumption DEF Offers, Offer

(* The empty tables satisfy the invariant.                                 *)
LEMMA InitIInv == Init => IInv
<1> SUFFICES ASSUME Init PROVE IInv
  OBVIOUS
<1>1. ConnTypeOK(Request)
  BY DEF Init, ConnInit, ConnTypeOK
<1>2. broker \in Tables
  BY DEF Init, Tables, Offers
<1>3. ServicesAgree(broker) /\ WaitersBut(broker, {})
  BY DEF Init, ServicesAgree, WaitersBut, Known, AwaitedBy
<1>4. lastMatch \in [Component -> 0..MaxMatch]
  BY ServicesAssumption DEF Init
<1> QED BY <1>1, <1>2, <1>3, <1>4 DEF IInv, Init, Good

-----------------------------------------------------------------------------
(* The methods of the broker.                                              *)

(* A method that changes the ports alone.                                  *)
SameServices(b, d) ==
  /\ d.temporary = b.temporary /\ d.used = b.used
  /\ d.tempTags = b.tempTags /\ d.usedTags = b.usedTags
  /\ d.releaseTags = b.releaseTags

SameRequests(b, d) ==
  /\ d.pending = b.pending /\ d.served = b.served /\ d.refused = b.refused
  /\ d.released = b.released /\ d.declined = b.declined
  /\ d.ignored = b.ignored

(* A method that leaves the ports alone.                                   *)
SamePools(b, d) ==
  /\ d.block = b.block /\ d.available = b.available
  /\ d.hostTemp = b.hostTemp /\ d.hostUsed = b.hostUsed
  /\ d.leaked = b.leaked
  /\ d.tempPorts = b.tempPorts /\ d.usedPorts = b.usedPorts

(* A new pool changes neither services nor requests                        *)
(* (arPhleetConnectionBroker.cpp:761-784).                                 *)
LEMMA ResizeGood ==
  ASSUME NEW b, Good(b), NEW k \in Block
  PROVE  LET d == ResizeComputerPorts(b, k)
         IN Good(d) /\ SameServices(b, d) /\ SameRequests(b, d)
<1> DEFINE pool == [i \in 1..k.size |-> k.first + i - 1]
           q == Without(pool, b.hostTemp \cup b.hostUsed)
           d == ResizeComputerPorts(b, k)
<1>1. q \in Seq(Port)
  BY PoolIsList, WithoutIsList
<1>2. CASE b.block = k
  <2>1. d = b
    BY <1>2 DEF ResizeComputerPorts
  <2> QED BY <2>1 DEF SameServices, SameRequests
<1>3. CASE b.block # k
  <2>1. d = [b EXCEPT !.block = k, !.available = q]
    BY <1>3 DEF ResizeComputerPorts
  <2> HIDE DEF d, q
  <2>2. d \in Tables
    BY <1>1, <2>1 DEF Good, Tables
  <2>3. SameServices(b, d) /\ SameRequests(b, d)
    BY <2>1 DEF Good, Tables, SameServices, SameRequests
  <2> QED BY <2>2, <2>3 DEF Good, ServicesAgree, SameServices, AwaitedBy, d
<1> QED BY <1>2, <1>3

(* Nor does a request for ports that cannot be met                         *)
(* (arPhleetConnectionBroker.cpp:95-101).                                  *)
LEMMA ExhaustGood ==
  ASSUME NEW b, Good(b)
  PROVE  LET d == ExhaustPorts(b)
         IN Good(d) /\ SameServices(b, d) /\ SameRequests(b, d)
<1> DEFINE d == ExhaustPorts(b)
           P == Members(b.available)
<1>1. P \subseteq Port
  BY MembersIn DEF Good, Tables
<1>2. d = [b EXCEPT !.available = <<>>, !.hostTemp = @ \cup P,
                    !.leaked = @ \cup P]
  BY DEF ExhaustPorts
<1> HIDE DEF d, P
<1>3. d \in Tables
  <2>1. <<>> \in Seq(Port) /\ b.hostTemp \cup P \in SUBSET Port
        /\ b.leaked \cup P \in SUBSET Port
    BY <1>1 DEF Good, Tables
  <2>2. PICK e : e = <<>>
    OBVIOUS
  <2>3. d = [b EXCEPT !.available = e, !.hostTemp = @ \cup P,
                      !.leaked = @ \cup P]
    BY <1>2, <2>2
  <2>4. e \in Seq(Port)
    BY <2>1, <2>2
  <2> QED BY <2>1, <2>3, <2>4 DEF Good, Tables
<1>4. SameServices(b, d) /\ SameRequests(b, d)
  BY <1>2 DEF Good, Tables, SameServices, SameRequests
<1> QED BY <1>3, <1>4 DEF Good, ServicesAgree, SameServices, AwaitedBy, d

(* A service that is registered was not known before, so that it is in one *)
(* table and on one component's list                                       *)
(* (arPhleetConnectionBroker.cpp:34-120).                                  *)
LEMMA AssignGood ==
  ASSUME NEW b, Good(b), NEW s \in Service, NEW c \in Component,
         NEW net \in Network, NEW n \in Size,
         ~CheckService(b, s), n <= Len(b.available)
  PROVE  LET d == AssignPorts(b, s, c, net, n)
         IN Good(d) /\ SameRequests(b, d) /\ d.used = b.used
<1> DEFINE ports == SubSeq(b.available, 1, n)
           rest == SubSeq(b.available, n + 1, Len(b.available))
           P == Members(ports)
           o == [comp |-> c, net |-> net, ports |-> ports, notes |-> {}]
           mine == b.tempPorts[c] \o ports
           d == AssignPorts(b, s, c, net, n)
<1>1. b.available \in Seq(Port) /\ n \in Nat /\ n > 0
  BY ServicesAssumption DEF Good, Tables
<1>2. /\ ports \in Seq(Port) /\ Len(ports) = n
      /\ rest \in Seq(Port)
      /\ mine \in Seq(Port)
  BY <1>1 DEF Good, Tables
<1>3. P \subseteq Port
  BY <1>2, MembersIn
<1>4. o \in Offers /\ o # NoOffer /\ o.comp = c /\ o.notes = {}
  BY <1>2, OfferIsKnown
<1>5. d = [b EXCEPT !.available = rest, !.hostTemp = @ \cup P,
                    !.tempTags[c] = @ \cup {s}, !.tempPorts[c] = mine,
                    !.temporary[s] = o]
  BY DEF AssignPorts
<1> HIDE DEF d, P, o, mine, rest, ports
<1>6. d \in Tables
  <2> DEFINE H == b.hostTemp \cup P
             T == [b.tempTags EXCEPT ![c] = @ \cup {s}]
             M == [b.tempPorts EXCEPT ![c] = mine]
             R == [b.temporary EXCEPT ![s] = o]
  <2>1. /\ H \in SUBSET Port /\ T \in [Component -> SUBSET Service]
        /\ M \in [Component -> Seq(Port)] /\ R \in [Service -> Offers]
    BY <1>2, <1>3, <1>4 DEF Good, Tables
  <2>2. d = [b EXCEPT !.available = rest, !.hostTemp = H, !.tempTags = T,
                      !.tempPorts = M, !.temporary = R]
    BY <1>5 DEF Good, Tables
  <2> HIDE DEF H, T, M, R
  <2> QED BY <1>2, <2>1, <2>2 DEF Good, Tables
<1>7. /\ d.temporary = [b.temporary EXCEPT ![s] = o]
      /\ d.tempTags = [b.tempTags EXCEPT ![c] = @ \cup {s}]
      /\ d.used = b.used /\ d.usedTags = b.usedTags
      /\ d.releaseTags = b.releaseTags
      /\ SameRequests(b, d)
  BY <1>5 DEF Good, Tables, SameRequests
<1>8. ~Known(b.temporary, s) /\ ~Known(b.used, s)
  BY DEF CheckService, Known
<1>9. ServicesAgree(d)
  BY <1>4, <1>7, <1>8 DEF Good, Tables, ServicesAgree, Known, AwaitedBy
<1> QED BY <1>6, <1>7, <1>9 DEF Good, d

(* Other ports for a service leave it with its owner, and with as many     *)
(* ports as before (arPhleetConnectionBroker.cpp:129-205).                 *)
LEMMA RetryGood ==
  ASSUME NEW b, Good(b), NEW s \in Service, Known(b.temporary, s)
  PROVE  LET d == RetryPorts(b, s)
         IN Good(d) /\ SameRequests(b, d) /\ d.used = b.used
<1> DEFINE o == b.temporary[s]
           pool == b.available \o Returned(b, o.ports)
           k == Least(Len(o.ports), Len(pool))
           fresh == SubSeq(pool, 1, k)
           rest == SubSeq(pool, k + 1, Len(pool))
           H == (b.hostTemp \ Members(o.ports)) \cup Members(fresh)
           mine == Without(b.tempPorts[o.comp], Members(o.ports)) \o fresh
           q == fresh \o SubSeq(o.ports, k + 1, Len(o.ports))
           d == RetryPorts(b, s)
<1>1. /\ o \in Offers /\ o # NoOffer /\ b.available \in Seq(Port)
      /\ b.tempPorts \in [Component -> Seq(Port)]
      /\ b.hostTemp \in SUBSET Port
  BY DEF Good, Tables, Known
<1>2. o \in Offer /\ o.ports \in Seq(Port) /\ o.comp \in Component
      /\ Len(o.ports) \in Size
  BY <1>1, OfferFields
<1>3. pool \in Seq(Port)
  <2>1. Returned(b, o.ports) \in Seq(Port)
    BY <1>2, ReturnedIsList
  <2> QED BY <1>1, <2>1
<1>4. k \in Nat /\ k <= Len(o.ports) /\ k <= Len(pool)
  <2> DEFINE m == Len(o.ports)
             n == Len(pool)
  <2>1. m \in Nat /\ n \in Nat
    <3> HIDE DEF o, pool
    <3> QED BY <1>2, <1>3
  <2> HIDE DEF m, n
  <2>2. Least(m, n) \in Nat /\ Least(m, n) <= m /\ Least(m, n) <= n
    BY <2>1 DEF Least
  <2> QED BY <2>2 DEF m, n
<1> HIDE DEF pool, k
<1>5. fresh \in Seq(Port) /\ Len(fresh) = k /\ rest \in Seq(Port)
  BY <1>3, <1>4
<1>6. q \in Seq(Port) /\ Len(q) = Len(o.ports)
  <2> DEFINE tail == SubSeq(o.ports, k + 1, Len(o.ports))
  <2>1. tail \in Seq(Port) /\ Len(tail) = Len(o.ports) - k
    BY <1>2, <1>4
  <2>2. q = fresh \o tail /\ Len(o.ports) \in Nat
    BY <1>2
  <2> HIDE DEF tail, fresh, q, o
  <2>3. Len(q) = Len(fresh) + Len(tail) /\ q \in Seq(Port)
    BY <1>5, <2>1, <2>2
  <2> QED BY <1>4, <1>5, <2>1, <2>2, <2>3
<1>7. H \subseteq Port
  BY <1>1, <1>5, MembersIn
<1>8. mine \in Seq(Port)
  <2>1. Without(b.tempPorts[o.comp], Members(o.ports)) \in Seq(Port)
    BY <1>1, <1>2, WithoutIsList
  <2> QED BY <1>5, <2>1
<1>9. d = [b EXCEPT !.available = rest, !.hostTemp = H,
                    !.tempPorts[o.comp] = mine,
                    !.temporary[s].ports = q]
  BY DEF RetryPorts, k, pool
<1> DEFINE p == [o EXCEPT !.ports = q]
<1>10. /\ p \in Offers /\ p # NoOffer /\ p.comp = o.comp
       /\ p.notes = o.notes
  <2>1. p = [comp |-> o.comp, net |-> o.net, ports |-> q, notes |-> o.notes]
    <3> HIDE DEF o, q
    <3>1. o = [comp |-> o.comp, net |-> o.net, ports |-> o.ports,
               notes |-> o.notes]
      BY <1>1, OfferFields
    <3> QED BY <1>2, <3>1 DEF Offer
  <2>2. o.net \in Network /\ o.notes \in SUBSET Ticket
    BY <1>1, OfferFields
  <2> HIDE DEF q
  <2> QED BY <1>2, <1>6, <2>1, <2>2, OfferIsKnown
<1> HIDE DEF d, rest, H, mine, q
<1>11. d.temporary = [b.temporary EXCEPT ![s] = p]
  BY <1>9 DEF Good, Tables
<1>12. /\ d.tempTags = b.tempTags
       /\ d.used = b.used /\ d.usedTags = b.usedTags
       /\ d.releaseTags = b.releaseTags
       /\ SameRequests(b, d)
  BY <1>9 DEF Good, Tables, SameRequests
<1>13. d \in Tables
  <2>1. d = [b EXCEPT !.available = rest, !.hostTemp = H,
                      !.tempPorts[o.comp] = mine, !.temporary[s] = p]
    BY <1>9
  <2> DEFINE M == [b.tempPorts EXCEPT ![o.comp] = mine]
             R == [b.temporary EXCEPT ![s] = p]
  <2> HIDE DEF o, p
  <2>2. M \in [Component -> Seq(Port)] /\ R \in [Service -> Offers]
    BY <1>2, <1>8, <1>10 DEF Good, Tables
  <2>3. d = [b EXCEPT !.available = rest, !.hostTemp = H,
                      !.tempPorts = M, !.temporary = R]
    BY <2>1 DEF Good, Tables
  <2> HIDE DEF M, R
  <2> QED BY <1>5, <1>7, <2>2, <2>3 DEF Good, Tables
<1>14. ServicesAgree(d)
  <2> HIDE DEF p
  <2>1. Known(b.temporary, s) /\ b.temporary[s] = o
    OBVIOUS
  <2> HIDE DEF o
  <2> QED BY <1>10, <1>11, <1>12, <2>1
      DEF Good, Tables, ServicesAgree, Known, AwaitedBy
<1> QED BY <1>12, <1>13, <1>14 DEF Good, d

(* The confirmation moves a service from one table to the other and from   *)
(* one list of its owner to the other; nobody waits for the release of     *)
(* what was not confirmed (arPhleetConnectionBroker.cpp:207-261).          *)
LEMMA ConfirmGood ==
  ASSUME NEW b, Good(b), NEW s \in Service, Known(b.temporary, s)
  PROVE  LET d == ConfirmPorts(b, s)
         IN /\ Good(d) /\ SameRequests(b, d)
            /\ d.used = [b.used EXCEPT ![s] = b.temporary[s]]
            /\ b.temporary[s].notes = {} /\ ~Known(b.used, s)
<1> DEFINE o == b.temporary[s]
           c == o.comp
           P == Members(o.ports)
           R == [b.temporary EXCEPT ![s] = NoOffer]
           U == [b.used EXCEPT ![s] = o]
           H == b.hostTemp \ P
           K == b.hostUsed \cup P
           M == [b.tempPorts EXCEPT ![c] = Without(@, P)]
           N == [b.usedPorts EXCEPT ![c] = @ \o o.ports]
           T == [b.tempTags EXCEPT ![c] = @ \ {s}]
           V == [b.usedTags EXCEPT ![c] = @ \cup {s}]
           d == ConfirmPorts(b, s)
<1>1. o \in Offers /\ o # NoOffer /\ b.temporary[s] = o
  BY DEF Good, Tables, Known
<1> HIDE DEF o
<1>2. /\ c \in Component /\ o.ports \in Seq(Port)
      /\ P \subseteq Port
  BY <1>1, OfferFields, MembersIn
<1>3. d = [b EXCEPT !.temporary = R, !.used = U, !.hostTemp = H,
                    !.hostUsed = K, !.tempPorts = M, !.usedPorts = N,
                    !.tempTags = T, !.usedTags = V]
  BY <1>1 DEF ConfirmPorts, Good, Tables
<1> HIDE DEF c, P
<1>4. /\ R \in [Service -> Offers] /\ U \in [Service -> Offers]
      /\ H \in SUBSET Port /\ K \in SUBSET Port
      /\ T \in [Component -> SUBSET Service]
      /\ V \in [Component -> SUBSET Service]
  BY <1>1, <1>2 DEF Good, Tables, Offers
<1>5. M \in [Component -> Seq(Port)]
  <2>1. b.tempPorts \in [Component -> Seq(Port)]
    BY DEF Good, Tables
  <2>2. Without(b.tempPorts[c], P) \in Seq(Port)
    BY <1>2, <2>1, WithoutIsList
  <2> QED BY <1>2, <2>1, <2>2
<1>6. N \in [Component -> Seq(Port)]
  <2>1. b.usedPorts \in [Component -> Seq(Port)]
    BY DEF Good, Tables
  <2>2. b.usedPorts[c] \o o.ports \in Seq(Port)
    BY <1>2, <2>1
  <2> QED BY <1>2, <2>1, <2>2
<1>7. /\ R = [b.temporary EXCEPT ![s] = NoOffer]
      /\ U = [b.used EXCEPT ![s] = o]
      /\ T = [b.tempTags EXCEPT ![c] = @ \ {s}]
      /\ V = [b.usedTags EXCEPT ![c] = @ \cup {s}]
  OBVIOUS
<1> HIDE DEF d, R, U, H, K, M, N, T, V
<1>8. d \in Tables
  BY <1>3, <1>4, <1>5, <1>6 DEF Good, Tables
<1>9. /\ d.temporary = R /\ d.used = U
      /\ d.tempTags = T /\ d.usedTags = V /\ d.releaseTags = b.releaseTags
      /\ SameRequests(b, d)
  BY <1>3 DEF Good, Tables, SameRequests
<1>10. o.notes = {} /\ ~Known(b.used, s)
  BY <1>1 DEF Good, ServicesAgree, Known
<1>11. /\ \A x \in Service : d.temporary[x] =
            IF x = s THEN NoOffer ELSE b.temporary[x]
       /\ \A x \in Service : d.used[x] = IF x = s THEN o ELSE b.used[x]
       /\ \A x \in Component : d.tempTags[x] =
            IF x = c THEN b.tempTags[x] \ {s} ELSE b.tempTags[x]
       /\ \A x \in Component : d.usedTags[x] =
            IF x = c THEN b.usedTags[x] \cup {s} ELSE b.usedTags[x]
  <2>1. /\ b.temporary \in [Service -> Offers]
        /\ b.used \in [Service -> Offers]
        /\ b.tempTags \in [Component -> SUBSET Service]
        /\ b.usedTags \in [Component -> SUBSET Service]
    BY DEF Good, Tables
  <2>2. /\ \A x \in Service : R[x] = IF x = s THEN NoOffer ELSE b.temporary[x]
        /\ \A x \in Service : U[x] = IF x = s THEN o ELSE b.used[x]
    BY <1>7, <2>1
  <2>3. /\ \A x \in Component : T[x] =
             IF x = c THEN b.tempTags[x] \ {s} ELSE b.tempTags[x]
        /\ \A x \in Component : V[x] =
             IF x = c THEN b.usedTags[x] \cup {s} ELSE b.usedTags[x]
    BY <1>7, <2>1
  <2> QED BY <1>9, <2>2, <2>3
<1>12. ServicesAgree(d)
  <2> SUFFICES ASSUME NEW x \in Service
               PROVE  /\ ~Known(d.temporary, x) \/ ~Known(d.used, x)
                      /\ Known(d.temporary, x) => d.temporary[x].notes = {}
                      /\ \A y \in Component :
                           /\ x \in d.tempTags[y] <=> Known(d.temporary, x)
                                /\ d.temporary[x].comp = y
                           /\ x \in d.usedTags[y] <=>
                                Known(d.used, x) /\ d.used[x].comp = y
                           /\ x \in d.releaseTags[y] <=> AwaitedBy(d, x, y)
    BY DEF ServicesAgree
  <2>0. /\ ~Known(b.temporary, x) \/ ~Known(b.used, x)
        /\ Known(b.temporary, x) => b.temporary[x].notes = {}
        /\ \A y \in Component :
             /\ x \in b.tempTags[y] <=>
                  Known(b.temporary, x) /\ b.temporary[x].comp = y
             /\ x \in b.usedTags[y] <=> Known(b.used, x) /\ b.used[x].comp = y
             /\ x \in b.releaseTags[y] <=> AwaitedBy(b, x, y)
    BY DEF Good, ServicesAgree
  <2>1. CASE x = s
    <3>1. /\ ~Known(d.temporary, x) /\ d.used[x] = o /\ Known(d.used, x)
          /\ Known(b.temporary, x) /\ ~Known(b.used, x)
      BY <1>1, <1>10, <1>11, <2>1 DEF Known
    <3>2. ASSUME NEW y \in Component
          PROVE  x \notin d.tempTags[y] /\ (x \in d.usedTags[y] <=> y = c)
      <4>1. b.temporary[x].comp = c
        BY <1>1, <2>1 DEF c
      <4>2. x \in b.tempTags[y] => y = c
        BY <2>0, <4>1
      <4>3. x \notin b.usedTags[y]
        BY <2>0, <3>1
      <4>4. /\ d.tempTags[y] = IF y = c THEN b.tempTags[y] \ {s}
                                        ELSE b.tempTags[y]
            /\ d.usedTags[y] = IF y = c THEN b.usedTags[y] \cup {s}
                                        ELSE b.usedTags[y]
        BY <1>11
      <4> QED BY <2>1, <4>2, <4>3, <4>4
    <3>4. \A y \in Component :
            ~AwaitedBy(d, x, y) /\ ~AwaitedBy(b, x, y)
      BY <1>10, <3>1 DEF AwaitedBy
    <3> QED BY <1>9, <2>0, <3>1, <3>2, <3>4 DEF c
  <2>2. CASE x # s
    <3>1. d.temporary[x] = b.temporary[x] /\ d.used[x] = b.used[x]
      BY <1>11, <2>2
    <3>2. \A y \in Component :
            /\ x \in d.tempTags[y] <=> x \in b.tempTags[y]
            /\ x \in d.usedTags[y] <=> x \in b.usedTags[y]
      BY <1>11, <2>2
    <3> QED BY <1>9, <2>0, <3>1, <3>2 DEF Known, AwaitedBy
  <2> QED BY <2>1, <2>2
<1> QED BY <1>1, <1>7, <1>8, <1>9, <1>10, <1>12 DEF Good, d

(* A request for the release enters the service's list and the component's *)
(* own (arPhleetConnectionBroker.cpp:494-522).                             *)
LEMMA RegisterReleaseGood ==
  ASSUME NEW b, Good(b), NEW s \in Service, Known(b.used, s),
         NEW t \in Ticket
  PROVE  LET d == RegisterReleaseNotification(b, s, t)
             p == [b.used[s] EXCEPT !.notes = @ \cup {t}]
         IN /\ Good(d) /\ SameRequests(b, d)
            /\ d.used = [b.used EXCEPT ![s] = p]
            /\ p # NoOffer /\ p.notes = b.used[s].notes \cup {t}
<1> DEFINE o == b.used[s]
           p == [o EXCEPT !.notes = @ \cup {t}]
           c == t.comp
           U == [b.used EXCEPT ![s] = p]
           L == [b.releaseTags EXCEPT ![c] = @ \cup {s}]
           d == RegisterReleaseNotification(b, s, t)
<1>1. o \in Offers /\ o # NoOffer /\ b.used[s] = o
  BY DEF Good, Tables, Known
<1>2. d = [b EXCEPT !.used = U, !.releaseTags = L]
  BY DEF RegisterReleaseNotification, Good, Tables
<1> HIDE DEF o
<1>3. c \in Component
  BY DEF Ticket
<1>4. /\ o.comp \in Component /\ o.net \in Network /\ o.ports \in Seq(Port)
      /\ Len(o.ports) \in Size /\ o.notes \in SUBSET Ticket
      /\ o = [comp |-> o.comp, net |-> o.net, ports |-> o.ports,
              notes |-> o.notes]
  BY <1>1, OfferFields
<1>5. p = [comp |-> o.comp, net |-> o.net, ports |-> o.ports,
           notes |-> o.notes \cup {t}]
  <2>1. o \in Offer
    BY <1>1, OfferFields
  <2> DEFINE N == o.notes \cup {t}
  <2>2. p = [o EXCEPT !.notes = N]
    OBVIOUS
  <2> HIDE DEF N, p
  <2>3. p = [comp |-> o.comp, net |-> o.net, ports |-> o.ports, notes |-> N]
    BY <1>4, <2>1, <2>2 DEF Offer
  <2> QED BY <2>3 DEF N
<1>6. o.notes \cup {t} \in SUBSET Ticket
  BY <1>4
<1>7. /\ p \in Offers /\ p # NoOffer
      /\ p.comp = o.comp /\ p.notes = o.notes \cup {t}
  BY <1>4, <1>5, <1>6, OfferIsKnown
<1> HIDE DEF p, c
<1>8. /\ U = [b.used EXCEPT ![s] = p]
      /\ L = [b.releaseTags EXCEPT ![c] = @ \cup {s}]
      /\ U \in [Service -> Offers]
      /\ L \in [Component -> SUBSET Service]
  BY <1>3, <1>7 DEF Good, Tables
<1> HIDE DEF d, U, L
<1>9. d \in Tables
  BY <1>2, <1>8 DEF Good, Tables
<1>10. /\ d.used = U /\ d.releaseTags = L
       /\ d.temporary = b.temporary /\ d.tempTags = b.tempTags
       /\ d.usedTags = b.usedTags /\ SameRequests(b, d)
  BY <1>2 DEF Good, Tables, SameRequests
<1>11. /\ \A x \in Service : d.used[x] = IF x = s THEN p ELSE b.used[x]
       /\ \A y \in Component : d.releaseTags[y] =
            IF y = c THEN b.releaseTags[y] \cup {s} ELSE b.releaseTags[y]
  BY <1>8, <1>10 DEF Good, Tables
<1>12. \A x \in Service : \A y \in Component :
         x \in d.releaseTags[y] <=> AwaitedBy(d, x, y)
  <2> SUFFICES ASSUME NEW x \in Service, NEW y \in Component
               PROVE  x \in d.releaseTags[y] <=> AwaitedBy(d, x, y)
    OBVIOUS
  <2>1. x \in b.releaseTags[y] <=> AwaitedBy(b, x, y)
    BY DEF Good, ServicesAgree
  <2>2. CASE x = s
    <3>1. AwaitedBy(d, x, y) <=> AwaitedBy(b, x, y) \/ y = c
      BY <1>1, <1>7, <1>11, <2>2 DEF AwaitedBy, Known, c
    <3> QED BY <1>11, <2>1, <2>2, <3>1
  <2>3. CASE x # s
    BY <1>11, <2>1, <2>3 DEF AwaitedBy, Known
  <2> QED BY <2>2, <2>3
<1>13. ServicesAgree(d)
  BY <1>1, <1>7, <1>10, <1>11, <1>12 DEF Good, ServicesAgree, Known
<1> QED BY <1>1, <1>7, <1>8, <1>9, <1>10, <1>13 DEF Good, d, p

(* The parts of the tables that only say what became of requests.          *)
LEMMA RequestsGood ==
  ASSUME NEW b, Good(b), NEW d \in Tables, SameServices(b, d)
  PROVE  Good(d)
BY DEF Good, ServicesAgree, SameServices, AwaitedBy

-----------------------------------------------------------------------------
(* The removal of a component.                                             *)

(* What _removeService does to the tables, service by service              *)
(* (arPhleetConnectionBroker.cpp:537-568).                                 *)
LEMMA RemoveServicesMaps ==
  ASSUME NEW b \in Tables, NEW S \in SUBSET Service, NEW O
  PROVE  LET e == RemoveServices(b, S, O)
         IN /\ e \in Tables
            /\ \A s \in Service :
                 /\ e.temporary[s] = IF s \in S THEN NoOffer ELSE b.temporary[s]
                 /\ e.used[s] = IF s \in S THEN NoOffer ELSE b.used[s]
                 /\ \A x \in Component : s \in e.releaseTags[x] <=>
                      s \in b.releaseTags[x] /\ ~(s \in S /\ AwaitedBy(b, s, x))
            /\ e.released = b.released \cup {t \in Notes(b, S) : t.comp \in O}
            /\ e.tempTags = b.tempTags /\ e.usedTags = b.usedTags
            /\ SamePools(b, e)
            /\ e.pending = b.pending /\ e.served = b.served
            /\ e.refused = b.refused /\ e.declined = b.declined
            /\ e.ignored = b.ignored
<1> DEFINE T == [s \in Service |-> IF s \in S THEN NoOffer ELSE b.temporary[s]]
           U == [s \in Service |-> IF s \in S THEN NoOffer ELSE b.used[s]]
           L == [x \in Component |-> b.releaseTags[x] \ {s \in S :
                   b.used[s] # NoOffer /\
                   \E t \in b.used[s].notes : t.comp = x}]
           N == {t \in Notes(b, S) : t.comp \in O}
           e == RemoveServices(b, S, O)
<1>1. e = [b EXCEPT !.temporary = T, !.used = U, !.releaseTags = L,
                    !.released = @ \cup N]
  BY DEF RemoveServices, Tables
<1>2. /\ b.temporary \in [Service -> Offers]
      /\ b.used \in [Service -> Offers]
      /\ b.releaseTags \in [Component -> SUBSET Service]
      /\ NoOffer \in Offers
  BY DEF Tables, Offers
<1>3. /\ T \in [Service -> Offers] /\ U \in [Service -> Offers]
      /\ L \in [Component -> SUBSET Service]
  BY <1>2
<1>4. N \in SUBSET Ticket
  <2> SUFFICES ASSUME NEW t \in Notes(b, S) PROVE t \in Ticket
    OBVIOUS
  <2>1. PICK s \in S : b.used[s] # NoOffer /\ t \in b.used[s].notes
    BY DEF Notes
  <2>2. b.used[s] \in Offers
    BY <1>2
  <2> QED BY <2>1, <2>2, OfferFields
<1>5. /\ \A s \in Service : T[s] = IF s \in S THEN NoOffer ELSE b.temporary[s]
      /\ \A s \in Service : U[s] = IF s \in S THEN NoOffer ELSE b.used[s]
  OBVIOUS
<1>6. \A s \in Service, x \in Component : s \in L[x] <=>
        s \in b.releaseTags[x] /\ ~(s \in S /\ AwaitedBy(b, s, x))
  BY DEF AwaitedBy, Known
<1> HIDE DEF e, T, U, L, N
<1>7. e \in Tables
  <2>1. b.released \cup N \in SUBSET Ticket
    BY <1>4 DEF Tables
  <2> QED BY <1>1, <1>3, <2>1 DEF Tables
<1>8. /\ e.temporary = T /\ e.used = U /\ e.releaseTags = L
      /\ e.released = b.released \cup N
      /\ e.tempTags = b.tempTags /\ e.usedTags = b.usedTags
      /\ SamePools(b, e)
      /\ e.pending = b.pending /\ e.served = b.served
      /\ e.refused = b.refused /\ e.declined = b.declined
      /\ e.ignored = b.ignored
  BY <1>1 DEF Tables, SamePools
<1> QED BY <1>5, <1>6, <1>7, <1>8 DEF e, N

(* What becomes of the requests of a component that goes: they leave the   *)
(* lists of the services it awaited.                                       *)
LEMMA DropReleaseNotesMaps ==
  ASSUME NEW b \in Tables, NEW c \in Component
  PROVE  LET e == DropReleaseNotes(b, c)
         IN /\ e \in Tables
            /\ \A s \in Service :
                 /\ Known(e.used, s) <=> Known(b.used, s)
                 /\ Known(b.used, s) =>
                      /\ e.used[s].comp = b.used[s].comp
                      /\ e.used[s].net = b.used[s].net
                      /\ e.used[s].ports = b.used[s].ports
                      /\ e.used[s].notes =
                           IF s \in b.releaseTags[c]
                           THEN {t \in b.used[s].notes : t.comp # c}
                           ELSE b.used[s].notes
            /\ e.releaseTags = [b.releaseTags EXCEPT ![c] = {}]
            /\ e.temporary = b.temporary
            /\ e.tempTags = b.tempTags /\ e.usedTags = b.usedTags
            /\ SamePools(b, e)
            /\ SameRequests(b, e)
<1> DEFINE p(s) == [b.used[s] EXCEPT !.notes = {t \in @ : t.comp # c}]
           U == [s \in Service |->
                   IF s \in b.releaseTags[c] /\ b.used[s] # NoOffer
                   THEN [b.used[s] EXCEPT !.notes =
                           {t \in b.used[s].notes : t.comp # c}]
                   ELSE b.used[s]]
           L == [b.releaseTags EXCEPT ![c] = {}]
           e == DropReleaseNotes(b, c)
<1>1. e = [b EXCEPT !.used = U, !.releaseTags = L]
  BY DEF DropReleaseNotes
<1>2. L \in [Component -> SUBSET Service]
  BY DEF Tables
<1>3. ASSUME NEW s \in Service, Known(b.used, s)
      PROVE  /\ p(s) \in Offers /\ p(s) # NoOffer
             /\ p(s).comp = b.used[s].comp /\ p(s).net = b.used[s].net
             /\ p(s).ports = b.used[s].ports
             /\ p(s).notes = {t \in b.used[s].notes : t.comp # c}
  <2> DEFINE o == b.used[s]
             N == {t \in o.notes : t.comp # c}
             q == [comp |-> o.comp, net |-> o.net, ports |-> o.ports,
                   notes |-> N]
  <2>1. o \in Offers /\ o # NoOffer
    BY <1>3 DEF Known, Tables
  <2>2. p(s) = [o EXCEPT !.notes = N]
    OBVIOUS
  <2> HIDE DEF o
  <2>3. /\ o \in Offer /\ Len(o.ports) \in Size
        /\ o.comp \in Component /\ o.net \in Network
        /\ o.ports \in Seq(Port) /\ N \in SUBSET Ticket
    BY <2>1, OfferFields
  <2> HIDE DEF N, p
  <2>4. p(s) = q
    BY <2>2, <2>3 DEF Offer
  <2>5. q \in Offers /\ q # NoOffer
    BY <2>3, OfferIsKnown
  <2> QED BY <2>4, <2>5 DEF o, N
<1>4. \A s \in Service : U[s] \in Offers
  BY <1>3 DEF Known, Tables
<1>5. U \in [Service -> Offers]
  BY <1>4
<1>6. \A s \in Service :
        /\ (U[s] # NoOffer) <=> Known(b.used, s)
        /\ Known(b.used, s) =>
             /\ U[s].comp = b.used[s].comp /\ U[s].net = b.used[s].net
             /\ U[s].ports = b.used[s].ports
             /\ U[s].notes = IF s \in b.releaseTags[c]
                             THEN {t \in b.used[s].notes : t.comp # c}
                             ELSE b.used[s].notes
  <2> SUFFICES ASSUME NEW s \in Service
               PROVE  /\ (U[s] # NoOffer) <=> Known(b.used, s)
                      /\ Known(b.used, s) =>
                           /\ U[s].comp = b.used[s].comp
                           /\ U[s].net = b.used[s].net
                           /\ U[s].ports = b.used[s].ports
                           /\ U[s].notes = IF s \in b.releaseTags[c]
                                           THEN {t \in b.used[s].notes : t.comp # c}
                                           ELSE b.used[s].notes
    OBVIOUS
  <2>1. U[s] = IF s \in b.releaseTags[c] /\ Known(b.used, s)
               THEN p(s) ELSE b.used[s]
    BY DEF Known
  <2> HIDE DEF p, U
  <2> QED BY <1>3, <2>1 DEF Known
<1> HIDE DEF e, U, L
<1>7. e \in Tables
  BY <1>1, <1>2, <1>5 DEF Tables
<1>8. /\ e.used = U /\ e.releaseTags = L /\ e.temporary = b.temporary
      /\ e.tempTags = b.tempTags /\ e.usedTags = b.usedTags
      /\ SamePools(b, e)
      /\ SameRequests(b, e)
  BY <1>1 DEF Tables, SameRequests, SamePools
<1> QED BY <1>6, <1>7, <1>8 DEF e, L, Known

(* The ports of a component that goes leave its lists; so do its services. *)
LEMMA ReturnPortsMaps ==
  ASSUME NEW b \in Tables, NEW c \in Component
  PROVE  LET e == ReturnPorts(b, c)
         IN /\ e \in Tables
            /\ e.tempTags = [b.tempTags EXCEPT ![c] = {}]
            /\ e.usedTags = [b.usedTags EXCEPT ![c] = {}]
            /\ e.releaseTags = b.releaseTags
            /\ e.temporary = b.temporary /\ e.used = b.used
            /\ e.available = b.available
                 \o Returned(b, b.tempPorts[c] \o b.usedPorts[c])
            /\ e.hostTemp = b.hostTemp \ Members(b.tempPorts[c])
            /\ e.hostUsed = b.hostUsed \ Members(b.usedPorts[c])
            /\ e.block = b.block /\ e.leaked = b.leaked
            /\ e.tempPorts = [b.tempPorts EXCEPT ![c] = <<>>]
            /\ e.usedPorts = [b.usedPorts EXCEPT ![c] = <<>>]
            /\ SameRequests(b, e)
<1> DEFINE all == b.tempPorts[c] \o b.usedPorts[c]
           pool == b.available \o Returned(b, all)
           H == b.hostTemp \ Members(b.tempPorts[c])
           K == b.hostUsed \ Members(b.usedPorts[c])
           M == [b.tempPorts EXCEPT ![c] = <<>>]
           N == [b.usedPorts EXCEPT ![c] = <<>>]
           T == [b.tempTags EXCEPT ![c] = {}]
           V == [b.usedTags EXCEPT ![c] = {}]
           e == ReturnPorts(b, c)
<1>1. e = [b EXCEPT !.available = pool, !.hostTemp = H, !.hostUsed = K,
                    !.tempPorts = M, !.usedPorts = N,
                    !.tempTags = T, !.usedTags = V]
  BY DEF ReturnPorts, Tables
<1>2. all \in Seq(Port) /\ b.available \in Seq(Port)
  BY DEF Tables
<1> HIDE DEF all
<1>3. Returned(b, all) \in Seq(Port)
  BY <1>2, ReturnedIsList
<1>4. pool \in Seq(Port)
  BY <1>2, <1>3
<1>5. M \in [Component -> Seq(Port)] /\ N \in [Component -> Seq(Port)]
  <2>0. <<>> \in Seq(Port)
    OBVIOUS
  <2>1. PICK z : z = <<>>
    OBVIOUS
  <2>4. z \in Seq(Port)
    BY <2>0, <2>1
  <2>2. /\ b.tempPorts \in [Component -> Seq(Port)]
        /\ b.usedPorts \in [Component -> Seq(Port)]
    BY DEF Tables
  <2>3. /\ M = [b.tempPorts EXCEPT ![c] = z]
        /\ N = [b.usedPorts EXCEPT ![c] = z]
    BY <2>1
  <2> QED BY <2>2, <2>3, <2>4
<1>6. /\ H \in SUBSET Port /\ K \in SUBSET Port
      /\ T \in [Component -> SUBSET Service]
      /\ V \in [Component -> SUBSET Service]
  BY DEF Tables
<1> HIDE DEF e, pool, H, K, M, N, T, V
<1>7. e \in Tables
  BY <1>1, <1>4, <1>5, <1>6 DEF Tables
<1>8. /\ e.tempTags = T /\ e.usedTags = V
      /\ e.releaseTags = b.releaseTags
      /\ e.temporary = b.temporary /\ e.used = b.used
      /\ e.available = pool /\ e.hostTemp = H /\ e.hostUsed = K
      /\ e.block = b.block /\ e.leaked = b.leaked
      /\ e.tempPorts = M /\ e.usedPorts = N
      /\ SameRequests(b, e)
  BY <1>1 DEF Tables, SameRequests
<1> QED BY <1>7, <1>8 DEF e, T, V, pool, all, H, K, M, N

(* The ports of c return to the pool if they are of the block              *)
(* (arPhleetConnectionBroker.cpp:631-654).                                 *)
PortsReturned(b, r, c) ==
  /\ r.available = b.available
       \o Returned(b, b.tempPorts[c] \o b.usedPorts[c])
  /\ r.hostTemp = b.hostTemp \ Members(b.tempPorts[c])
  /\ r.hostUsed = b.hostUsed \ Members(b.usedPorts[c])
  /\ r.block = b.block /\ r.leaked = b.leaked
  /\ r.tempPorts = [b.tempPorts EXCEPT ![c] = <<>>]
  /\ r.usedPorts = [b.usedPorts EXCEPT ![c] = <<>>]

(* The services c offers or is about to offer.                             *)
Tags(b, c) == b.tempTags[c] \cup b.usedTags[c]

(* removeComponent, service by service and component by component: the     *)
(* services of c are gone, and its requests with them                      *)
(* (arPhleetConnectionBroker.cpp:577-661).                                 *)
Removed(b, r, c, O) ==
  /\ r \in Tables
  /\ \A s \in Service :
       /\ r.temporary[s] = IF s \in Tags(b, c) THEN NoOffer ELSE b.temporary[s]
       /\ Known(r.used, s) <=> s \notin Tags(b, c) /\ Known(b.used, s)
       /\ Known(r.used, s) =>
            /\ r.used[s].comp = b.used[s].comp
            /\ r.used[s].net = b.used[s].net
            /\ r.used[s].ports = b.used[s].ports
            /\ r.used[s].notes = {t \in b.used[s].notes : t.comp # c}
       /\ \A x \in Component : s \in r.releaseTags[x] <=>
            x # c /\ s \in b.releaseTags[x] /\ s \notin Tags(b, c)
  /\ r.tempTags = [b.tempTags EXCEPT ![c] = {}]
  /\ r.usedTags = [b.usedTags EXCEPT ![c] = {}]
  /\ r.pending = {w \in b.pending : w.ticket.comp # c}
  /\ r.released = b.released \cup {t \in Notes(b, Tags(b, c)) : t.comp \in O}
  /\ r.served = b.served /\ r.refused = b.refused
  /\ r.declined = b.declined /\ r.ignored = b.ignored
  /\ PortsReturned(b, r, c)

(* That is what it does.                                                   *)
LEMMA RemoveComponentMaps ==
  ASSUME NEW b, Good(b), NEW c \in Component, NEW O
  PROVE  Removed(b, RemoveComponent(b, c, O), c, O)
<1> DEFINE S == Tags(b, c)
           P == {w \in b.pending : w.ticket.comp # c}
           d == [b EXCEPT !.pending = P]
           e == RemoveServices(d, S, O)
           f == DropReleaseNotes(e, c)
           r == ReturnPorts(f, c)
<1>1. b \in Tables /\ ServicesAgree(b) /\ P \in SUBSET Waiting
  BY DEF Good, Tables
<1>2. S \in SUBSET Service
  BY <1>1 DEF Tables, Tags
<1> HIDE DEF P
<1>3. /\ d \in Tables
      /\ SameServices(b, d) /\ SamePools(b, d) /\ d.pending = P /\ d.served = b.served
      /\ d.refused = b.refused /\ d.released = b.released
      /\ d.declined = b.declined /\ d.ignored = b.ignored
  BY <1>1 DEF Tables, SameServices, SamePools
<1>4. RemoveComponent(b, c, O) = r
  BY <1>3 DEF RemoveComponent, SameServices, Tags, P
<1> HIDE DEF d, S
<1>5. /\ e \in Tables
      /\ \A s \in Service :
           /\ e.temporary[s] = IF s \in S THEN NoOffer ELSE d.temporary[s]
           /\ e.used[s] = IF s \in S THEN NoOffer ELSE d.used[s]
           /\ \A x \in Component : s \in e.releaseTags[x] <=>
                s \in d.releaseTags[x] /\ ~(s \in S /\ AwaitedBy(d, s, x))
      /\ e.released = d.released \cup {t \in Notes(d, S) : t.comp \in O}
      /\ e.tempTags = d.tempTags /\ e.usedTags = d.usedTags
      /\ SamePools(d, e)
      /\ e.pending = d.pending /\ e.served = d.served
      /\ e.refused = d.refused /\ e.declined = d.declined
      /\ e.ignored = d.ignored
  BY <1>2, <1>3, RemoveServicesMaps
<1> HIDE DEF e
<1>6. /\ f \in Tables
      /\ \A s \in Service :
           /\ Known(f.used, s) <=> Known(e.used, s)
           /\ Known(e.used, s) =>
                /\ f.used[s].comp = e.used[s].comp
                /\ f.used[s].net = e.used[s].net
                /\ f.used[s].ports = e.used[s].ports
                /\ f.used[s].notes = IF s \in e.releaseTags[c]
                                     THEN {t \in e.used[s].notes : t.comp # c}
                                     ELSE e.used[s].notes
      /\ f.releaseTags = [e.releaseTags EXCEPT ![c] = {}]
      /\ f.temporary = e.temporary
      /\ f.tempTags = e.tempTags /\ f.usedTags = e.usedTags
      /\ SameRequests(e, f) /\ SamePools(e, f)
  <2>1. e \in Tables
    BY <1>5
  <2> QED BY <2>1, DropReleaseNotesMaps
<1> HIDE DEF f
<1>7. /\ r \in Tables
      /\ r.tempTags = [f.tempTags EXCEPT ![c] = {}]
      /\ r.usedTags = [f.usedTags EXCEPT ![c] = {}]
      /\ r.releaseTags = f.releaseTags
      /\ r.temporary = f.temporary /\ r.used = f.used
      /\ SameRequests(f, r)
      /\ r.available = f.available
           \o Returned(f, f.tempPorts[c] \o f.usedPorts[c])
      /\ r.hostTemp = f.hostTemp \ Members(f.tempPorts[c])
      /\ r.hostUsed = f.hostUsed \ Members(f.usedPorts[c])
      /\ r.block = f.block /\ r.leaked = f.leaked
      /\ r.tempPorts = [f.tempPorts EXCEPT ![c] = <<>>]
      /\ r.usedPorts = [f.usedPorts EXCEPT ![c] = <<>>]
  BY <1>6, ReturnPortsMaps
<1> HIDE DEF r
<1>8. \A s \in Service, x \in Component :
        s \in b.releaseTags[x] <=> AwaitedBy(b, s, x)
  BY <1>1 DEF ServicesAgree
<1>9. \A s \in Service, x \in Component :
        s \in e.releaseTags[x] <=> s \in b.releaseTags[x] /\ s \notin S
  BY <1>3, <1>5, <1>8 DEF SameServices, AwaitedBy
<1>10. \A s \in Service, x \in Component :
         s \in r.releaseTags[x] <=> x # c /\ s \in b.releaseTags[x] /\ s \notin S
  <2>1. e.releaseTags \in [Component -> SUBSET Service]
    BY <1>5 DEF Tables
  <2> QED BY <1>6, <1>7, <1>9, <2>1
<1>11. ASSUME NEW s \in Service
       PROVE  /\ r.temporary[s] = IF s \in S THEN NoOffer ELSE b.temporary[s]
              /\ Known(r.used, s) <=> s \notin S /\ Known(b.used, s)
              /\ Known(r.used, s) =>
                   /\ r.used[s].comp = b.used[s].comp
                   /\ r.used[s].net = b.used[s].net
                   /\ r.used[s].ports = b.used[s].ports
                   /\ r.used[s].notes = {t \in b.used[s].notes : t.comp # c}
  <2>1. r.temporary[s] = IF s \in S THEN NoOffer ELSE b.temporary[s]
    BY <1>3, <1>5, <1>6, <1>7 DEF SameServices
  <2>2. e.used[s] = IF s \in S THEN NoOffer ELSE b.used[s]
    BY <1>3, <1>5 DEF SameServices
  <2>3. Known(r.used, s) <=> s \notin S /\ Known(b.used, s)
    <3>1. Known(f.used, s) <=> Known(e.used, s)
      BY <1>6
    <3>2. r.used = f.used
      BY <1>7
    <3> QED BY <2>2, <3>1, <3>2 DEF Known
  <2>4. ASSUME Known(r.used, s)
        PROVE  /\ r.used[s].comp = b.used[s].comp
               /\ r.used[s].net = b.used[s].net
               /\ r.used[s].ports = b.used[s].ports
               /\ r.used[s].notes = {t \in b.used[s].notes : t.comp # c}
    <3>1. s \notin S /\ Known(b.used, s) /\ e.used[s] = b.used[s]
          /\ Known(e.used, s)
      BY <2>2, <2>3, <2>4 DEF Known
    <3>2. s \notin e.releaseTags[c] => \A t \in b.used[s].notes : t.comp # c
      BY <1>8, <1>9, <3>1 DEF AwaitedBy
    <3>3. r.used[s].notes = IF s \in e.releaseTags[c]
                            THEN {t \in b.used[s].notes : t.comp # c}
                            ELSE b.used[s].notes
      BY <1>6, <1>7, <3>1
    <3>4. r.used[s].notes = {t \in b.used[s].notes : t.comp # c}
      BY <3>2, <3>3
    <3> QED BY <1>6, <1>7, <3>1, <3>4
  <2> QED BY <2>1, <2>3, <2>4
<1>12. /\ r.tempTags = [b.tempTags EXCEPT ![c] = {}]
       /\ r.usedTags = [b.usedTags EXCEPT ![c] = {}]
  BY <1>3, <1>5, <1>6, <1>7 DEF SameServices
<1>13. r.released = b.released \cup {t \in Notes(b, S) : t.comp \in O}
  <2>1. Notes(d, S) = Notes(b, S)
    BY <1>3 DEF SameServices, Notes
  <2> QED BY <1>3, <1>5, <1>6, <1>7, <2>1 DEF SameRequests
<1>14. /\ r.pending = P /\ r.served = b.served /\ r.refused = b.refused
       /\ r.declined = b.declined /\ r.ignored = b.ignored
  BY <1>3, <1>5, <1>6, <1>7 DEF SameRequests
<1>15. PortsReturned(b, r, c)
  <2>1. SamePools(b, f)
    BY <1>3, <1>5, <1>6 DEF SamePools
  <2>2. \A q : Returned(f, q) = Returned(b, q)
    BY <2>1 DEF SamePools, Returned, PortValid
  <2> QED BY <1>7, <2>1, <2>2 DEF SamePools, PortsReturned
<1>16. Removed(b, r, c, O)
  BY <1>7, <1>10, <1>11, <1>12, <1>13, <1>14, <1>15 DEF Removed, S, P
<1> QED BY <1>4, <1>16

(* The tables agree after a removal, and whoever waits still waits for a   *)
(* service that is not offered.                                            *)
LEMMA RemoveComponentGood ==
  ASSUME NEW b, Good(b), NEW c \in Component, NEW O
  PROVE  /\ Good(RemoveComponent(b, c, O))
         /\ \A S : WaitersBut(b, S) => WaitersBut(RemoveComponent(b, c, O), S)
<1> DEFINE r == RemoveComponent(b, c, O)
           S == Tags(b, c)
<1>1. /\ r \in Tables
      /\ \A s \in Service :
           /\ r.temporary[s] = IF s \in S THEN NoOffer ELSE b.temporary[s]
           /\ Known(r.used, s) <=> s \notin S /\ Known(b.used, s)
           /\ Known(r.used, s) =>
                /\ r.used[s].comp = b.used[s].comp
                /\ r.used[s].notes = {t \in b.used[s].notes : t.comp # c}
           /\ \A x \in Component : s \in r.releaseTags[x] <=>
                x # c /\ s \in b.releaseTags[x] /\ s \notin S
      /\ r.tempTags = [b.tempTags EXCEPT ![c] = {}]
      /\ r.usedTags = [b.usedTags EXCEPT ![c] = {}]
      /\ r.pending = {w \in b.pending : w.ticket.comp # c}
  <2>1. Removed(b, r, c, O)
    BY RemoveComponentMaps
  <2> HIDE DEF r
  <2> QED BY <2>1 DEF Removed
<1>2. ServicesAgree(b) /\ b \in Tables
  BY DEF Good
<1>3. \A s \in Service : s \in S <=>
        \/ Known(b.temporary, s) /\ b.temporary[s].comp = c
        \/ Known(b.used, s) /\ b.used[s].comp = c
  BY <1>2 DEF ServicesAgree, Tags
<1> HIDE DEF r, S
<1>4. ServicesAgree(r)
  <2> SUFFICES ASSUME NEW s \in Service
               PROVE  /\ ~Known(r.temporary, s) \/ ~Known(r.used, s)
                      /\ Known(r.temporary, s) => r.temporary[s].notes = {}
                      /\ \A y \in Component :
                           /\ s \in r.tempTags[y] <=> Known(r.temporary, s)
                                /\ r.temporary[s].comp = y
                           /\ s \in r.usedTags[y] <=>
                                Known(r.used, s) /\ r.used[s].comp = y
                           /\ s \in r.releaseTags[y] <=> AwaitedBy(r, s, y)
    BY DEF ServicesAgree
  <2>1. /\ ~Known(b.temporary, s) \/ ~Known(b.used, s)
        /\ Known(b.temporary, s) => b.temporary[s].notes = {}
        /\ \A y \in Component :
             /\ s \in b.tempTags[y] <=>
                  Known(b.temporary, s) /\ b.temporary[s].comp = y
             /\ s \in b.usedTags[y] <=> Known(b.used, s) /\ b.used[s].comp = y
             /\ s \in b.releaseTags[y] <=> AwaitedBy(b, s, y)
    BY <1>2 DEF ServicesAgree
  <2>2. /\ Known(r.temporary, s) <=> s \notin S /\ Known(b.temporary, s)
        /\ s \notin S => r.temporary[s] = b.temporary[s]
    BY <1>1 DEF Known
  <2>3. ASSUME NEW y \in Component
        PROVE  /\ s \in r.tempTags[y] <=> y # c /\ s \in b.tempTags[y]
               /\ s \in r.usedTags[y] <=> y # c /\ s \in b.usedTags[y]
    <3>1. /\ b.tempTags \in [Component -> SUBSET Service]
          /\ b.usedTags \in [Component -> SUBSET Service]
      BY <1>2 DEF Tables
    <3> QED BY <1>1, <3>1
  <2>4. ASSUME NEW y \in Component
        PROVE  s \in r.releaseTags[y] <=> AwaitedBy(r, s, y)
    <3>1. s \in r.releaseTags[y] <=>
            y # c /\ AwaitedBy(b, s, y) /\ s \notin S
      BY <1>1, <2>1
    <3>2. Known(r.used, s) =>
            r.used[s].notes = {t \in b.used[s].notes : t.comp # c}
      BY <1>1
    <3>3. Known(r.used, s) <=> s \notin S /\ Known(b.used, s)
      BY <1>1
    <3> QED BY <3>1, <3>2, <3>3 DEF AwaitedBy
  <2>5. ASSUME NEW y \in Component
        PROVE  s \in r.tempTags[y] <=>
                 Known(r.temporary, s) /\ r.temporary[s].comp = y
    BY <1>3, <2>1, <2>2, <2>3
  <2>6. ASSUME NEW y \in Component
        PROVE  s \in r.usedTags[y] <=> Known(r.used, s) /\ r.used[s].comp = y
    <3>1. /\ Known(r.used, s) <=> s \notin S /\ Known(b.used, s)
          /\ Known(r.used, s) => r.used[s].comp = b.used[s].comp
      BY <1>1
    <3> QED BY <1>3, <2>1, <2>3, <3>1
  <2>7. Known(r.used, s) => Known(b.used, s)
    BY <1>1
  <2> QED BY <2>1, <2>2, <2>4, <2>5, <2>6, <2>7
<1>5. ASSUME NEW X, WaitersBut(b, X)
      PROVE  WaitersBut(r, X)
  <2> SUFFICES ASSUME NEW w \in r.pending, w.service \notin X
               PROVE  ~Known(r.used, w.service)
    BY DEF WaitersBut
  <2>1. w \in b.pending /\ w.service \in Service
    BY <1>1, <1>2 DEF Tables, Waiting
  <2> QED BY <1>1, <1>5, <2>1 DEF WaitersBut
<1> QED BY <1>1, <1>4, <1>5 DEF Good, r

-----------------------------------------------------------------------------
(* The handlers keep IInv.                                                 *)

Settled(b) == Good(b) /\ WaitersBut(b, {})

(* The fields of a request, by its kind.                                   *)
LEMMA RequestFields ==
  ASSUME NEW r \in Request
  PROVE  /\ r # NoRequest
         /\ r.kind = "SZG_TRY" =>
              /\ r.service \in Service /\ r.net \in Network
              /\ r.block \in Block /\ r.size \in Size
         /\ r.kind \in {"SZG_RETRY", "SZG_SUCCESS"} => r.service \in Service
         /\ r.kind = "requestService" =>
              /\ r.service \in Service /\ r.net \in Network
              /\ r.match \in 1..MaxMatch
         /\ r.kind = "serviceRelease" =>
              r.service \in Service /\ r.match \in 1..MaxMatch
         /\ r.kind = "kill" => r.target \in Component
BY ServicesAssumption DEF Request

(* A read thread gives its record to the handler and holds none.           *)
LEMMA Consumes ==
  ASSUME IInv, NEW c \in Component, NEW K, Consuming(c, K), Consumed(c)
  PROVE  /\ held[c] \in Request /\ held[c].kind \in K
         /\ server = "running"
         /\ held' \in [Component -> Request \cup {NoRequest}]
         /\ \A b \in Component :
              held'[b] = IF b = c THEN NoRequest ELSE held[b]
BY DEF IInv, ConnTypeOK, Consuming, Consumed

(* Whoever is lost in an answer was connected.                             *)
LEMMA HangupsOpen ==
  ASSUME NEW c \in Component, NEW D \in Hangups({c})
  PROVE  D \in SUBSET Open /\ D \subseteq {c}
BY DEF Hangups, Broken

(* What every handler ends with keeps the invariant: tables that agree,    *)
(* perhaps without a component.                                            *)
LEMMA FinishIInv ==
  ASSUME IInv, NEW b, Settled(b), NEW D \in SUBSET Open, Finish(b, D),
         UNCHANGED <<proc, lastMatch>>,
         held' \in [Component -> Request \cup {NoRequest}],
         assigned' \in [Component -> SUBSET Service]
  PROVE  IInv'
<1>1. CASE D = {} /\ broker' = b /\ UNCHANGED <<link, server>>
  BY <1>1 DEF IInv, ConnTypeOK, Settled, Good, WaitersBut
<1>2. ASSUME NEW c \in D, broker' = RemoveComponent(b, c, Open \ D),
             Close(D), UNCHANGED server
      PROVE  IInv'
  <2>1. c \in Component
    BY DEF Open
  <2>2. Good(broker') /\ WaitersBut(broker', {})
    BY <1>2, <2>1, RemoveComponentGood DEF Settled
  <2>3. link' \in [Component -> {"new", "open", "gone"}]
    BY <1>2 DEF IInv, ConnTypeOK, Close
  <2> QED BY <1>2, <2>2, <2>3 DEF IInv, ConnTypeOK, Good, WaitersBut
<1>3. CASE server' = "undefined" /\ UNCHANGED <<link, broker>>
  BY <1>3 DEF IInv, ConnTypeOK, Good, WaitersBut
<1> QED BY <1>1, <1>2, <1>3 DEF Finish

(* registerServiceCallback with SZG_TRY keeps it                           *)
(* (szgserver.cpp:1526-1566).                                              *)
LEMMA RegisterTryIInv ==
  ASSUME IInv, NEW c \in Component, RegisterTry(c)
  PROVE  IInv'
<1> DEFINE r == held[c]
           s == r.service
           b == ResizeComputerPorts(broker, r.block)
<1>1. /\ r \in Request /\ r.kind = "SZG_TRY"
      /\ held' \in [Component -> Request \cup {NoRequest}]
      /\ UNCHANGED <<proc, lastMatch>>
  BY Consumes DEF RegisterTry
<1>2. /\ s \in Service /\ r.net \in Network
      /\ r.block \in Block /\ r.size \in Size
  BY <1>1, RequestFields
<1>3. PICK D \in Hangups({c}) :
        \/ Finish(broker, D) /\ UNCHANGED assigned
        \/ Finish(ExhaustPorts(b), D) /\ UNCHANGED assigned
        \/ /\ ~CheckService(broker, s) /\ Len(b.available) >= r.size
           /\ Finish(AssignPorts(b, s, c, r.net, r.size), D)
           /\ Granted(c, s, D)
  BY DEF RegisterTry
<1>4. D \in SUBSET Open
  BY HangupsOpen
<1> HIDE DEF r, s
<1>5. Good(b) /\ SameServices(broker, b) /\ SameRequests(broker, b)
  BY <1>2, ResizeGood DEF IInv
<1> HIDE DEF b
<1>6. /\ Settled(broker) /\ Settled(b)
      /\ assigned \in [Component -> SUBSET Service]
  BY <1>5 DEF IInv, Settled, WaitersBut, SameServices, SameRequests
<1>7. CASE Finish(broker, D) /\ UNCHANGED assigned
  BY <1>1, <1>4, <1>6, <1>7, FinishIInv
<1>8. CASE Finish(ExhaustPorts(b), D) /\ UNCHANGED assigned
  <2> DEFINE d == ExhaustPorts(b)
  <2>1. Good(d) /\ SameServices(b, d) /\ SameRequests(b, d)
    BY <1>5, ExhaustGood
  <2> HIDE DEF d
  <2>2. Settled(d)
    BY <1>6, <2>1 DEF Settled, WaitersBut, SameServices, SameRequests
  <2>3. Finish(d, D)
    BY <1>8 DEF d
  <2> QED BY <1>1, <1>4, <1>6, <1>8, <2>2, <2>3, FinishIInv
<1>9. CASE /\ ~CheckService(broker, s) /\ Len(b.available) >= r.size
           /\ Finish(AssignPorts(b, s, c, r.net, r.size), D)
           /\ Granted(c, s, D)
  <2> DEFINE d == AssignPorts(b, s, c, r.net, r.size)
  <2>1. ~CheckService(b, s)
    BY <1>5, <1>9 DEF CheckService, SameServices
  <2>2. r.size <= Len(b.available)
    BY <1>2, <1>5, <1>9, ServicesAssumption DEF Good, Tables
  <2>3. Good(d) /\ SameRequests(b, d) /\ d.used = b.used
    BY <1>2, <1>5, <2>1, <2>2, AssignGood
  <2> HIDE DEF d
  <2>4. Settled(d)
    BY <1>6, <2>3 DEF Settled, WaitersBut, SameRequests
  <2>5. assigned' \in [Component -> SUBSET Service]
    BY <1>2, <1>6, <1>9 DEF Granted
  <2>6. Finish(d, D)
    BY <1>9 DEF d
  <2> QED BY <1>1, <1>4, <2>4, <2>5, <2>6, FinishIInv
<1> QED BY <1>3, <1>7, <1>8, <1>9

(* With SZG_RETRY.                                                         *)
LEMMA RegisterRetryIInv ==
  ASSUME IInv, NEW c \in Component, RegisterRetry(c)
  PROVE  IInv'
<1> DEFINE s == held[c].service
           b == IF OwnedTemporary(c, s) THEN RetryPorts(broker, s) ELSE broker
<1>1. /\ s \in Service
      /\ held' \in [Component -> Request \cup {NoRequest}]
      /\ UNCHANGED <<proc, lastMatch, assigned>>
  BY Consumes, RequestFields DEF RegisterRetry
<1>2. PICK D \in Hangups({c}) : Finish(b, D)
  BY DEF RegisterRetry
<1> HIDE DEF s
<1>3. Settled(b)
  <2>1. CASE OwnedTemporary(c, s)
    <3> DEFINE d == RetryPorts(broker, s)
    <3>1. Good(d) /\ SameRequests(broker, d) /\ d.used = broker.used
      BY <1>1, <2>1, RetryGood DEF IInv, OwnedTemporary, Known
    <3> HIDE DEF d
    <3>2. Settled(d)
      BY <3>1 DEF IInv, Settled, WaitersBut, SameRequests
    <3> QED BY <2>1, <3>2 DEF d
  <2>2. CASE ~OwnedTemporary(c, s)
    BY <2>2 DEF IInv, Settled
  <2> QED BY <2>1, <2>2
<1>4. D \in SUBSET Open /\ assigned' \in [Component -> SUBSET Service]
  BY <1>1, HangupsOpen DEF IInv
<1> HIDE DEF b
<1> QED BY <1>1, <1>2, <1>3, <1>4, FinishIInv

(* Those who waited for s are answered: what remains of them waits for     *)
(* other services.                                                         *)
LEMMA AnswerPendingMaps ==
  ASSUME NEW b, Good(b), NEW s \in Service, NEW O
  PROVE  LET d == AnswerPending(b, s, O)
             heard == {w \in b.pending : w.service = s /\ w.ticket.comp \in O}
             found == {w \in heard : Known(b.used, s) /\ b.used[s].net = w.net}
         IN /\ Good(d) /\ SameServices(b, d)
            /\ d.pending = {w \in b.pending : w.service # s}
            /\ d.served = b.served \cup {w.ticket : w \in found}
            /\ d.refused = b.refused \cup {w.ticket : w \in heard \ found}
            /\ d.released = b.released /\ d.declined = b.declined
            /\ d.ignored = b.ignored
<1> DEFINE asked == {w \in b.pending : w.service = s}
           heard == {w \in b.pending : w.service = s /\ w.ticket.comp \in O}
           found == {w \in heard : Known(b.used, s) /\ b.used[s].net = w.net}
           P == b.pending \ asked
           V == {w.ticket : w \in found}
           R == {w.ticket : w \in heard \ found}
           d == AnswerPending(b, s, O)
<1>1. d = [b EXCEPT !.pending = P, !.served = @ \cup V, !.refused = @ \cup R]
  <2>1. heard = {w \in asked : w.ticket.comp \in O}
    OBVIOUS
  <2>2. found = {w \in heard : b.used[s] # NoOffer /\ b.used[s].net = w.net}
    BY DEF Known
  <2> QED BY <2>1, <2>2 DEF AnswerPending
<1>2. /\ P \in SUBSET Waiting /\ V \in SUBSET Ticket /\ R \in SUBSET Ticket
      /\ P = {w \in b.pending : w.service # s}
  BY DEF Good, Tables, Waiting
<1> HIDE DEF d, P, V, R
<1>3. d \in Tables
  BY <1>1, <1>2 DEF Good, Tables
<1>4. /\ SameServices(b, d) /\ d.pending = P /\ d.served = b.served \cup V
      /\ d.refused = b.refused \cup R
      /\ d.released = b.released /\ d.declined = b.declined
      /\ d.ignored = b.ignored
  BY <1>1 DEF Good, Tables, SameServices
<1> QED BY <1>2, <1>3, <1>4, RequestsGood DEF d, V, R

(* The tables of RegisterSuccess before the others are answered.           *)
Confirmed(c, s) ==
  IF OwnedTemporary(c, s) THEN ConfirmPorts(broker, s) ELSE broker

(* After a confirmation the tables agree, but those who wait for s wait    *)
(* for a service that is offered.                                          *)
LEMMA ConfirmedGood ==
  ASSUME IInv, NEW c \in Component, NEW s \in Service
  PROVE  LET b == Confirmed(c, s)
         IN Good(b) /\ WaitersBut(b, {s}) /\ SameRequests(broker, b)
<1>1. CASE OwnedTemporary(c, s)
  <2> DEFINE b == ConfirmPorts(broker, s)
  <2>1. /\ Good(b) /\ SameRequests(broker, b)
        /\ b.used = [broker.used EXCEPT ![s] = broker.temporary[s]]
    BY <1>1, ConfirmGood DEF IInv, OwnedTemporary, Known
  <2> HIDE DEF b
  <2>2. WaitersBut(b, {s})
    <3> SUFFICES ASSUME NEW w \in broker.pending, w.service # s
                 PROVE  ~Known(b.used, w.service)
      BY <2>1 DEF WaitersBut, SameRequests
    <3>1. w.service \in Service /\ ~Known(broker.used, w.service)
      BY DEF IInv, WaitersBut, Good, Tables, Waiting
    <3>2. broker.used \in [Service -> Offers]
      BY DEF IInv, Good, Tables
    <3> QED BY <2>1, <3>1, <3>2 DEF Known
  <2> QED BY <1>1, <2>1, <2>2 DEF Confirmed, b
<1>2. CASE ~OwnedTemporary(c, s)
  BY <1>2 DEF Confirmed, IInv, WaitersBut, SameRequests
<1> QED BY <1>1, <1>2

(* The answers to those who wait for s settle that.                        *)
LEMMA AnswerSettles ==
  ASSUME NEW b, Good(b), NEW s \in Service, WaitersBut(b, {s}), NEW O
  PROVE  Settled(AnswerPending(b, s, O))
<1> DEFINE d == AnswerPending(b, s, O)
<1>1. /\ Good(d) /\ d.used = b.used
      /\ d.pending = {w \in b.pending : w.service # s}
  BY AnswerPendingMaps DEF SameServices
<1> HIDE DEF d
<1>2. Settled(d)
  BY <1>1 DEF Settled, WaitersBut
<1> QED BY <1>2 DEF d

(* With SZG_SUCCESS: no handler runs between the confirmation and the      *)
(* answers.                                                                *)
LEMMA RegisterSuccessIInv ==
  ASSUME IInv, NEW c \in Component, RegisterSuccess(c)
  PROVE  IInv'
<1> DEFINE s == held[c].service
           b == Confirmed(c, s)
<1>1. /\ s \in Service
      /\ held' \in [Component -> Request \cup {NoRequest}]
      /\ UNCHANGED <<proc, lastMatch, assigned>>
  BY Consumes, RequestFields DEF RegisterSuccess
<1>2. \/ Finish(AnswerPending(b, s, Open), {})
      \/ \E D \in Hangups({c}) :
           /\ D # {}
           /\ \/ /\ broker' = AnswerPending(RemoveComponent(b, c, Open \ D),
                                            s, Open \ D)
                 /\ Close(D)
                 /\ UNCHANGED server
              \/ server' = "undefined" /\ UNCHANGED <<link, broker>>
  BY DEF RegisterSuccess, Confirmed
<1> HIDE DEF s
<1>3. Good(b) /\ WaitersBut(b, {s})
  BY <1>1, ConfirmedGood
<1>4. /\ assigned' \in [Component -> SUBSET Service]
      /\ {} \in SUBSET Open
  BY <1>1 DEF IInv
<1> HIDE DEF b
<1>5. CASE Finish(AnswerPending(b, s, Open), {})
  <2>1. Settled(AnswerPending(b, s, Open))
    BY <1>1, <1>3, AnswerSettles
  <2> QED BY <1>1, <1>4, <1>5, <2>1, FinishIInv
<1>6. ASSUME NEW D \in Hangups({c}),
             broker' = AnswerPending(RemoveComponent(b, c, Open \ D),
                                     s, Open \ D),
             Close(D), UNCHANGED server
      PROVE  IInv'
  <2> DEFINE e == RemoveComponent(b, c, Open \ D)
  <2>1. Good(e) /\ WaitersBut(e, {s})
    BY <1>3, RemoveComponentGood
  <2> HIDE DEF e
  <2>2. Settled(AnswerPending(e, s, Open \ D))
    BY <1>1, <2>1, AnswerSettles
  <2>3. Settled(broker')
    BY <1>6, <2>2 DEF e
  <2>4. link' \in [Component -> {"new", "open", "gone"}]
    BY <1>6 DEF IInv, ConnTypeOK, Close
  <2> QED BY <1>1, <1>4, <1>6, <2>3, <2>4
          DEF IInv, ConnTypeOK, Settled, Good, WaitersBut
<1>7. CASE server' = "undefined" /\ UNCHANGED <<link, broker>>
  BY <1>1, <1>4, <1>7 DEF IInv, ConnTypeOK, Good, WaitersBut
<1> QED BY <1>2, <1>5, <1>6, <1>7

(* What a handler may write down of a request without touching a service.  *)
LEMMA NotedGood ==
  ASSUME NEW b, Settled(b), NEW T \in SUBSET Ticket
  PROVE  /\ Settled([b EXCEPT !.served = @ \cup T])
         /\ Settled([b EXCEPT !.released = @ \cup T])
         /\ Settled([b EXCEPT !.declined = @ \cup T])
         /\ Settled([b EXCEPT !.ignored = @ \cup T])
<1>1. ASSUME NEW d \in Tables, SameServices(b, d), d.pending = b.pending
      PROVE  Settled(d)
  BY <1>1, RequestsGood DEF Settled, WaitersBut, SameServices
<1>2. b \in Tables
  BY DEF Settled, Good
<1>3. Settled([b EXCEPT !.served = @ \cup T])
  <2> DEFINE d == [b EXCEPT !.served = @ \cup T]
  <2>1. d \in Tables /\ SameServices(b, d) /\ d.pending = b.pending
    BY <1>2 DEF Tables, SameServices
  <2> QED BY <1>1, <2>1
<1>4. Settled([b EXCEPT !.released = @ \cup T])
  <2> DEFINE d == [b EXCEPT !.released = @ \cup T]
  <2>1. d \in Tables /\ SameServices(b, d) /\ d.pending = b.pending
    BY <1>2 DEF Tables, SameServices
  <2> QED BY <1>1, <2>1
<1>5. Settled([b EXCEPT !.declined = @ \cup T])
  <2> DEFINE d == [b EXCEPT !.declined = @ \cup T]
  <2>1. d \in Tables /\ SameServices(b, d) /\ d.pending = b.pending
    BY <1>2 DEF Tables, SameServices
  <2> QED BY <1>1, <2>1
<1>6. Settled([b EXCEPT !.ignored = @ \cup T])
  <2> DEFINE d == [b EXCEPT !.ignored = @ \cup T]
  <2>1. d \in Tables /\ SameServices(b, d) /\ d.pending = b.pending
    BY <1>2 DEF Tables, SameServices
  <2> QED BY <1>1, <2>1
<1> QED BY <1>3, <1>4, <1>5, <1>6

(* A request for a service that is not offered may wait.                   *)
LEMMA PendingGood ==
  ASSUME NEW b, Settled(b), NEW w \in Waiting, ~Known(b.used, w.service)
  PROVE  LET d == [b EXCEPT !.pending = @ \cup {w}]
         IN /\ Settled(d) /\ SameServices(b, d)
            /\ d.pending = b.pending \cup {w}
<1> DEFINE d == [b EXCEPT !.pending = @ \cup {w}]
<1>1. d \in Tables /\ SameServices(b, d) /\ d.pending = b.pending \cup {w}
  BY DEF Settled, Good, Tables, SameServices
<1> HIDE DEF d
<1>2. Good(d) /\ WaitersBut(d, {})
  BY <1>1, RequestsGood DEF Settled, WaitersBut, SameServices
<1> QED BY <1>1, <1>2 DEF Settled, d

(* requestServiceCallback keeps the invariant.                             *)
LEMMA RequestServiceIInv ==
  ASSUME IInv, NEW c \in Component, RequestService(c)
  PROVE  IInv'
<1> DEFINE r == held[c]
           t == [comp |-> c, match |-> r.match]
           w == [ticket |-> t, service |-> r.service, net |-> r.net]
<1>1. /\ r \in Request /\ r.kind = "requestService"
      /\ held' \in [Component -> Request \cup {NoRequest}]
      /\ UNCHANGED <<proc, lastMatch, assigned>>
  BY Consumes DEF RequestService
<1>2. /\ r.service \in Service /\ r.net \in Network
      /\ r.match \in 1..MaxMatch
  BY <1>1, RequestFields
<1>3. t \in Ticket /\ w \in Waiting /\ w.service = r.service
  BY <1>2 DEF Ticket, Waiting
<1>4. \/ /\ broker.used[r.service] = NoOffer
         /\ Finish([broker EXCEPT !.pending = @ \cup {w}], {})
      \/ Finish([broker EXCEPT !.declined = @ \cup {t}], {})
      \/ \E D \in Hangups({c}) :
           Finish([broker EXCEPT !.served =
                     @ \cup {u \in {t} : c \in Open \ D}], D)
  BY DEF RequestService
<1> HIDE DEF r, t, w
<1>5. /\ Settled(broker) /\ {} \in SUBSET Open
      /\ assigned' \in [Component -> SUBSET Service]
  BY <1>1 DEF IInv, Settled
<1>6. CASE /\ broker.used[r.service] = NoOffer
           /\ Finish([broker EXCEPT !.pending = @ \cup {w}], {})
  <2>1. Settled([broker EXCEPT !.pending = @ \cup {w}])
    BY <1>3, <1>5, <1>6, PendingGood DEF Known
  <2> QED BY <1>1, <1>5, <1>6, <2>1, FinishIInv
<1>7. CASE Finish([broker EXCEPT !.declined = @ \cup {t}], {})
  <2>1. {t} \in SUBSET Ticket
    BY <1>3
  <2>2. Settled([broker EXCEPT !.declined = @ \cup {t}])
    BY <1>5, <2>1, NotedGood
  <2> QED BY <1>1, <1>5, <1>7, <2>2, FinishIInv
<1>8. ASSUME NEW D \in Hangups({c}),
             Finish([broker EXCEPT !.served =
                       @ \cup {u \in {t} : c \in Open \ D}], D)
      PROVE  IInv'
  <2> DEFINE T == {u \in {t} : c \in Open \ D}
  <2>1. T \in SUBSET Ticket /\ D \in SUBSET Open
    BY <1>3, HangupsOpen
  <2>2. Finish([broker EXCEPT !.served = @ \cup T], D)
    BY <1>8
  <2> HIDE DEF T
  <2>3. Settled([broker EXCEPT !.served = @ \cup T])
    BY <1>5, <2>1, NotedGood
  <2> QED BY <1>1, <1>5, <2>1, <2>2, <2>3, FinishIInv
<1> QED BY <1>4, <1>6, <1>7, <1>8

(* serviceReleaseCallback keeps it.                                        *)
LEMMA ServiceReleaseIInv ==
  ASSUME IInv, NEW c \in Component, ServiceRelease(c)
  PROVE  IInv'
<1> DEFINE s == held[c].service
           t == [comp |-> c, match |-> held[c].match]
<1>1. /\ s \in Service /\ held[c].match \in 1..MaxMatch
      /\ held' \in [Component -> Request \cup {NoRequest}]
      /\ UNCHANGED <<proc, lastMatch, assigned>>
  BY Consumes, RequestFields DEF ServiceRelease
<1>2. t \in Ticket
  BY <1>1 DEF Ticket
<1>3. \/ /\ broker.used[s] # NoOffer
         /\ Finish(RegisterReleaseNotification(broker, s, t), {})
      \/ \E D \in Hangups({c}) :
           Finish([broker EXCEPT !.released =
                     @ \cup {u \in {t} : c \in Open \ D}], D)
      \/ Finish([broker EXCEPT !.ignored = @ \cup {t}], {})
  BY DEF ServiceRelease
<1> HIDE DEF s, t
<1>4. /\ Settled(broker) /\ {} \in SUBSET Open
      /\ assigned' \in [Component -> SUBSET Service]
  BY <1>1 DEF IInv, Settled
<1>5. CASE /\ broker.used[s] # NoOffer
           /\ Finish(RegisterReleaseNotification(broker, s, t), {})
  <2> DEFINE d == RegisterReleaseNotification(broker, s, t)
             p == [broker.used[s] EXCEPT !.notes = @ \cup {t}]
  <2>1. /\ Good(d) /\ SameRequests(broker, d)
        /\ d.used = [broker.used EXCEPT ![s] = p]
    BY <1>1, <1>2, <1>4, <1>5, RegisterReleaseGood DEF Settled, Known
  <2>2. Finish(d, {})
    BY <1>5
  <2> HIDE DEF d, p
  <2>3. WaitersBut(d, {})
    <3> SUFFICES ASSUME NEW w \in broker.pending
                 PROVE  ~Known(d.used, w.service)
      BY <2>1 DEF WaitersBut, SameRequests
    <3>1. ~Known(broker.used, w.service) /\ w.service # s
      BY <1>4, <1>5 DEF Settled, WaitersBut, Known
    <3>2. w.service \in Service /\ broker.used \in [Service -> Offers]
      BY DEF IInv, Good, Tables, Waiting
    <3> QED BY <2>1, <3>1, <3>2 DEF Known
  <2> QED BY <1>1, <1>4, <2>1, <2>2, <2>3, FinishIInv DEF Settled
<1>6. ASSUME NEW D \in Hangups({c}),
             Finish([broker EXCEPT !.released =
                       @ \cup {u \in {t} : c \in Open \ D}], D)
      PROVE  IInv'
  <2> DEFINE T == {u \in {t} : c \in Open \ D}
  <2>1. T \in SUBSET Ticket /\ D \in SUBSET Open
    BY <1>2, HangupsOpen
  <2>2. Finish([broker EXCEPT !.released = @ \cup T], D)
    BY <1>6
  <2> HIDE DEF T
  <2>3. Settled([broker EXCEPT !.released = @ \cup T])
    BY <1>4, <2>1, NotedGood
  <2> QED BY <1>1, <1>4, <2>1, <2>2, <2>3, FinishIInv
<1>7. CASE Finish([broker EXCEPT !.ignored = @ \cup {t}], {})
  <2>1. {t} \in SUBSET Ticket
    BY <1>2
  <2>2. Settled([broker EXCEPT !.ignored = @ \cup {t}])
    BY <1>4, <2>1, NotedGood
  <2> QED BY <1>1, <1>4, <1>7, <2>2, FinishIInv
<1> QED BY <1>3, <1>5, <1>6, <1>7

(* So does what the clients do.                                            *)
LEMMA ClientStepIInv ==
  ASSUME IInv, NEW c \in Component, ClientStep(c)
  PROVE  IInv'
<1>1. ASSUME NEW r \in Request, SendRequest(c, r)
      PROVE  IInv'
  <2>1. /\ held' = [held EXCEPT ![c] = r]
        /\ UNCHANGED <<link, proc, server, broker>>
    BY <1>1 DEF SendRequest, Receive
  <2>2. lastMatch' \in [Component -> 0..MaxMatch]
    <3>1. CASE r.kind \in {"requestService", "serviceRelease"}
      <4>1. r.match \in 1..MaxMatch
        BY <3>1, RequestFields
      <4>2. r.match \in 0..MaxMatch
        BY <4>1, ServicesAssumption
      <4> QED BY <1>1, <3>1, <4>2 DEF SendRequest, IInv
    <3>2. CASE r.kind \notin {"requestService", "serviceRelease"}
      BY <1>1, <3>2 DEF SendRequest, IInv
    <3> QED BY <3>1, <3>2
  <2>3. assigned' \in [Component -> SUBSET Service]
    BY <1>1 DEF SendRequest, IInv
  <2> QED BY <2>1, <2>2, <2>3 DEF IInv, ConnTypeOK, Good, WaitersBut
<1>2. ASSUME NEW how \in {"down", "lost"}, Leave(c, how), UNCHANGED servicesVars
      PROVE  IInv'
  BY <1>2 DEF Leave, servicesVars, IInv, ConnTypeOK, Good, WaitersBut
<1>3. ASSUME Accept(c), UNCHANGED servicesVars
      PROVE  IInv'
  BY <1>3 DEF Accept, servicesVars, IInv, ConnTypeOK, Good, WaitersBut
<1> QED BY <1>1, <1>2, <1>3 DEF ClientStep

(* Every step keeps it.                                                    *)
LEMMA NextIInv == IInv /\ [Next]_vars => IInv'
<1> SUFFICES ASSUME IInv, [Next]_vars PROVE IInv'
  OBVIOUS
<1>0. Settled(broker) /\ assigned \in [Component -> SUBSET Service]
  BY DEF IInv, Settled
<1>1. ASSUME NEW c \in Component, Kill(c) PROVE IInv'
  <2> DEFINE D == {held[c].target} \cap Open
  <2>1. /\ held' \in [Component -> Request \cup {NoRequest}]
        /\ UNCHANGED <<proc, assigned, lastMatch>> /\ Finish(broker, D)
    BY <1>1, Consumes DEF Kill
  <2>2. D \in SUBSET Open
    OBVIOUS
  <2> HIDE DEF D
  <2> QED BY <1>0, <2>1, <2>2, FinishIInv
<1>2. ASSUME NEW c \in Component, Disconnect(c) PROVE IInv'
  <2>1. /\ UNCHANGED <<proc, held, assigned, lastMatch>>
        /\ Finish(broker, {c}) /\ {c} \in SUBSET Open
    BY <1>2 DEF Disconnect, ReadFails, WriteFails, Broken, Open
  <2>2. held' \in [Component -> Request \cup {NoRequest}]
    BY <2>1 DEF IInv, ConnTypeOK
  <2> QED BY <1>0, <2>1, <2>2, FinishIInv
<1>3. ASSUME NEW c \in Component, Handle(c) PROVE IInv'
  BY <1>1, <1>3, RegisterTryIInv, RegisterRetryIInv, RegisterSuccessIInv,
     RequestServiceIInv, ServiceReleaseIInv DEF Handle
<1>4. CASE UNCHANGED vars
  BY <1>4 DEF vars, IInv, ConnTypeOK, Good, WaitersBut
<1> QED BY <1>2, <1>3, <1>4, ClientStepIInv DEF Next

(* The two tables of services and the components' lists agree, a service   *)
(* that is not confirmed yet has no list of those who await its release,   *)
(* and who waits for a service waits for one that is not offered: in every *)
(* reachable state, however requests, confirmations, removals and failed   *)
(* writes interleave (arPhleetConnectionBroker.cpp:34-261, 494-662;        *)
(* szgserver.cpp:1526-1748).                                               *)
THEOREM Invariance == Spec => []IInv
  BY InitIInv, NextIInv, PTL DEF Spec

(* The tables of the broker have their types, for any number of            *)
(* components, services, networks, blocks and sizes                        *)
(* (arPhleetConnectionBroker.h:18-107).                                    *)
THEOREM ServicesTypeOK == Spec => []TypeOK
<1>1. IInv => TypeOK
  BY DEF IInv, Good, TypeOK
<1> QED BY <1>1, Invariance, PTL

(* A service is temporary or used, not both, and exactly its owner has it  *)
(* on the list of that kind; a component has on its list of releases       *)
(* exactly the services that have it on theirs                             *)
(* (arPhleetConnectionBroker.cpp:103-120, 226-243, 505-522).               *)
THEOREM ServiceTables == Spec => []ServiceTablesAgree
<1>1. IInv => ServiceTablesAgree
  <2> SUFFICES ASSUME IInv, NEW s \in Service
               PROVE  /\ broker.temporary[s] = NoOffer \/ broker.used[s] = NoOffer
                      /\ \A c \in Component :
                           /\ s \in broker.tempTags[c] <=> OwnedTemporary(c, s)
                           /\ s \in broker.usedTags[c] <=>
                                broker.used[s] # NoOffer /\ broker.used[s].comp = c
                           /\ s \in broker.releaseTags[c] <=>
                                \E t \in Notes(broker, {s}) : t.comp = c
    BY DEF ServiceTablesAgree
  <2>1. \A c \in Component :
          AwaitedBy(broker, s, c) <=> \E t \in Notes(broker, {s}) : t.comp = c
    BY DEF AwaitedBy, Known, Notes
  <2> QED BY <2>1 DEF IInv, Good, ServicesAgree, Known, OwnedTemporary
<1> QED BY <1>1, Invariance, PTL

-----------------------------------------------------------------------------
(* Every request a connected client made is in one place.  The proof       *)
(* follows one request through the tables.                                 *)

Noted(b, s, t) == Known(b.used, s) /\ t \in b.used[s].notes

(* t is in the place x and in no other; `isHeld' says whether it is with   *)
(* the read thread.                                                        *)
InPlace(x, isHeld, b, t) ==
  /\ isHeld <=> x = "held"
  /\ (\E w \in b.pending : w.ticket = t) <=> x = "pending"
  /\ \A v, w \in b.pending : v.ticket = t /\ w.ticket = t => v = w
  /\ (\E s \in Service : Noted(b, s, t)) <=> x = "noted"
  /\ \A r, s \in Service : Noted(b, r, t) /\ Noted(b, s, t) => r = s
  /\ t \in b.served <=> x = "served"
  /\ t \in b.refused <=> x = "refused"
  /\ t \in b.released <=> x = "released"
  /\ t \in b.declined <=> x = "declined"
  /\ t \in b.ignored <=> x = "ignored"

Place == {"held", "pending", "noted", "served", "refused", "released",
          "declined", "ignored"}

InOnePlace(isHeld, b, t) == \E x \in Place : InPlace(x, isHeld, b, t)

Nowhere(b, t) == InPlace("nowhere", FALSE, b, t)

(* The read thread of t's component holds its request.                     *)
HoldsReq(t) ==
  /\ held[t.comp] # NoRequest
  /\ held[t.comp].kind \in {"requestService", "serviceRelease"}
  /\ held[t.comp].match = t.match

(* Matches are used once, and only by those who have connected.            *)
Fresh ==
  /\ \A c \in Component : link[c] = "new" => lastMatch[c] = 0
  /\ \A t \in Ticket : t.match > lastMatch[t.comp] =>
       ~HoldsReq(t) /\ Nowhere(broker, t)

Placed ==
  server = "running" =>
    \A t \in Ticket : t.comp \in Open /\ t.match <= lastMatch[t.comp] =>
      InOnePlace(HoldsReq(t), broker, t)

(* What is added to IInv.                                                  *)
Tracked == Fresh /\ Placed

(* Nothing was requested at the start.                                     *)
LEMMA InitTracked == Init => Tracked
<1> SUFFICES ASSUME Init PROVE Tracked
  OBVIOUS
<1>1. Fresh
  <2>1. ASSUME NEW t \in Ticket PROVE ~HoldsReq(t) /\ Nowhere(broker, t)
    <3>1. ~HoldsReq(t)
      BY DEF Init, ConnInit, Ticket, HoldsReq
    <3>2. \A s \in Service : ~Noted(broker, s, t)
      BY DEF Init, Noted, Known
    <3> QED BY <3>1, <3>2 DEF Init, Nowhere, InPlace
  <2> QED BY <2>1 DEF Init, ConnInit, Fresh
<1>2. Placed
  BY DEF Init, ConnInit, Placed, Open
<1> QED BY <1>1, <1>2 DEF Tracked

(* The handler may end with the tables b and the components in O: held'    *)
(* says whose request is still with a read thread.                         *)
Ready(b, O) ==
  \A t \in Ticket :
    /\ t.match > lastMatch[t.comp] => ~HoldsReq(t)' /\ Nowhere(b, t)
    /\ t.comp \in O /\ t.match <= lastMatch[t.comp] =>
         InOnePlace(HoldsReq(t)', b, t)

(* HoldsReq is a truth value.                                              *)
LEMMA HeldBoolean == \A t : HoldsReq(t) \in BOOLEAN /\ HoldsReq(t)' \in BOOLEAN
BY DEF HoldsReq

(* The removal of c, for one request: its notes on the lists of c's        *)
(* services become answers.                                                *)
LEMMA RemoveMoves ==
  ASSUME NEW b, Good(b), NEW c \in Component, NEW O
  PROVE  LET r == RemoveComponent(b, c, O)
             S == Tags(b, c)
         IN /\ \A s \in Service : \A t : Noted(r, s, t) <=>
                 s \notin S /\ Noted(b, s, t) /\ t.comp # c
            /\ \A t : t \in r.released <=>
                 \/ t \in b.released
                 \/ t.comp \in O /\ \E s \in S : Noted(b, s, t)
            /\ r.pending = {w \in b.pending : w.ticket.comp # c}
            /\ r.served = b.served /\ r.refused = b.refused
            /\ r.declined = b.declined /\ r.ignored = b.ignored
<1> DEFINE r == RemoveComponent(b, c, O)
           S == Tags(b, c)
<1>1. /\ r \in Tables
      /\ \A s \in Service :
           /\ r.temporary[s] = IF s \in S THEN NoOffer ELSE b.temporary[s]
           /\ Known(r.used, s) <=> s \notin S /\ Known(b.used, s)
           /\ Known(r.used, s) =>
                /\ r.used[s].comp = b.used[s].comp
                /\ r.used[s].net = b.used[s].net
                /\ r.used[s].notes = {t \in b.used[s].notes : t.comp # c}
           /\ \A x \in Component : s \in r.releaseTags[x] <=>
                x # c /\ s \in b.releaseTags[x] /\ s \notin S
      /\ r.tempTags = [b.tempTags EXCEPT ![c] = {}]
      /\ r.usedTags = [b.usedTags EXCEPT ![c] = {}]
      /\ r.pending = {w \in b.pending : w.ticket.comp # c}
      /\ r.released = b.released \cup {t \in Notes(b, S) : t.comp \in O}
      /\ r.served = b.served /\ r.refused = b.refused
      /\ r.declined = b.declined /\ r.ignored = b.ignored
  <2>1. Removed(b, r, c, O)
    BY RemoveComponentMaps
  <2> HIDE DEF r
  <2> QED BY <2>1 DEF Removed
<1>2. \A t : t \in Notes(b, S) <=> \E s \in S : Noted(b, s, t)
  BY DEF Noted, Notes, Known
<1> HIDE DEF r, S
<1> QED BY <1>1, <1>2 DEF Noted, r, S

(* The tables say of t what they said before, but for some of its notes,   *)
(* which were answered with a release.                                     *)
LEMMA RemovePlaces ==
  ASSUME NEW b, Good(b), NEW c \in Component, NEW O, NEW t \in Ticket,
         t.comp # c, t.comp \in O, NEW h \in BOOLEAN, InOnePlace(h, b, t)
  PROVE  InOnePlace(h, RemoveComponent(b, c, O), t)
<1> DEFINE r == RemoveComponent(b, c, O)
           S == Tags(b, c)
<1>1. /\ \A s \in Service : Noted(r, s, t) <=> s \notin S /\ Noted(b, s, t)
      /\ t \in r.released <=>
           t \in b.released \/ (t.comp \in O /\ \E s \in S : Noted(b, s, t))
      /\ r.pending = {w \in b.pending : w.ticket.comp # c}
      /\ r.served = b.served /\ r.refused = b.refused
      /\ r.declined = b.declined /\ r.ignored = b.ignored
  BY RemoveMoves
<1>3. \A w \in b.pending : w.ticket = t => w \in r.pending
  BY <1>1
<1>4. r.pending \subseteq b.pending /\ S \subseteq Service
  BY <1>1 DEF Good, Tables, Tags
<1> HIDE DEF r, S
<1>6. InOnePlace(h, r, t)
  <2>1. PICK x \in Place : InPlace(x, h, b, t)
    BY DEF InOnePlace
  <2>2. CASE \E s \in S : Noted(b, s, t)
    <3>1. x = "noted" /\ t \in r.released
      BY <1>1, <1>4, <2>1, <2>2 DEF InPlace
    <3>2. \A s \in Service : ~Noted(r, s, t)
      BY <1>1, <1>4, <2>1, <2>2 DEF InPlace
    <3>3. InPlace("released", h, r, t)
      BY <1>1, <1>3, <1>4, <2>1, <3>1, <3>2 DEF InPlace
    <3> QED BY <3>3 DEF InOnePlace, Place
  <2>3. CASE ~\E s \in S : Noted(b, s, t)
    <3>1. /\ t \in r.released <=> t \in b.released
          /\ \A s \in Service : Noted(r, s, t) <=> Noted(b, s, t)
      BY <1>1, <1>4, <2>3
    <3>2. InPlace(x, h, r, t)
      BY <1>1, <1>3, <1>4, <2>1, <3>1 DEF InPlace
    <3> QED BY <3>2 DEF InOnePlace
  <2> QED BY <2>2, <2>3
<1> QED BY <1>6 DEF r

(* A request that was nowhere still is.                                    *)
LEMMA RemoveNowhere ==
  ASSUME NEW b, Good(b), NEW c \in Component, NEW O, NEW t \in Ticket,
         Nowhere(b, t)
  PROVE  Nowhere(RemoveComponent(b, c, O), t)
<1> DEFINE r == RemoveComponent(b, c, O)
           S == Tags(b, c)
<1>1. /\ \A s \in Service : Noted(r, s, t) => Noted(b, s, t)
      /\ t \in r.released => t \in b.released \/ \E s \in S : Noted(b, s, t)
      /\ r.pending \subseteq b.pending
      /\ r.served = b.served /\ r.refused = b.refused
      /\ r.declined = b.declined /\ r.ignored = b.ignored
  BY RemoveMoves
<1>2. S \subseteq Service
  BY DEF Good, Tables, Tags
<1> HIDE DEF r, S
<1>3. Nowhere(r, t)
  BY <1>1, <1>2 DEF Nowhere, InPlace
<1> QED BY <1>3 DEF r

(* Tables that are ready stay so when a component is removed.              *)
LEMMA RemoveReady ==
  ASSUME NEW b, Good(b), NEW c \in Component, NEW O, c \notin O, Ready(b, O)
  PROVE  Ready(RemoveComponent(b, c, O), O)
<1> DEFINE r == RemoveComponent(b, c, O)
<1> SUFFICES ASSUME NEW t \in Ticket
             PROVE  /\ t.match > lastMatch[t.comp] =>
                         ~HoldsReq(t)' /\ Nowhere(r, t)
                    /\ t.comp \in O /\ t.match <= lastMatch[t.comp] =>
                         InOnePlace(HoldsReq(t)', r, t)
  BY DEF Ready
<1>1. t.match > lastMatch[t.comp] => ~HoldsReq(t)' /\ Nowhere(r, t)
  BY RemoveNowhere DEF Ready
<1>2. ASSUME t.comp \in O, t.match <= lastMatch[t.comp]
      PROVE  InOnePlace(HoldsReq(t)', r, t)
  <2> DEFINE h == HoldsReq(t)'
  <2>1. InOnePlace(h, b, t) /\ h \in BOOLEAN /\ t.comp # c
    BY <1>2, HeldBoolean DEF Ready
  <2> HIDE DEF h
  <2>2. InOnePlace(h, r, t)
    BY <1>2, <2>1, RemovePlaces
  <2> QED BY <2>2 DEF h
<1> QED BY <1>1, <1>2

(* Those who waited for s move from the list to an answer.                 *)
LEMMA AnswerReady ==
  ASSUME NEW b, Good(b), NEW s \in Service, NEW O, Ready(b, O)
  PROVE  Ready(AnswerPending(b, s, O), O)
<1> DEFINE d == AnswerPending(b, s, O)
           heard == {w \in b.pending : w.service = s /\ w.ticket.comp \in O}
           found == {w \in heard : Known(b.used, s) /\ b.used[s].net = w.net}
           V == {w.ticket : w \in found}
           R == {w.ticket : w \in heard \ found}
<1>1. /\ d.used = b.used
      /\ d.pending = {w \in b.pending : w.service # s}
      /\ d.served = b.served \cup V
      /\ d.refused = b.refused \cup R
      /\ d.released = b.released /\ d.declined = b.declined
      /\ d.ignored = b.ignored
  BY AnswerPendingMaps DEF SameServices
<1> SUFFICES ASSUME NEW t \in Ticket
             PROVE  /\ t.match > lastMatch[t.comp] =>
                         ~HoldsReq(t)' /\ Nowhere(d, t)
                    /\ t.comp \in O /\ t.match <= lastMatch[t.comp] =>
                         InOnePlace(HoldsReq(t)', d, t)
  BY DEF Ready
<1>2. \A x \in Service : Noted(d, x, t) <=> Noted(b, x, t)
  BY <1>1 DEF Noted
<1>3. heard \subseteq b.pending /\ found \subseteq heard
  OBVIOUS
<1>4. t \in V => \E w \in found : w.ticket = t
  OBVIOUS
<1>5. t \in R => \E w \in heard \ found : w.ticket = t
  OBVIOUS
<1>6. \A w \in found : w.ticket \in V
  OBVIOUS
<1>7. \A w \in heard \ found : w.ticket \in R
  OBVIOUS
<1>8. \A w \in b.pending : w \in heard <=> w.service = s /\ w.ticket.comp \in O
  OBVIOUS
<1> HIDE DEF d, heard, found, V, R
<1>9. ASSUME t.match > lastMatch[t.comp]
      PROVE  ~HoldsReq(t)' /\ Nowhere(d, t)
  <2>1. ~HoldsReq(t)' /\ Nowhere(b, t)
    BY <1>9 DEF Ready
  <2>2. \A w \in b.pending : w.ticket # t
    BY <2>1 DEF Nowhere, InPlace
  <2>3. t \notin V /\ t \notin R
    BY <1>3, <1>4, <1>5, <2>2
  <2>4. Nowhere(d, t)
    BY <1>1, <1>2, <2>1, <2>2, <2>3 DEF Nowhere, InPlace
  <2> QED BY <2>1, <2>4
<1>10. ASSUME t.comp \in O, t.match <= lastMatch[t.comp]
       PROVE  InOnePlace(HoldsReq(t)', d, t)
  <2> DEFINE h == HoldsReq(t)'
  <2>1. InOnePlace(h, b, t)
    BY <1>10 DEF Ready
  <2> HIDE DEF h
  <2>2. PICK x \in Place : InPlace(x, h, b, t)
    BY <2>1 DEF InOnePlace
  <2>3. CASE \E w \in b.pending : w.ticket = t /\ w.service = s
    <3>1. PICK w \in b.pending : w.ticket = t /\ w.service = s
      BY <2>3
    <3>2. \A v \in b.pending : v.ticket = t => v = w
      BY <2>2, <3>1 DEF InPlace
    <3>3. x = "pending" /\ w \in heard
      BY <1>8, <1>10, <2>2, <3>1 DEF InPlace
    <3>4. \A v \in d.pending : v.ticket # t
      BY <1>1, <3>1, <3>2
    <3>5. CASE w \in found
      <4>1. t \in V /\ t \notin R
        BY <1>3, <1>5, <1>6, <3>1, <3>2, <3>5
      <4>2. InPlace("served", h, d, t)
        BY <1>1, <1>2, <2>2, <3>3, <3>4, <4>1 DEF InPlace
      <4> QED BY <4>2 DEF InOnePlace, Place, h
    <3>6. CASE w \notin found
      <4>1. t \in R /\ t \notin V
        BY <1>3, <1>4, <1>7, <3>1, <3>2, <3>3, <3>6
      <4>2. InPlace("refused", h, d, t)
        BY <1>1, <1>2, <2>2, <3>3, <3>4, <4>1 DEF InPlace
      <4> QED BY <4>2 DEF InOnePlace, Place, h
    <3> QED BY <3>5, <3>6
  <2>4. CASE ~\E w \in b.pending : w.ticket = t /\ w.service = s
    <3>1. t \notin V /\ t \notin R
      BY <1>3, <1>4, <1>5, <1>8, <2>4
    <3>2. \A w \in b.pending : w.ticket = t => w \in d.pending
      BY <1>1, <2>4
    <3>3. d.pending \subseteq b.pending
      BY <1>1
    <3>4. InPlace(x, h, d, t)
      BY <1>1, <1>2, <2>2, <3>1, <3>2, <3>3 DEF InPlace
    <3> QED BY <3>4 DEF InOnePlace, h
  <2> QED BY <2>3, <2>4
<1> QED BY <1>9, <1>10

(* How a step ends: with tables that are ready for those who stay, or in   *)
(* undefined behaviour, after which nothing is claimed of what was placed. *)
LEMMA SettleTracked ==
  ASSUME Ready(broker', Open'), UNCHANGED lastMatch, Tracked,
         \A c \in Component : link'[c] = "new" => link[c] = "new"
  PROVE  Tracked'
<1>1. Fresh'
  BY DEF Tracked, Fresh, Ready
<1>2. Placed'
  BY DEF Placed, Ready
<1> QED BY <1>1, <1>2 DEF Tracked

(* The same for a step into undefined behaviour.                           *)
LEMMA DerailTracked ==
  ASSUME Tracked, server' = "undefined", UNCHANGED <<link, broker, lastMatch>>,
         \A t \in Ticket : HoldsReq(t)' => HoldsReq(t)
  PROVE  Tracked'
<1>1. Fresh'
  BY DEF Tracked, Fresh
<1>2. Placed'
  BY DEF Placed
<1> QED BY <1>1, <1>2 DEF Tracked

(* Every handler ends with one of the three.                               *)
LEMMA FinishTracked ==
  ASSUME Tracked, NEW b, Good(b), NEW D \in SUBSET Open,
         Ready(b, Open \ D), Finish(b, D), UNCHANGED lastMatch,
         \A t \in Ticket : HoldsReq(t)' => HoldsReq(t)
  PROVE  Tracked'
<1>1. CASE D = {} /\ broker' = b /\ UNCHANGED <<link, server>>
  <2>1. Open' = Open /\ Open \ D = Open
    BY <1>1 DEF Open
  <2>2. Ready(broker', Open')
    BY <1>1, <2>1 DEF Ready
  <2> QED BY <1>1, <2>2, SettleTracked
<1>2. ASSUME NEW c \in D, broker' = RemoveComponent(b, c, Open \ D),
             Close(D)
      PROVE  Tracked'
  <2>1. /\ Open' = Open \ D
        /\ \A x \in Component : link'[x] = "new" => link[x] = "new"
    BY <1>2 DEF Close, Open
  <2> DEFINE r == RemoveComponent(b, c, Open \ D)
  <2>2. Ready(r, Open \ D)
    <3>1. c \in Component
      BY DEF Open
    <3> QED BY <3>1, RemoveReady
  <2>3. broker' = r
    BY <1>2
  <2> HIDE DEF r
  <2>4. Ready(broker', Open')
    BY <2>1, <2>2, <2>3 DEF Ready
  <2> QED BY <2>1, <2>4, SettleTracked
<1>3. CASE server' = "undefined" /\ UNCHANGED <<link, broker>>
  BY <1>3, DerailTracked
<1> QED BY <1>1, <1>2, <1>3 DEF Finish

-----------------------------------------------------------------------------
(* The handlers keep Tracked.                                              *)

(* The tables d say of t what b does.                                      *)
SamePlaces(b, d, t) ==
  /\ \A w : w.ticket = t => (w \in d.pending <=> w \in b.pending)
  /\ \A s \in Service : Noted(d, s, t) <=> Noted(b, s, t)
  /\ t \in d.served <=> t \in b.served
  /\ t \in d.refused <=> t \in b.refused
  /\ t \in d.released <=> t \in b.released
  /\ t \in d.declined <=> t \in b.declined
  /\ t \in d.ignored <=> t \in b.ignored

(* A request that nothing is changed about stays where it is.              *)
LEMMA SameInPlace ==
  ASSUME NEW b, NEW d, NEW t, SamePlaces(b, d, t), NEW x, NEW h,
         InPlace(x, h, b, t)
  PROVE  InPlace(x, h, d, t)
BY DEF SamePlaces, InPlace

(* Tables that say the same of every request are ready as the old ones.    *)
LEMMA SameReady ==
  ASSUME IInv, Tracked, server = "running", NEW O \in SUBSET Open,
         \A t \in Ticket : HoldsReq(t)' <=> HoldsReq(t),
         NEW b, \A t \in Ticket : SamePlaces(broker, b, t)
  PROVE  Ready(b, O)
<1> SUFFICES ASSUME NEW t \in Ticket
             PROVE  /\ t.match > lastMatch[t.comp] =>
                         ~HoldsReq(t)' /\ Nowhere(b, t)
                    /\ t.comp \in O /\ t.match <= lastMatch[t.comp] =>
                         InOnePlace(HoldsReq(t)', b, t)
  BY DEF Ready
<1>1. ASSUME t.match > lastMatch[t.comp]
      PROVE  ~HoldsReq(t)' /\ Nowhere(b, t)
  <2>1. ~HoldsReq(t) /\ Nowhere(broker, t)
    BY <1>1 DEF Tracked, Fresh
  <2> QED BY <2>1, SameInPlace DEF Nowhere
<1>2. ASSUME t.comp \in O, t.match <= lastMatch[t.comp]
      PROVE  InOnePlace(HoldsReq(t)', b, t)
  <2> DEFINE h == HoldsReq(t)
             k == HoldsReq(t)'
  <2>1. InOnePlace(h, broker, t) /\ (h <=> k) /\ h \in BOOLEAN /\ k \in BOOLEAN
    BY <1>2, HeldBoolean DEF Tracked, Placed
  <2> HIDE DEF h, k
  <2>2. PICK x \in Place : InPlace(x, h, broker, t)
    BY <2>1 DEF InOnePlace
  <2>3. InPlace(x, h, b, t)
    BY <2>2, SameInPlace
  <2>4. InPlace(x, k, b, t)
    BY <2>1, <2>3 DEF InPlace
  <2> QED BY <2>4 DEF InOnePlace, k
<1> QED BY <1>1, <1>2

(* The request of c with match m is consumed, and others are untouched.    *)
LEMMA ConsumeReady ==
  ASSUME IInv, Tracked, server = "running", NEW O \in SUBSET Open,
         NEW c \in Component, Consumed(c), NEW u \in Ticket, u.comp = c,
         HoldsReq(u), NEW b,
         \A t \in Ticket : t # u => SamePlaces(broker, b, t),
         c \in O => \E x \in Place : InPlace(x, FALSE, b, u)
  PROVE  Ready(b, O)
<1>1. \A x \in Component :
        held'[x] = IF x = c THEN NoRequest ELSE held[x]
  BY DEF Consumed, IInv, ConnTypeOK
<1>2. ~(u.match > lastMatch[u.comp])
  BY DEF Tracked, Fresh
<1>3. \A t \in Ticket : t.comp \in Component
  BY DEF Ticket
<1>4. \A t \in Ticket : HoldsReq(t)' <=> t # u /\ HoldsReq(t)
  <2> SUFFICES ASSUME NEW t \in Ticket
               PROVE  HoldsReq(t)' <=> t # u /\ HoldsReq(t)
    OBVIOUS
  <2>1. CASE t.comp = c
    <3>1. ~HoldsReq(t)'
      BY <1>1, <2>1 DEF HoldsReq
    <3>2. HoldsReq(t) => t.match = u.match
      BY <2>1 DEF HoldsReq
    <3>3. t.match = u.match => t = u
      BY <2>1 DEF Ticket
    <3> QED BY <3>1, <3>2, <3>3
  <2>2. CASE t.comp # c
    BY <1>1, <1>3, <2>2 DEF HoldsReq
  <2> QED BY <2>1, <2>2
<1> SUFFICES ASSUME NEW t \in Ticket
             PROVE  /\ t.match > lastMatch[t.comp] =>
                         ~HoldsReq(t)' /\ Nowhere(b, t)
                    /\ t.comp \in O /\ t.match <= lastMatch[t.comp] =>
                         InOnePlace(HoldsReq(t)', b, t)
  BY DEF Ready
<1>5. ASSUME t.match > lastMatch[t.comp]
      PROVE  ~HoldsReq(t)' /\ Nowhere(b, t)
  <2>1. ~HoldsReq(t) /\ Nowhere(broker, t) /\ t # u
    BY <1>2, <1>5 DEF Tracked, Fresh
  <2> QED BY <1>4, <2>1, SameInPlace DEF Nowhere
<1>6. ASSUME t.comp \in O, t.match <= lastMatch[t.comp]
      PROVE  InOnePlace(HoldsReq(t)', b, t)
  <2> DEFINE h == HoldsReq(t)
             k == HoldsReq(t)'
  <2>1. /\ InOnePlace(h, broker, t) /\ h \in BOOLEAN /\ k \in BOOLEAN
        /\ k <=> t # u /\ h
    BY <1>4, <1>6, HeldBoolean DEF Tracked, Placed
  <2> HIDE DEF h, k
  <2>2. CASE t = u
    <3>1. k = FALSE
      BY <2>1, <2>2
    <3>2. PICK x \in Place : InPlace(x, FALSE, b, t)
      BY <1>6, <2>2
    <3> QED BY <3>1, <3>2 DEF InOnePlace, k
  <2>3. CASE t # u
    <3>1. PICK x \in Place : InPlace(x, h, broker, t)
      BY <2>1 DEF InOnePlace
    <3>2. InPlace(x, h, b, t) /\ h = k
      BY <2>1, <2>3, <3>1, SameInPlace
    <3> QED BY <3>2 DEF InOnePlace, k
  <2> QED BY <2>2, <2>3
<1> QED BY <1>5, <1>6

(* A request that is held is nowhere in the tables.                        *)
LEMMA HeldIsNowhere ==
  ASSUME Tracked, server = "running", NEW u \in Ticket, u.comp \in Open,
         HoldsReq(u), IInv
  PROVE  Nowhere(broker, u)
<1>1. ~(u.match > lastMatch[u.comp])
  BY DEF Tracked, Fresh
<1>2. u.match \in Nat /\ lastMatch[u.comp] \in Nat
  BY ServicesAssumption DEF Ticket, IInv
<1>3. InOnePlace(TRUE, broker, u)
  <2> DEFINE h == HoldsReq(u)
  <2>1. h = TRUE
    BY HeldBoolean
  <2>2. u.match <= lastMatch[u.comp]
    BY <1>1, <1>2
  <2>3. InOnePlace(h, broker, u)
    BY <2>2 DEF Tracked, Placed
  <2> HIDE DEF h
  <2> QED BY <2>1, <2>3
<1>4. PICK x \in Place : InPlace(x, TRUE, broker, u)
  BY <1>3 DEF InOnePlace
<1> QED BY <1>4 DEF InPlace, Nowhere, Place

(* A handler of another kind of record takes no request from its thread.   *)
LEMMA OtherKindHeld ==
  ASSUME IInv, NEW c \in Component, Consumed(c),
         held[c].kind \notin {"requestService", "serviceRelease"}
  PROVE  \A t \in Ticket : HoldsReq(t)' <=> HoldsReq(t)
<1>1. \A x \in Component :
        held'[x] = IF x = c THEN NoRequest ELSE held[x]
  BY DEF Consumed, IInv, ConnTypeOK
<1>2. \A t \in Ticket : t.comp \in Component
  BY DEF Ticket
<1> QED BY <1>1, <1>2 DEF HoldsReq

(* Tables with the same notes and the same answers.                        *)
LEMMA SameNotes ==
  ASSUME NEW b, NEW d, d.used = b.used, SameRequests(b, d)
  PROVE  \A t : SamePlaces(b, d, t)
BY DEF SameRequests, SamePlaces, Noted

(* A handler of another kind of record moves no request but by removals.   *)
LEMMA OtherHandlerTracked ==
  ASSUME IInv, Tracked, server = "running",
         \A t \in Ticket : HoldsReq(t)' <=> HoldsReq(t),
         UNCHANGED lastMatch, NEW b, Good(b),
         \A t \in Ticket : SamePlaces(broker, b, t),
         NEW D \in SUBSET Open, Finish(b, D)
  PROVE  Tracked'
<1>1. Ready(b, Open \ D)
  BY SameReady
<1> QED BY <1>1, FinishTracked

(* SZG_TRY moves none.                                                     *)
LEMMA RegisterTryTracked ==
  ASSUME IInv, Tracked, NEW c \in Component, RegisterTry(c)
  PROVE  Tracked'
<1> DEFINE r == held[c]
           s == r.service
           b == ResizeComputerPorts(broker, r.block)
<1>1. /\ r \in Request /\ r.kind = "SZG_TRY" /\ server = "running"
      /\ UNCHANGED lastMatch
  BY Consumes DEF RegisterTry
<1>2. \A t \in Ticket : HoldsReq(t)' <=> HoldsReq(t)
  BY <1>1, OtherKindHeld DEF RegisterTry
<1>3. /\ s \in Service /\ r.net \in Network
      /\ r.block \in Block /\ r.size \in Size
  BY <1>1, RequestFields
<1>4. PICK D \in Hangups({c}) :
        \/ Finish(broker, D)
        \/ Finish(ExhaustPorts(b), D)
        \/ /\ ~CheckService(broker, s) /\ Len(b.available) >= r.size
           /\ Finish(AssignPorts(b, s, c, r.net, r.size), D)
  BY DEF RegisterTry
<1>5. D \in SUBSET Open
  BY HangupsOpen
<1> HIDE DEF r, s
<1>6. Good(b) /\ SameServices(broker, b) /\ SameRequests(broker, b)
      /\ Good(broker)
  BY <1>3, ResizeGood DEF IInv
<1> HIDE DEF b
<1>7. ASSUME NEW d, Good(d), SameRequests(b, d), d.used = b.used, Finish(d, D)
      PROVE  Tracked'
  <2>1. \A t \in Ticket : SamePlaces(broker, d, t)
    BY <1>6, <1>7, SameNotes DEF SameServices, SameRequests
  <2> QED BY <1>1, <1>2, <1>5, <1>7, <2>1, OtherHandlerTracked
<1>8. CASE Finish(broker, D)
  BY <1>6, <1>7, <1>8 DEF SameServices, SameRequests
<1>9. CASE Finish(ExhaustPorts(b), D)
  BY <1>6, <1>7, <1>9, ExhaustGood DEF SameServices
<1>10. CASE /\ ~CheckService(broker, s) /\ Len(b.available) >= r.size
            /\ Finish(AssignPorts(b, s, c, r.net, r.size), D)
  <2>1. ~CheckService(b, s)
    BY <1>6, <1>10 DEF CheckService, SameServices
  <2>2. r.size <= Len(b.available)
    BY <1>3, <1>6, <1>10, ServicesAssumption DEF Good, Tables
  <2> QED BY <1>3, <1>6, <1>7, <1>10, <2>1, <2>2, AssignGood
<1> QED BY <1>4, <1>8, <1>9, <1>10

(* SZG_RETRY moves none.                                                   *)
LEMMA RegisterRetryTracked ==
  ASSUME IInv, Tracked, NEW c \in Component, RegisterRetry(c)
  PROVE  Tracked'
<1> DEFINE s == held[c].service
           b == IF OwnedTemporary(c, s) THEN RetryPorts(broker, s) ELSE broker
<1>1. /\ held[c] \in Request /\ held[c].kind = "SZG_RETRY"
      /\ server = "running" /\ UNCHANGED lastMatch
  BY Consumes DEF RegisterRetry
<1>2. \A t \in Ticket : HoldsReq(t)' <=> HoldsReq(t)
  BY <1>1, OtherKindHeld DEF RegisterRetry
<1>3. s \in Service
  BY <1>1, RequestFields
<1>4. PICK D \in Hangups({c}) : Finish(b, D)
  BY DEF RegisterRetry
<1>5. D \in SUBSET Open
  BY HangupsOpen
<1> HIDE DEF s
<1>6. Good(b) /\ SameRequests(broker, b) /\ b.used = broker.used
  <2>1. CASE OwnedTemporary(c, s)
    BY <1>3, <2>1, RetryGood DEF IInv, OwnedTemporary, Known
  <2>2. CASE ~OwnedTemporary(c, s)
    BY <2>2 DEF IInv, SameRequests
  <2> QED BY <2>1, <2>2
<1> HIDE DEF b
<1>7. \A t \in Ticket : SamePlaces(broker, b, t)
  BY <1>6, SameNotes
<1> QED BY <1>1, <1>2, <1>4, <1>5, <1>6, <1>7, OtherHandlerTracked

(* The confirmation moves no request yet: the service had no list before.  *)
LEMMA ConfirmedPlaces ==
  ASSUME IInv, NEW c \in Component, NEW s \in Service, NEW t
  PROVE  SamePlaces(broker, Confirmed(c, s), t)
<1>1. CASE OwnedTemporary(c, s)
  <2> DEFINE b == ConfirmPorts(broker, s)
  <2>1. /\ SameRequests(broker, b) /\ ~Known(broker.used, s)
        /\ b.used = [broker.used EXCEPT ![s] = broker.temporary[s]]
        /\ broker.temporary[s].notes = {}
    BY <1>1, ConfirmGood DEF IInv, OwnedTemporary, Known
  <2> HIDE DEF b
  <2>2. \A x \in Service :
          b.used[x] = IF x = s THEN broker.temporary[s] ELSE broker.used[x]
    BY <2>1 DEF IInv, Good, Tables
  <2>3. \A x \in Service : Noted(b, x, t) <=> Noted(broker, x, t)
    BY <2>1, <2>2 DEF Noted, Known
  <2>4. SamePlaces(broker, b, t)
    BY <2>1, <2>3 DEF SamePlaces, SameRequests
  <2> QED BY <1>1, <2>4 DEF Confirmed, b
<1>2. CASE ~OwnedTemporary(c, s)
  BY <1>2 DEF Confirmed, SamePlaces
<1> QED BY <1>1, <1>2

(* SZG_SUCCESS moves those who waited for the service to an answer, after  *)
(* the removal of its sender when that is lost.                            *)
LEMMA RegisterSuccessTracked ==
  ASSUME IInv, Tracked, NEW c \in Component, RegisterSuccess(c)
  PROVE  Tracked'
<1> DEFINE s == held[c].service
           b == Confirmed(c, s)
<1>1. /\ held[c] \in Request /\ held[c].kind = "SZG_SUCCESS"
      /\ server = "running" /\ UNCHANGED lastMatch
  BY Consumes DEF RegisterSuccess
<1>2. \A t \in Ticket : HoldsReq(t)' <=> HoldsReq(t)
  BY <1>1, OtherKindHeld DEF RegisterSuccess
<1>3. s \in Service
  BY <1>1, RequestFields
<1>4. \/ Finish(AnswerPending(b, s, Open), {})
      \/ \E D \in Hangups({c}) :
           /\ D # {}
           /\ \/ /\ broker' = AnswerPending(RemoveComponent(b, c, Open \ D),
                                            s, Open \ D)
                 /\ Close(D)
                 /\ UNCHANGED server
              \/ server' = "undefined" /\ UNCHANGED <<link, broker>>
  BY DEF RegisterSuccess, Confirmed
<1> HIDE DEF s
<1>5. Good(b) /\ WaitersBut(b, {s}) /\ \A t \in Ticket : SamePlaces(broker, b, t)
  BY <1>3, ConfirmedGood, ConfirmedPlaces
<1> HIDE DEF b
<1>6. \A O \in SUBSET Open : Ready(b, O)
  BY <1>1, <1>2, <1>5, SameReady
<1>7. CASE Finish(AnswerPending(b, s, Open), {})
  <2> DEFINE d == AnswerPending(b, s, Open)
  <2>1. Ready(b, Open) /\ {} \in SUBSET Open /\ Open \ {} = Open
    BY <1>6
  <2>2. Ready(d, Open \ {}) /\ Good(d)
    BY <1>3, <1>5, <2>1, AnswerReady, AnswerSettles DEF Settled
  <2>3. Finish(d, {})
    BY <1>7
  <2> HIDE DEF d
  <2> QED BY <1>1, <1>2, <2>1, <2>2, <2>3, FinishTracked
<1>8. ASSUME NEW D \in Hangups({c}), D # {},
             broker' = AnswerPending(RemoveComponent(b, c, Open \ D),
                                     s, Open \ D),
             Close(D)
      PROVE  Tracked'
  <2> DEFINE O == Open \ D
             e == RemoveComponent(b, c, O)
             d == AnswerPending(e, s, O)
  <2>1. D = {c} /\ O \in SUBSET Open
    BY <1>8, HangupsOpen
  <2>2. c \notin O
    BY <2>1
  <2>3. broker' = d
    BY <1>8
  <2>4. /\ Open' = O
        /\ \A x \in Component : link'[x] = "new" => link[x] = "new"
    BY <1>8 DEF Close, Open
  <2> HIDE DEF O
  <2>5. Good(e) /\ Ready(e, O)
    BY <1>5, <1>6, <2>1, <2>2, RemoveComponentGood, RemoveReady
  <2> HIDE DEF e
  <2>6. Ready(d, O)
    BY <1>3, <2>5, AnswerReady
  <2> HIDE DEF d
  <2>7. Ready(broker', Open')
    BY <2>3, <2>4, <2>6 DEF Ready
  <2> QED BY <1>1, <2>4, <2>7, SettleTracked
<1>9. CASE server' = "undefined" /\ UNCHANGED <<link, broker>>
  BY <1>1, <1>2, <1>9, DerailTracked
<1> QED BY <1>4, <1>7, <1>8, <1>9

(* What a handler writes down of the request u it consumed.                *)
LEMMA NotePlaces ==
  ASSUME NEW b, b \in Tables, NEW u \in Ticket, NEW T, T \subseteq {u},
         Nowhere(b, u), u \in T
  PROVE  /\ InPlace("served", FALSE, [b EXCEPT !.served = @ \cup T], u)
         /\ InPlace("released", FALSE, [b EXCEPT !.released = @ \cup T], u)
         /\ InPlace("declined", FALSE, [b EXCEPT !.declined = @ \cup T], u)
         /\ InPlace("ignored", FALSE, [b EXCEPT !.ignored = @ \cup T], u)
BY DEF Nowhere, InPlace, Noted, Tables

(* What the handler writes down of u says nothing of others.               *)
LEMMA NoteOthers ==
  ASSUME NEW b, b \in Tables, NEW u \in Ticket, NEW T, T \subseteq {u},
         NEW t, t # u
  PROVE  /\ SamePlaces(b, [b EXCEPT !.served = @ \cup T], t)
         /\ SamePlaces(b, [b EXCEPT !.released = @ \cup T], t)
         /\ SamePlaces(b, [b EXCEPT !.declined = @ \cup T], t)
         /\ SamePlaces(b, [b EXCEPT !.ignored = @ \cup T], t)
BY DEF SamePlaces, Noted, Tables

(* A handler that consumes u, says so in d, and loses D.                   *)
LEMMA NotedTracked ==
  ASSUME IInv, Tracked, server = "running", NEW c \in Component, Consumed(c),
         NEW u \in Ticket, u.comp = c, HoldsReq(u), UNCHANGED lastMatch,
         NEW d, Good(d), NEW D \in SUBSET Open, Finish(d, D),
         \A t \in Ticket : t # u => SamePlaces(broker, d, t),
         c \in Open \ D => \E x \in Place : InPlace(x, FALSE, d, u)
  PROVE  Tracked'
<1>1. Ready(d, Open \ D)
  BY ConsumeReady
<1>2. \A t \in Ticket : HoldsReq(t)' => HoldsReq(t)
  <2>1. \A x \in Component :
          held'[x] = IF x = c THEN NoRequest ELSE held[x]
    BY DEF Consumed, IInv, ConnTypeOK
  <2>2. \A t \in Ticket : t.comp \in Component
    BY DEF Ticket
  <2> QED BY <2>1, <2>2 DEF HoldsReq
<1> QED BY <1>1, <1>2, FinishTracked

(* The same when nobody is lost.                                           *)
LEMMA QuietlyNotedTracked ==
  ASSUME IInv, Tracked, server = "running", NEW c \in Component, Consumed(c),
         NEW u \in Ticket, u.comp = c, HoldsReq(u), UNCHANGED lastMatch,
         NEW d, Good(d), Finish(d, {}),
         \A t \in Ticket : t # u => SamePlaces(broker, d, t),
         c \in Open => \E x \in Place : InPlace(x, FALSE, d, u)
  PROVE  Tracked'
<1> DEFINE D == {}
<1>1. D \in SUBSET Open /\ Finish(d, D) /\ (c \in Open \ D => c \in Open)
  OBVIOUS
<1> HIDE DEF D
<1> QED BY <1>1, NotedTracked

(* requestServiceCallback: the request it takes from the read thread       *)
(* waits, is declined, or is answered.                                     *)
LEMMA RequestServiceTracked ==
  ASSUME IInv, Tracked, NEW c \in Component, RequestService(c)
  PROVE  Tracked'
<1> DEFINE r == held[c]
           t == [comp |-> c, match |-> r.match]
           w == [ticket |-> t, service |-> r.service, net |-> r.net]
<1>1. /\ r \in Request /\ r.kind = "requestService" /\ server = "running"
      /\ Consumed(c) /\ UNCHANGED lastMatch
  BY Consumes DEF RequestService
<1>2. /\ r.service \in Service /\ r.net \in Network
      /\ r.match \in 1..MaxMatch /\ r # NoRequest
  BY <1>1, RequestFields
<1>3. /\ t \in Ticket /\ t.comp = c /\ HoldsReq(t)
      /\ w \in Waiting /\ w.service = r.service /\ w.ticket = t
  BY <1>1, <1>2 DEF Ticket, Waiting, HoldsReq
<1>4. \/ /\ broker.used[r.service] = NoOffer
         /\ Finish([broker EXCEPT !.pending = @ \cup {w}], {})
      \/ Finish([broker EXCEPT !.declined = @ \cup {t}], {})
      \/ \E D \in Hangups({c}) :
           Finish([broker EXCEPT !.served =
                     @ \cup {u \in {t} : c \in Open \ D}], D)
  BY DEF RequestService
<1> HIDE DEF r, t, w
<1>5. /\ Settled(broker) /\ broker \in Tables /\ {} \in SUBSET Open
      /\ Open \ {} = Open
  BY DEF IInv, Settled, Good
<1>6. c \in Open => Nowhere(broker, t)
  BY <1>1, <1>3, HeldIsNowhere
<1>7. CASE /\ broker.used[r.service] = NoOffer
           /\ Finish([broker EXCEPT !.pending = @ \cup {w}], {})
  <2> DEFINE d == [broker EXCEPT !.pending = @ \cup {w}]
  <2>1. /\ Good(d) /\ d.pending = broker.pending \cup {w}
        /\ d.used = broker.used
    BY <1>3, <1>5, <1>7, PendingGood DEF Settled, Known, SameServices
  <2>2. /\ d.served = broker.served /\ d.refused = broker.refused
        /\ d.released = broker.released /\ d.declined = broker.declined
        /\ d.ignored = broker.ignored
    BY <1>5 DEF Tables
  <2>3. Finish(d, {})
    BY <1>7
  <2> HIDE DEF d
  <2>4. ASSUME NEW u \in Ticket, u # t
        PROVE  SamePlaces(broker, d, u)
    BY <1>3, <2>1, <2>2, <2>4 DEF SamePlaces, Noted
  <2>5. c \in Open => InPlace("pending", FALSE, d, t)
    BY <1>3, <1>6, <2>1, <2>2 DEF Nowhere, InPlace, Noted
  <2>6. c \in Open => \E x \in Place : InPlace(x, FALSE, d, t)
    BY <2>5 DEF Place
  <2> QED BY <1>1, <1>3, <1>5, <2>1, <2>3, <2>4, <2>6, QuietlyNotedTracked
<1>8. CASE Finish([broker EXCEPT !.declined = @ \cup {t}], {})
  <2> DEFINE d == [broker EXCEPT !.declined = @ \cup {t}]
  <2>1. {t} \in SUBSET Ticket /\ {t} \subseteq {t} /\ t \in {t}
    BY <1>3
  <2>2. Good(d)
    BY <1>5, <2>1, NotedGood DEF Settled
  <2>3. \A u \in Ticket : u # t => SamePlaces(broker, d, u)
    BY <1>3, <1>5, <2>1, NoteOthers
  <2>4. c \in Open => InPlace("declined", FALSE, d, t)
    BY <1>3, <1>5, <1>6, <2>1, NotePlaces
  <2>5. Finish(d, {})
    BY <1>8
  <2> HIDE DEF d
  <2>6. c \in Open => \E x \in Place : InPlace(x, FALSE, d, t)
    BY <2>4 DEF Place
  <2> QED BY <1>1, <1>3, <1>5, <2>2, <2>3, <2>5, <2>6, QuietlyNotedTracked
<1>9. ASSUME NEW D \in Hangups({c}),
             Finish([broker EXCEPT !.served =
                       @ \cup {u \in {t} : c \in Open \ D}], D)
      PROVE  Tracked'
  <2> DEFINE T == {u \in {t} : c \in Open \ D}
             d == [broker EXCEPT !.served = @ \cup T]
  <2>1. /\ D \in SUBSET Open /\ T \in SUBSET Ticket /\ T \subseteq {t}
        /\ c \in Open \ D => t \in T
    BY <1>3, HangupsOpen
  <2>2. Finish(d, D)
    BY <1>9
  <2> HIDE DEF T
  <2>3. Good(d)
    BY <1>5, <2>1, NotedGood DEF Settled
  <2>4. \A u \in Ticket : u # t => SamePlaces(broker, d, u)
    BY <1>3, <1>5, <2>1, NoteOthers
  <2>5. c \in Open \ D => InPlace("served", FALSE, d, t)
    BY <1>3, <1>5, <1>6, <2>1, NotePlaces
  <2> HIDE DEF d
  <2>6. c \in Open \ D => \E x \in Place : InPlace(x, FALSE, d, t)
    BY <2>5 DEF Place
  <2>7. D \in SUBSET Open
    BY <2>1
  <2> QED BY <1>1, <1>3, <2>2, <2>3, <2>4, <2>6, <2>7, NotedTracked
<1> QED BY <1>4, <1>7, <1>8, <1>9

(* serviceReleaseCallback: the request is noted on the service's list,     *)
(* answered, or ignored.                                                   *)
LEMMA ServiceReleaseTracked ==
  ASSUME IInv, Tracked, NEW c \in Component, ServiceRelease(c)
  PROVE  Tracked'
<1> DEFINE s == held[c].service
           t == [comp |-> c, match |-> held[c].match]
<1>1. /\ held[c] \in Request /\ held[c].kind = "serviceRelease"
      /\ server = "running" /\ Consumed(c) /\ UNCHANGED lastMatch
  BY Consumes DEF ServiceRelease
<1>2. /\ s \in Service /\ held[c].match \in 1..MaxMatch
      /\ held[c] # NoRequest
  BY <1>1, RequestFields
<1>3. t \in Ticket /\ t.comp = c /\ HoldsReq(t)
  BY <1>1, <1>2 DEF Ticket, HoldsReq
<1>4. \/ /\ broker.used[s] # NoOffer
         /\ Finish(RegisterReleaseNotification(broker, s, t), {})
      \/ \E D \in Hangups({c}) :
           Finish([broker EXCEPT !.released =
                     @ \cup {u \in {t} : c \in Open \ D}], D)
      \/ Finish([broker EXCEPT !.ignored = @ \cup {t}], {})
  BY DEF ServiceRelease
<1> HIDE DEF s, t
<1>5. /\ Settled(broker) /\ broker \in Tables /\ {} \in SUBSET Open
      /\ Open \ {} = Open
  BY DEF IInv, Settled, Good
<1>6. c \in Open => Nowhere(broker, t)
  BY <1>1, <1>3, HeldIsNowhere
<1>7. CASE /\ broker.used[s] # NoOffer
           /\ Finish(RegisterReleaseNotification(broker, s, t), {})
  <2> DEFINE d == RegisterReleaseNotification(broker, s, t)
             p == [broker.used[s] EXCEPT !.notes = @ \cup {t}]
  <2>1. /\ Good(d) /\ SameRequests(broker, d)
        /\ d.used = [broker.used EXCEPT ![s] = p]
        /\ p # NoOffer /\ p.notes = broker.used[s].notes \cup {t}
    BY <1>2, <1>3, <1>5, <1>7, RegisterReleaseGood DEF Settled, Known
  <2>2. Finish(d, {})
    BY <1>7
  <2> HIDE DEF d, p
  <2>3. \A x \in Service : d.used[x] = IF x = s THEN p ELSE broker.used[x]
    BY <2>1 DEF IInv, Good, Tables
  <2>4. \A x \in Service : \A u :
          Noted(d, x, u) <=> Noted(broker, x, u) \/ (x = s /\ u = t)
    BY <1>7, <2>1, <2>3 DEF Noted, Known
  <2>5. ASSUME NEW u \in Ticket, u # t
        PROVE  SamePlaces(broker, d, u)
    BY <2>1, <2>4, <2>5 DEF SamePlaces, SameRequests
  <2>6. c \in Open => InPlace("noted", FALSE, d, t)
    BY <1>2, <1>6, <2>1, <2>4 DEF Nowhere, InPlace, SameRequests
  <2>7. c \in Open => \E x \in Place : InPlace(x, FALSE, d, t)
    BY <2>6 DEF Place
  <2> QED BY <1>1, <1>3, <1>5, <2>1, <2>2, <2>5, <2>7, QuietlyNotedTracked
<1>8. CASE Finish([broker EXCEPT !.ignored = @ \cup {t}], {})
  <2> DEFINE d == [broker EXCEPT !.ignored = @ \cup {t}]
  <2>1. {t} \in SUBSET Ticket /\ {t} \subseteq {t} /\ t \in {t}
    BY <1>3
  <2>2. Good(d)
    BY <1>5, <2>1, NotedGood DEF Settled
  <2>3. \A u \in Ticket : u # t => SamePlaces(broker, d, u)
    BY <1>3, <1>5, <2>1, NoteOthers
  <2>4. c \in Open => InPlace("ignored", FALSE, d, t)
    BY <1>3, <1>5, <1>6, <2>1, NotePlaces
  <2>5. Finish(d, {})
    BY <1>8
  <2> HIDE DEF d
  <2>6. c \in Open => \E x \in Place : InPlace(x, FALSE, d, t)
    BY <2>4 DEF Place
  <2> QED BY <1>1, <1>3, <1>5, <2>2, <2>3, <2>5, <2>6, QuietlyNotedTracked
<1>9. ASSUME NEW D \in Hangups({c}),
             Finish([broker EXCEPT !.released =
                       @ \cup {u \in {t} : c \in Open \ D}], D)
      PROVE  Tracked'
  <2> DEFINE T == {u \in {t} : c \in Open \ D}
             d == [broker EXCEPT !.released = @ \cup T]
  <2>1. /\ D \in SUBSET Open /\ T \in SUBSET Ticket /\ T \subseteq {t}
        /\ c \in Open \ D => t \in T
    BY <1>3, HangupsOpen
  <2>2. Finish(d, D)
    BY <1>9
  <2> HIDE DEF T
  <2>3. Good(d)
    BY <1>5, <2>1, NotedGood DEF Settled
  <2>4. \A u \in Ticket : u # t => SamePlaces(broker, d, u)
    BY <1>3, <1>5, <2>1, NoteOthers
  <2>5. c \in Open \ D => InPlace("released", FALSE, d, t)
    BY <1>3, <1>5, <1>6, <2>1, NotePlaces
  <2> HIDE DEF d
  <2>6. c \in Open \ D => \E x \in Place : InPlace(x, FALSE, d, t)
    BY <2>5 DEF Place
  <2>7. D \in SUBSET Open
    BY <2>1
  <2> QED BY <1>1, <1>3, <2>2, <2>3, <2>4, <2>6, <2>7, NotedTracked
<1> QED BY <1>4, <1>7, <1>8, <1>9

-----------------------------------------------------------------------------
(* The clients.                                                            *)

(* A client that asks uses a new match: the request is with the read       *)
(* thread and nowhere else.                                                *)
LEMMA SendRequestTracked ==
  ASSUME IInv, Tracked, NEW c \in Component, NEW r \in Request,
         SendRequest(c, r)
  PROVE  Tracked'
<1>1. /\ held[c] = NoRequest /\ held' = [held EXCEPT ![c] = r]
      /\ UNCHANGED <<link, server, broker>> /\ r # NoRequest
      /\ link[c] = "open"
  BY RequestFields DEF SendRequest, Receive
<1>2. /\ held \in [Component -> Request \cup {NoRequest}]
      /\ lastMatch \in [Component -> 0..MaxMatch]
  BY DEF IInv, ConnTypeOK
<1>3. \A x \in Component : held'[x] = IF x = c THEN r ELSE held[x]
  BY <1>1, <1>2
<1>4. \A t \in Ticket : t.comp \in Component /\ t.match \in Nat
  BY ServicesAssumption DEF Ticket
<1>5. CASE r.kind \in {"requestService", "serviceRelease"}
  <2>1. /\ r.match = lastMatch[c] + 1
        /\ lastMatch' = [lastMatch EXCEPT ![c] = r.match]
        /\ r.match \in Nat
    BY <1>2, <1>5, ServicesAssumption DEF SendRequest
  <2>2. \A x \in Component :
          lastMatch'[x] = IF x = c THEN r.match ELSE lastMatch[x]
    BY <1>2, <2>1
  <2>3. \A t \in Ticket : HoldsReq(t)' <=>
          HoldsReq(t) \/ (t.comp = c /\ t.match = r.match)
    BY <1>1, <1>3, <1>4, <1>5 DEF HoldsReq
  <2>4. ASSUME NEW t \in Ticket, t.match > lastMatch'[t.comp]
        PROVE  ~HoldsReq(t)' /\ Nowhere(broker, t)
    <3>1. t.match > lastMatch[t.comp] /\ ~(t.comp = c /\ t.match = r.match)
      BY <1>2, <1>4, <2>1, <2>2, <2>4, ServicesAssumption
    <3> QED BY <2>3, <3>1 DEF Tracked, Fresh
  <2>5. Fresh'
    <3>1. \A x \in Component : link[x] = "new" => lastMatch'[x] = 0
      BY <1>1, <2>2 DEF Tracked, Fresh
    <3> QED BY <1>1, <2>4, <3>1 DEF Fresh
  <2>6. Placed'
    <3> SUFFICES ASSUME server = "running", NEW t \in Ticket,
                        t.comp \in Open, t.match <= lastMatch'[t.comp]
                 PROVE  InOnePlace(HoldsReq(t)', broker, t)
      BY <1>1 DEF Placed, Open
    <3> DEFINE h == HoldsReq(t)
               k == HoldsReq(t)'
    <3>1. h \in BOOLEAN /\ k \in BOOLEAN
      BY HeldBoolean
    <3>2. CASE t.comp = c /\ t.match = r.match
      <4>1. k = TRUE
        BY <2>3, <3>1, <3>2
      <4>2. t.match > lastMatch[t.comp]
        BY <1>2, <2>1, <3>2
      <4>3. Nowhere(broker, t)
        BY <4>2 DEF Tracked, Fresh
      <4>4. InPlace("held", TRUE, broker, t)
        BY <4>3 DEF Nowhere, InPlace
      <4> HIDE DEF k
      <4> QED BY <4>1, <4>4 DEF InOnePlace, Place, k
    <3>3. CASE ~(t.comp = c /\ t.match = r.match)
      <4>1. t.match <= lastMatch[t.comp]
        BY <1>2, <1>4, <2>1, <2>2, <3>3, ServicesAssumption
      <4>2. InOnePlace(h, broker, t)
        BY <4>1 DEF Tracked, Placed
      <4>3. h = k
        BY <2>3, <3>1, <3>3
      <4> QED BY <4>2, <4>3
    <3> QED BY <3>2, <3>3
  <2> QED BY <2>5, <2>6 DEF Tracked
<1>6. CASE r.kind \notin {"requestService", "serviceRelease"}
  <2>1. UNCHANGED lastMatch
    BY <1>6 DEF SendRequest
  <2>2. \A t \in Ticket : HoldsReq(t)' = HoldsReq(t)
    BY <1>1, <1>3, <1>4, <1>6 DEF HoldsReq
  <2>3. Fresh'
    BY <1>1, <2>1, <2>2 DEF Tracked, Fresh
  <2>4. Placed'
    BY <1>1, <2>1, <2>2 DEF Tracked, Placed, Open
  <2> QED BY <2>3, <2>4 DEF Tracked
<1> QED BY <1>5, <1>6

(* A step that leaves the tables, the requests that are held and the       *)
(* matches alone, and connects only newcomers.                             *)
LEMMA QuietTracked ==
  ASSUME IInv, Tracked, UNCHANGED <<held, server, broker, lastMatch>>,
         \A c \in Component : /\ link'[c] = "new" => link[c] = "new"
                              /\ link'[c] = "open" =>
                                   link[c] = "open" \/ link[c] = "new"
  PROVE  Tracked'
<1>1. \A t \in Ticket : HoldsReq(t)' = HoldsReq(t)
  BY DEF HoldsReq
<1>2. Fresh'
  BY <1>1 DEF Tracked, Fresh
<1>3. Placed'
  <2> SUFFICES ASSUME server = "running", NEW t \in Ticket,
                      t.comp \in Open', t.match <= lastMatch[t.comp]
               PROVE  InOnePlace(HoldsReq(t), broker, t)
    BY <1>1 DEF Placed
  <2>1. t.comp \in Component /\ (link[t.comp] = "open" \/ link[t.comp] = "new")
    BY DEF Open
  <2>2. t.match \in Nat /\ t.match > 0
    BY ServicesAssumption DEF Ticket
  <2>3. link[t.comp] # "new"
    BY <2>1, <2>2 DEF Tracked, Fresh
  <2> QED BY <2>1, <2>3 DEF Tracked, Placed, Open
<1> QED BY <1>2, <1>3 DEF Tracked

(* What the clients do keeps the requests in their places.                 *)
LEMMA ClientStepTracked ==
  ASSUME IInv, Tracked, NEW c \in Component, ClientStep(c)
  PROVE  Tracked'
<1>1. ASSUME NEW r \in Request, SendRequest(c, r)
      PROVE  Tracked'
  BY <1>1, SendRequestTracked
<1>2. ASSUME NEW how \in {"down", "lost"}, Leave(c, how), UNCHANGED servicesVars
      PROVE  Tracked'
  BY <1>2, QuietTracked DEF Leave, servicesVars
<1>3. ASSUME Accept(c), UNCHANGED servicesVars
      PROVE  Tracked'
  <2>1. /\ UNCHANGED <<held, server, broker, lastMatch>>
        /\ link[c] = "new"
        /\ \A x \in Component : link'[x] = IF x = c THEN "open" ELSE link[x]
    BY <1>3 DEF IInv, ConnTypeOK, Accept, servicesVars
  <2> QED BY <2>1, QuietTracked
<1> QED BY <1>1, <1>2, <1>3 DEF ClientStep

(* Every step does.                                                        *)
LEMMA NextTracked == IInv /\ Tracked /\ [Next]_vars => Tracked'
<1> SUFFICES ASSUME IInv, Tracked, [Next]_vars PROVE Tracked'
  OBVIOUS
<1>0. Good(broker) /\ \A t \in Ticket : SamePlaces(broker, broker, t)
  BY DEF IInv, SamePlaces
<1>1. ASSUME NEW c \in Component, ClientStep(c) PROVE Tracked'
  BY <1>1, ClientStepTracked
<1>2. ASSUME NEW c \in Component, Kill(c) PROVE Tracked'
  <2> DEFINE D == {held[c].target} \cap Open
  <2>1. /\ server = "running" /\ Consumed(c) /\ held[c].kind = "kill"
        /\ UNCHANGED lastMatch /\ Finish(broker, D)
    BY <1>2, Consumes DEF Kill
  <2>2. D \in SUBSET Open
    OBVIOUS
  <2> HIDE DEF D
  <2>3. \A t \in Ticket : HoldsReq(t)' <=> HoldsReq(t)
    BY <2>1, OtherKindHeld
  <2> QED BY <1>0, <2>1, <2>2, <2>3, OtherHandlerTracked
<1>3. ASSUME NEW c \in Component, Disconnect(c) PROVE Tracked'
  <2>1. /\ server = "running" /\ {c} \in SUBSET Open
        /\ UNCHANGED <<held, lastMatch>> /\ Finish(broker, {c})
    BY <1>3 DEF Disconnect, ReadFails, WriteFails, Broken, Open
  <2>2. \A t \in Ticket : HoldsReq(t)' <=> HoldsReq(t)
    BY <2>1 DEF HoldsReq
  <2> QED BY <1>0, <2>1, <2>2, OtherHandlerTracked
<1>4. ASSUME NEW c \in Component, Handle(c) PROVE Tracked'
  BY <1>2, <1>4, RegisterTryTracked, RegisterRetryTracked,
     RegisterSuccessTracked, RequestServiceTracked, ServiceReleaseTracked
  DEF Handle
<1>5. CASE UNCHANGED vars
  BY <1>5, QuietTracked DEF vars
<1> QED BY <1>1, <1>3, <1>4, <1>5 DEF Next

(* A match is used once, and each request of a connected component is in   *)
(* one place: with its read thread, among those who wait, on the list of   *)
(* one service, or answered in one way                                     *)
(* (arPhleetConnectionBroker.cpp:342-440, 494-662;                         *)
(* szgserver.cpp:1526-1748).                                               *)
THEOREM RequestsTracked == Spec => []Tracked
  BY InitTracked, NextTracked, Invariance, InitIInv, PTL DEF Spec

(* Who is in one place is in one of the sets of Whereabouts.               *)
LEMMA OneWhereabout ==
  ASSUME NEW t, NEW x \in Place, InPlace(x, HoldsReq(t), broker, t)
  PROVE  \E y : Whereabouts(t) = {y}
<1> DEFINE H == {<<"held">> : r \in {r \in {held[t.comp]} \ {NoRequest} :
                     /\ r.kind \in {"requestService", "serviceRelease"}
                     /\ r.match = t.match}}
           P == {<<"pending", w>> : w \in {w \in broker.pending : w.ticket = t}}
           N == {<<"noted", s>> : s \in {s \in Service :
                                           t \in Notes(broker, {s})}}
           A == {<<"served">> : u \in {t} \cap broker.served}
           B == {<<"refused">> : u \in {t} \cap broker.refused}
           C == {<<"released">> : u \in {t} \cap broker.released}
           D == {<<"declined">> : u \in {t} \cap broker.declined}
           E == {<<"ignored">> : u \in {t} \cap broker.ignored}
<1>1. Whereabouts(t) = H \cup P \cup N \cup A \cup B \cup C \cup D \cup E
  BY DEF Whereabouts
<1>2. \A s \in Service : t \in Notes(broker, {s}) <=> Noted(broker, s, t)
  BY DEF Notes, Noted, Known
<1>3. H = IF x = "held" THEN {<<"held">>} ELSE {}
  BY DEF InPlace, HoldsReq
<1>4. x # "pending" => P = {}
  BY DEF InPlace
<1>5. x = "pending" => \E w : P = {<<"pending", w>>}
  <2> SUFFICES ASSUME x = "pending" PROVE \E w : P = {<<"pending", w>>}
    OBVIOUS
  <2>1. PICK w \in broker.pending : w.ticket = t
    BY DEF InPlace
  <2>2. \A v \in broker.pending : v.ticket = t => v = w
    BY <2>1 DEF InPlace
  <2>3. {v \in broker.pending : v.ticket = t} = {w}
    BY <2>1, <2>2
  <2> QED BY <2>3
<1>6. x # "noted" => N = {}
  BY <1>2 DEF InPlace
<1>7. x = "noted" => \E s : N = {<<"noted", s>>}
  <2> SUFFICES ASSUME x = "noted" PROVE \E s : N = {<<"noted", s>>}
    OBVIOUS
  <2>1. PICK s \in Service : Noted(broker, s, t)
    BY DEF InPlace
  <2>2. \A r \in Service : Noted(broker, r, t) => r = s
    BY <2>1 DEF InPlace
  <2>3. {r \in Service : t \in Notes(broker, {r})} = {s}
    BY <1>2, <2>1, <2>2
  <2> QED BY <2>3
<1>8. /\ A = IF x = "served" THEN {<<"served">>} ELSE {}
      /\ B = IF x = "refused" THEN {<<"refused">>} ELSE {}
      /\ C = IF x = "released" THEN {<<"released">>} ELSE {}
      /\ D = IF x = "declined" THEN {<<"declined">>} ELSE {}
      /\ E = IF x = "ignored" THEN {<<"ignored">>} ELSE {}
  BY DEF InPlace
<1> HIDE DEF H, P, N, A, B, C, D, E
<1>9. CASE x = "pending"
  <2>1. Whereabouts(t) = P
    BY <1>1, <1>3, <1>6, <1>8, <1>9
  <2> QED BY <1>5, <1>9, <2>1
<1>10. CASE x = "noted"
  <2>1. Whereabouts(t) = N
    BY <1>1, <1>3, <1>4, <1>8, <1>10
  <2> QED BY <1>7, <1>10, <2>1
<1>11. CASE x \notin {"pending", "noted"}
  <2>1. Whereabouts(t) = {<<x>>}
    BY <1>1, <1>3, <1>4, <1>6, <1>8, <1>11 DEF Place
  <2> QED BY <2>1
<1> QED BY <1>9, <1>10, <1>11

(* A connected component's asynchronous request for a service or for its   *)
(* release is in one place at all times: it is not lost and not answered   *)
(* twice, and nobody is left waiting for a service that is offered         *)
(* (szgserver.cpp:1573-1606, arPhleetConnectionBroker.cpp:412-440).        *)
THEOREM NoRequestLost == Spec => []RequestsAccounted
<1>1. IInv /\ Tracked => RequestsAccounted
  <2> SUFFICES ASSUME IInv, Tracked PROVE RequestsAccounted
    OBVIOUS
  <2>1. \A w \in broker.pending : broker.used[w.service] = NoOffer
    BY DEF IInv, WaitersBut, Known
  <2>2. ASSUME server = "running", NEW c \in Open, NEW m \in 1..lastMatch[c]
        PROVE  \E w \in {Whereabouts([comp |-> c, match |-> m])} :
                 \E x \in w : w = {x}
    <3> DEFINE t == [comp |-> c, match |-> m]
    <3>1. /\ t \in Ticket /\ t.comp \in Open /\ t.match <= lastMatch[t.comp]
      BY ServicesAssumption DEF Ticket, Open, IInv
    <3> HIDE DEF t
    <3>2. PICK x \in Place : InPlace(x, HoldsReq(t), broker, t)
      BY <2>2, <3>1 DEF Tracked, Placed, InOnePlace
    <3>3. PICK y : Whereabouts(t) = {y}
      BY <3>2, OneWhereabout
    <3> QED BY <3>3 DEF t
  <2> QED BY <2>1, <2>2 DEF RequestsAccounted
<1> QED BY <1>1, Invariance, RequestsTracked, PTL

-----------------------------------------------------------------------------
(* No port is in two places.  First lists without repetitions.             *)

(* Two lists one after the other.                                          *)
LEMMA ConcatMembers ==
  ASSUME NEW T, NEW s \in Seq(T), NEW r \in Seq(T)
  PROVE  /\ s \o r \in Seq(T)
         /\ Len(s \o r) = Len(s) + Len(r)
         /\ Members(s \o r) = Members(s) \cup Members(r)
         /\ (NoRepeat(s) /\ NoRepeat(r) /\ Members(s) \cap Members(r) = {})
              => NoRepeat(s \o r)
<1> DEFINE a == s \o r
           m == Len(s)
           n == Len(r)
<1>1. /\ DOMAIN s = 1..m /\ DOMAIN r = 1..n /\ DOMAIN a = 1..m + n
      /\ m \in Nat /\ n \in Nat
      /\ a \in Seq(T) /\ Len(a) = m + n
  OBVIOUS
<1>2. \A i \in 1..m + n : a[i] = IF i <= m THEN s[i] ELSE r[i - m]
  OBVIOUS
<1> HIDE DEF a, m, n
<1>3. \A i \in 1..m : i \in 1..m + n /\ a[i] = s[i]
  BY <1>1, <1>2
<1>4. \A i \in 1..n : i + m \in 1..m + n /\ a[i + m] = r[i]
  BY <1>1, <1>2
<1>5. \A i \in 1..m + n :
        \/ i \in 1..m /\ a[i] = s[i]
        \/ i - m \in 1..n /\ a[i] = r[i - m]
  BY <1>1, <1>2
<1>6. Members(a) = Members(s) \cup Members(r)
  <2>1. Members(s) \subseteq Members(a)
    BY <1>1, <1>3 DEF Members
  <2>2. Members(r) \subseteq Members(a)
    BY <1>1, <1>4 DEF Members
  <2>3. Members(a) \subseteq Members(s) \cup Members(r)
    BY <1>1, <1>5 DEF Members
  <2> QED BY <2>1, <2>2, <2>3
<1>7. ASSUME NoRepeat(s), NoRepeat(r), Members(s) \cap Members(r) = {},
             NEW i \in 1..m + n, NEW j \in 1..m + n, a[i] = a[j]
      PROVE  i = j
  <2>1. \A x \in 1..m, y \in 1..n : s[x] # r[y]
    BY <1>1, <1>7 DEF Members
  <2>2. /\ \A x, y \in 1..m : s[x] = s[y] => x = y
        /\ \A x, y \in 1..n : r[x] = r[y] => x = y
    BY <1>1, <1>7 DEF NoRepeat
  <2> QED BY <1>1, <1>5, <1>7, <2>1, <2>2
<1>8. NoRepeat(s) /\ NoRepeat(r) /\ Members(s) \cap Members(r) = {}
        => NoRepeat(a)
  BY <1>1, <1>7 DEF NoRepeat
<1> QED BY <1>1, <1>6, <1>8 DEF a, m, n

(* A list cut in two.                                                      *)
LEMMA CutMembers ==
  ASSUME NEW T, NEW q \in Seq(T), NEW k \in Nat, k <= Len(q)
  PROVE  LET f == SubSeq(q, 1, k)
             r == SubSeq(q, k + 1, Len(q))
         IN /\ f \in Seq(T) /\ r \in Seq(T)
            /\ Len(f) = k /\ Len(r) = Len(q) - k
            /\ Members(f) \cup Members(r) = Members(q)
            /\ NoRepeat(q) => /\ NoRepeat(f) /\ NoRepeat(r)
                              /\ Members(f) \cap Members(r) = {}
<1> DEFINE n == Len(q)
           f == SubSeq(q, 1, k)
           r == SubSeq(q, k + 1, n)
<1>1. n \in Nat /\ DOMAIN q = 1..n
  OBVIOUS
<1>2. /\ f \in Seq(T) /\ Len(f) = k /\ DOMAIN f = 1..k
      /\ \A i \in 1..k : f[i] = q[i]
  OBVIOUS
<1>3. /\ r \in Seq(T) /\ Len(r) = n - k /\ DOMAIN r = 1..n - k
      /\ \A i \in 1..n - k : r[i] = q[i + k]
  OBVIOUS
<1> HIDE DEF f, r, n
<1>4. k <= n
  BY DEF n
<1>5. ASSUME NEW i \in 1..n, i \notin 1..k
      PROVE  i - k \in 1..n - k /\ q[i] = r[i - k]
  <2>1. i - k \in 1..n - k /\ (i - k) + k = i
    BY <1>1, <1>4, <1>5
  <2> QED BY <1>3, <2>1
<1>6. Members(f) \cup Members(r) = Members(q)
  <2>1. Members(f) \subseteq Members(q)
    <3>1. \A i \in 1..k : i \in 1..n
      BY <1>1, <1>4
    <3> QED BY <1>1, <1>2, <3>1 DEF Members
  <2>2. Members(r) \subseteq Members(q)
    <3>1. \A i \in 1..n - k : i + k \in 1..n
      BY <1>1, <1>4
    <3> QED BY <1>1, <1>3, <3>1 DEF Members
  <2>3. ASSUME NEW i \in 1..n PROVE q[i] \in Members(f) \cup Members(r)
    <3>1. CASE i \in 1..k
      BY <1>2, <3>1 DEF Members
    <3>2. CASE i \notin 1..k
      BY <1>3, <1>5, <3>2 DEF Members
    <3> QED BY <3>1, <3>2
  <2> QED BY <1>1, <2>1, <2>2, <2>3 DEF Members
<1>7. ASSUME NoRepeat(q)
      PROVE  NoRepeat(f) /\ NoRepeat(r) /\ Members(f) \cap Members(r) = {}
  <2>1. NoRepeat(f)
    BY <1>1, <1>2, <1>4, <1>7 DEF NoRepeat
  <2>2. NoRepeat(r)
    <3> SUFFICES ASSUME NEW i \in 1..n - k, NEW j \in 1..n - k, r[i] = r[j]
                 PROVE  i = j
      BY <1>3 DEF NoRepeat
    <3>1. q[i + k] = q[j + k] /\ i + k \in 1..n /\ j + k \in 1..n
      BY <1>1, <1>3, <1>4
    <3>2. i + k = j + k
      BY <1>1, <1>7, <3>1 DEF NoRepeat
    <3> QED BY <1>1, <3>2
  <2>3. ASSUME NEW i \in 1..k, NEW j \in 1..n - k, f[i] = r[j]
        PROVE  FALSE
    <3>1. q[i] = q[j + k] /\ i \in 1..n /\ j + k \in 1..n /\ i # j + k
      BY <1>1, <1>2, <1>3, <1>4, <2>3
    <3> QED BY <1>1, <1>7, <3>1 DEF NoRepeat
  <2> QED BY <1>2, <1>3, <2>1, <2>2, <2>3 DEF Members
<1> QED BY <1>2, <1>3, <1>6, <1>7 DEF f, r, n

(* A new pool holds every port of the block, once                          *)
(* (arPhleetConnectionBroker.cpp:761-784).                                 *)
LEMMA PoolMembers ==
  ASSUME NEW k \in Block
  PROVE  LET q == [i \in 1..k.size |-> k.first + i - 1]
         IN Members(q) = PortsOf(k) /\ NoRepeat(q)
<1> DEFINE q == [i \in 1..k.size |-> k.first + i - 1]
           m == k.first
           n == k.size
<1>1. m \in Nat /\ n \in Nat
  BY ServicesAssumption
<1>2. DOMAIN q = 1..n /\ \A i \in 1..n : q[i] = m + i - 1
  OBVIOUS
<1>3. PortsOf(k) = m..m + n - 1
  BY DEF PortsOf
<1> HIDE DEF q, m, n
<1>4. NoRepeat(q)
  BY <1>1, <1>2 DEF NoRepeat
<1>5. Members(q) = m..m + n - 1
  <2>1. Members(q) \subseteq m..m + n - 1
    BY <1>1, <1>2 DEF Members
  <2>2. ASSUME NEW p \in m..m + n - 1 PROVE p \in Members(q)
    <3>1. p - m + 1 \in 1..n /\ q[p - m + 1] = p
      BY <1>1, <1>2
    <3> QED BY <1>2, <3>1 DEF Members
  <2> QED BY <2>1, <2>2
<1> QED BY <1>3, <1>4, <1>5 DEF q


-----------------------------------------------------------------------------
(* Where the ports are.                                                    *)

Has(table, s, p) == Known(table, s) /\ p \in Members(table[s].ports)

(* The lists of ports have no repetitions, and a service has ports only    *)
(* once there is a block.                                                  *)
ListsApart(b) ==
  /\ NoRepeat(b.available)
  /\ \A c \in Component : NoRepeat(b.tempPorts[c]) /\ NoRepeat(b.usedPorts[c])
  /\ \A s \in Service :
       /\ Known(b.temporary, s) =>
            NoRepeat(b.temporary[s].ports) /\ b.block \in Block
       /\ Known(b.used, s) => NoRepeat(b.used[s].ports)

(* One port: one service has it at most, the lists of the component and of *)
(* the computer say so, and otherwise it is available, leaked or not of    *)
(* the block.                                                              *)
PortAgrees(b, p) ==
  /\ \A s, r \in Service :
       /\ Has(b.temporary, s, p) /\ Has(b.temporary, r, p) => s = r
       /\ Has(b.used, s, p) /\ Has(b.used, r, p) => s = r
       /\ ~(Has(b.temporary, s, p) /\ Has(b.used, r, p))
  /\ \A c \in Component :
       /\ p \in Members(b.tempPorts[c]) <=>
            \E s \in Service : Has(b.temporary, s, p) /\ b.temporary[s].comp = c
       /\ p \in Members(b.usedPorts[c]) <=>
            \E s \in Service : Has(b.used, s, p) /\ b.used[s].comp = c
  /\ p \in b.hostTemp <=>
       p \in b.leaked \/ \E s \in Service : Has(b.temporary, s, p)
  /\ p \in b.hostUsed <=> \E s \in Service : Has(b.used, s, p)
  /\ p \in b.leaked =>
       \A s \in Service : ~Has(b.temporary, s, p) /\ ~Has(b.used, s, p)
  /\ p \in Members(b.available) => p \notin b.hostTemp /\ p \notin b.hostUsed
  /\ p \in PortsOf(b.block) =>
       p \in Members(b.available) \/ p \in b.hostTemp \/ p \in b.hostUsed

PortsAgree(b) == ListsApart(b) /\ \A p \in Port : PortAgrees(b, p)

(* At first there are no ports.                                            *)
LEMMA InitPorts == Init => PortsAgree(broker)
<1> SUFFICES ASSUME Init PROVE PortsAgree(broker)
  OBVIOUS
<1>1. /\ broker.available = <<>> /\ broker.block = NoBlock
      /\ broker.hostTemp = {} /\ broker.hostUsed = {} /\ broker.leaked = {}
      /\ \A s \in Service : ~Known(broker.temporary, s) /\ ~Known(broker.used, s)
      /\ \A c \in Component :
           broker.tempPorts[c] = <<>> /\ broker.usedPorts[c] = <<>>
  BY DEF Init, Known
<1>2. Members(<<>>) = {} /\ NoRepeat(<<>>)
  BY DEF Members, NoRepeat
<1>3. PortsOf(NoBlock) = {}
  BY DEF PortsOf, NoBlock
<1>4. ListsApart(broker)
  BY <1>1, <1>2 DEF ListsApart
<1>5. \A p \in Port : PortAgrees(broker, p)
  BY <1>1, <1>2, <1>3 DEF PortAgrees, Has
<1> QED BY <1>4, <1>5 DEF PortsAgree

(* The services are those there were, with their owners and ports.         *)
SameOffers(table, new) ==
  \A s \in Service :
    /\ Known(new, s) <=> Known(table, s)
    /\ Known(table, s) =>
         new[s].ports = table[s].ports /\ new[s].comp = table[s].comp

(* What changes neither the pools nor the offers keeps the ports apart.    *)
LEMMA SamePorts ==
  ASSUME NEW b, NEW d, PortsAgree(b), SamePools(b, d),
         SameOffers(b.temporary, d.temporary), SameOffers(b.used, d.used)
  PROVE  PortsAgree(d)
<1>1. ListsApart(d)
  BY DEF PortsAgree, ListsApart, SamePools, SameOffers
<1>2. ASSUME NEW p \in Port PROVE PortAgrees(d, p)
  <2>1. PortAgrees(b, p)
    BY DEF PortsAgree
  <2>2. \A s \in Service :
          /\ Has(d.temporary, s, p) <=> Has(b.temporary, s, p)
          /\ Has(d.used, s, p) <=> Has(b.used, s, p)
          /\ Has(b.temporary, s, p) =>
               d.temporary[s].comp = b.temporary[s].comp
          /\ Has(b.used, s, p) => d.used[s].comp = b.used[s].comp
    BY DEF SameOffers, Has
  <2> QED BY <2>1, <2>2 DEF PortAgrees, SamePools
<1> QED BY <1>1, <1>2 DEF PortsAgree

(* A new pool holds what is not in use                                     *)
(* (arPhleetConnectionBroker.cpp:761-784).                                 *)
LEMMA ResizePorts ==
  ASSUME NEW b, Good(b), PortsAgree(b), NEW k \in Block
  PROVE  LET d == ResizeComputerPorts(b, k)
         IN PortsAgree(d) /\ d.block \in Block
<1> DEFINE pool == [i \in 1..k.size |-> k.first + i - 1]
           U == b.hostTemp \cup b.hostUsed
           q == Without(pool, U)
           d == ResizeComputerPorts(b, k)
<1>1. CASE b.block = k
  <2>1. d = b
    BY <1>1 DEF ResizeComputerPorts
  <2> QED BY <1>1, <2>1
<1>2. CASE b.block # k
  <2>1. pool \in Seq(Port) /\ Members(pool) = PortsOf(k) /\ NoRepeat(pool)
    BY PoolIsList, PoolMembers
  <2> HIDE DEF pool
  <2>2. Members(q) = PortsOf(k) \ U /\ NoRepeat(q)
    BY <2>1, OnlyIsList DEF Without
  <2>3. d = [b EXCEPT !.block = k, !.available = q]
    BY <1>2 DEF ResizeComputerPorts, pool
  <2> HIDE DEF d, q
  <2>4. /\ d.block = k /\ d.available = q
        /\ d.temporary = b.temporary /\ d.used = b.used
        /\ d.hostTemp = b.hostTemp /\ d.hostUsed = b.hostUsed
        /\ d.leaked = b.leaked
        /\ d.tempPorts = b.tempPorts /\ d.usedPorts = b.usedPorts
    BY <2>3 DEF Good, Tables
  <2>5. ListsApart(d)
    BY <2>2, <2>4 DEF PortsAgree, ListsApart
  <2>6. ASSUME NEW p \in Port PROVE PortAgrees(d, p)
    <3>1. PortAgrees(b, p)
      BY DEF PortsAgree
    <3>2. p \in Members(d.available) <=>
            p \in PortsOf(d.block) /\ p \notin b.hostTemp /\ p \notin b.hostUsed
      BY <2>2, <2>4
    <3> QED BY <2>4, <3>1, <3>2 DEF PortAgrees
  <2> QED BY <2>4, <2>5, <2>6 DEF PortsAgree, d
<1> QED BY <1>1, <1>2

(* A request that finds too few ports takes them along: nobody has them    *)
(* (arPhleetConnectionBroker.cpp:90-101).                                  *)
LEMMA ExhaustPortsAgree ==
  ASSUME NEW b, Good(b), PortsAgree(b)
  PROVE  PortsAgree(ExhaustPorts(b))
<1> DEFINE d == ExhaustPorts(b)
           P == Members(b.available)
<1>1. d = [b EXCEPT !.available = <<>>, !.hostTemp = @ \cup P,
                    !.leaked = @ \cup P]
  BY DEF ExhaustPorts
<1> HIDE DEF d, P
<1>2. /\ d.block = b.block /\ d.available = <<>>
      /\ d.temporary = b.temporary /\ d.used = b.used
      /\ d.hostTemp = b.hostTemp \cup P /\ d.hostUsed = b.hostUsed
      /\ d.leaked = b.leaked \cup P
      /\ d.tempPorts = b.tempPorts /\ d.usedPorts = b.usedPorts
  BY <1>1 DEF Good, Tables
<1>3. Members(<<>>) = {} /\ NoRepeat(<<>>)
  BY DEF Members, NoRepeat
<1>4. ListsApart(d)
  BY <1>2, <1>3 DEF PortsAgree, ListsApart
<1>5. ASSUME NEW p \in Port PROVE PortAgrees(d, p)
  <2>1. PortAgrees(b, p)
    BY DEF PortsAgree
  <2>2. /\ p \notin Members(d.available)
        /\ p \in d.hostTemp <=> p \in b.hostTemp \/ p \in Members(b.available)
        /\ p \in d.leaked <=> p \in b.leaked \/ p \in Members(b.available)
    BY <1>2, <1>3 DEF P
  <2> QED BY <1>2, <2>1, <2>2 DEF PortAgrees
<1> QED BY <1>4, <1>5 DEF PortsAgree, d


(* The ports of a new service leave the pool                               *)
(* (arPhleetConnectionBroker.cpp:34-120).                                  *)
LEMMA AssignPortsAgree ==
  ASSUME NEW b, Good(b), PortsAgree(b), b.block \in Block,
         NEW s \in Service, NEW c \in Component,
         NEW net \in Network, NEW n \in Size,
         ~CheckService(b, s), n <= Len(b.available)
  PROVE  PortsAgree(AssignPorts(b, s, c, net, n))
<1> DEFINE ports == SubSeq(b.available, 1, n)
           rest == SubSeq(b.available, n + 1, Len(b.available))
           P == Members(ports)
           o == [comp |-> c, net |-> net, ports |-> ports, notes |-> {}]
           mine == b.tempPorts[c] \o ports
           d == AssignPorts(b, s, c, net, n)
<1>1. b.available \in Seq(Port) /\ n \in Nat /\ NoRepeat(b.available)
  BY ServicesAssumption DEF Good, Tables, PortsAgree, ListsApart
<1>2. /\ ports \in Seq(Port) /\ rest \in Seq(Port)
      /\ P \cup Members(rest) = Members(b.available)
      /\ P \cap Members(rest) = {}
      /\ NoRepeat(ports) /\ NoRepeat(rest) /\ Len(ports) = n
  BY <1>1, CutMembers
<1>3. d = [b EXCEPT !.available = rest, !.hostTemp = @ \cup P,
                    !.tempTags[c] = @ \cup {s}, !.tempPorts[c] = mine,
                    !.temporary[s] = o]
  BY DEF AssignPorts
<1> HIDE DEF d, o, rest, ports
<1>4. ASSUME NEW p \in Members(b.tempPorts[c]), p \in Members(b.available)
      PROVE  FALSE
  <2>1. b.tempPorts[c] \in Seq(Port)
    BY DEF Good, Tables
  <2>2. p \in Port
    BY <2>1, MembersIn
  <2> QED BY <1>4, <2>2 DEF PortsAgree, PortAgrees
<1>5. /\ NoRepeat(mine)
      /\ Members(mine) = Members(b.tempPorts[c]) \cup P
  <2>1. /\ b.tempPorts[c] \in Seq(Port) /\ NoRepeat(b.tempPorts[c])
        /\ Members(b.tempPorts[c]) \cap P = {}
    BY <1>2, <1>4 DEF Good, Tables, PortsAgree, ListsApart
  <2> QED BY <1>2, <2>1, ConcatMembers
<1>6. o # NoOffer /\ o.comp = c /\ o.ports = ports
  <2>1. {} \in SUBSET Ticket
    OBVIOUS
  <2>2. o # NoOffer
    BY <1>2, <2>1, OfferIsKnown DEF o
  <2> QED BY <2>2 DEF o
<1> HIDE DEF mine, P
<1>7. /\ d.block = b.block /\ d.available = rest
      /\ d.used = b.used /\ d.usedPorts = b.usedPorts
      /\ d.hostTemp = b.hostTemp \cup P /\ d.hostUsed = b.hostUsed
      /\ d.leaked = b.leaked
      /\ \A x \in Service :
           d.temporary[x] = IF x = s THEN o ELSE b.temporary[x]
      /\ \A x \in Component :
           d.tempPorts[x] = IF x = c THEN mine ELSE b.tempPorts[x]
  BY <1>3 DEF Good, Tables
<1>8. ~Known(b.temporary, s) /\ ~Known(b.used, s)
  BY DEF CheckService, Known
<1>9. ListsApart(d)
  BY <1>2, <1>5, <1>6, <1>7 DEF PortsAgree, ListsApart, Known
<1>10. ASSUME NEW p \in Port PROVE PortAgrees(d, p)
  <2>1. PortAgrees(b, p)
    BY DEF PortsAgree
  <2>2. \A x \in Service :
          /\ Has(d.temporary, x, p) <=>
               (x = s /\ p \in P) \/ Has(b.temporary, x, p)
          /\ Has(d.used, x, p) <=> Has(b.used, x, p)
          /\ d.temporary[x].comp = IF x = s THEN c ELSE b.temporary[x].comp
          /\ d.used[x] = b.used[x]
    BY <1>6, <1>7, <1>8 DEF Has, Known, P
  <2>3. ~Has(b.temporary, s, p)
    BY <1>8 DEF Has
  <2>4. /\ p \in Members(d.available) <=> p \in Members(b.available) /\ p \notin P
        /\ p \in P => p \in Members(b.available)
        /\ p \in d.hostTemp <=> p \in b.hostTemp \/ p \in P
        /\ \A x \in Component : p \in Members(d.tempPorts[x]) <=>
             p \in Members(b.tempPorts[x]) \/ (x = c /\ p \in P)
    BY <1>2, <1>5, <1>7
  <2> QED BY <1>7, <2>1, <2>2, <2>3, <2>4 DEF PortAgrees
<1> QED BY <1>9, <1>10 DEF PortsAgree, d


(* New ports for a service, as many as it had: the old ones return to the  *)
(* pool, if they are of the block, and the first of the pool take their    *)
(* place (arPhleetConnectionBroker.cpp:129-205).                           *)
LEMMA RetryPortsAgree ==
  ASSUME NEW b, Good(b), PortsAgree(b), NEW s \in Service,
         Known(b.temporary, s),
         Len(b.temporary[s].ports)
           <= Len(b.available) + Len(Returned(b, b.temporary[s].ports))
  PROVE  LET d == RetryPorts(b, s)
         IN /\ PortsAgree(d)
            /\ Len(b.available) >= Len(b.temporary[s].ports) =>
                 Members(b.temporary[s].ports)
                   \cap Members(d.temporary[s].ports) = {}
<1> DEFINE o == b.temporary[s]
           n == Len(o.ports)
           back == Returned(b, o.ports)
           pool == b.available \o back
           k == Least(n, Len(pool))
           fresh == SubSeq(pool, 1, k)
           rest == SubSeq(pool, k + 1, Len(pool))
           tail == SubSeq(o.ports, k + 1, n)
           q == fresh \o tail
           c == o.comp
           P == Members(o.ports)
           F == Members(fresh)
           mine == Without(b.tempPorts[c], P) \o fresh
           d == RetryPorts(b, s)
<1>1. /\ o \in Offers /\ o # NoOffer /\ b.available \in Seq(Port)
      /\ b.tempPorts \in [Component -> Seq(Port)]
      /\ NoRepeat(b.available) /\ NoRepeat(o.ports)
  BY DEF Good, Tables, Known, PortsAgree, ListsApart
<1>2. o.ports \in Seq(Port) /\ c \in Component /\ n \in Nat
  <2>1. o.ports \in Seq(Port) /\ c \in Component
    BY <1>1, OfferFields
  <2> QED BY <2>1
<1>3. /\ back \in Seq(Port) /\ NoRepeat(back)
      /\ Members(back) = {p \in P : PortValid(b, p)}
  <2> DEFINE V == {p \in P : PortValid(b, p)}
  <2>1. back = Only(o.ports, V) /\ P \cap V = V
    BY DEF Returned
  <2> HIDE DEF V, o, back
  <2>2. /\ Only(o.ports, V) \in Seq(Port)
        /\ Members(Only(o.ports, V)) = P \cap V
        /\ NoRepeat(Only(o.ports, V))
    BY <1>1, <1>2, OnlyIsList
  <2> QED BY <2>1, <2>2 DEF V
<1>4. \A p \in P : p \in Port /\ Has(b.temporary, s, p)
  BY <1>2, MembersIn DEF Has
<1>5. \A p \in P : p \notin Members(b.available)
  BY <1>4 DEF PortsAgree, PortAgrees
<1>6. d = [b EXCEPT !.available = rest,
                    !.hostTemp = (@ \ P) \cup F,
                    !.tempPorts[c] = mine,
                    !.temporary[s].ports = q]
  BY DEF RetryPorts
<1> HIDE DEF d, o, back
<1>7. /\ pool \in Seq(Port) /\ NoRepeat(pool)
      /\ Members(pool) = Members(b.available) \cup Members(back)
      /\ Len(pool) = Len(b.available) + Len(back)
  <2>1. Members(b.available) \cap Members(back) = {}
    BY <1>3, <1>5
  <2> QED BY <1>1, <1>3, <2>1, ConcatMembers
<1>8. k = n /\ n <= Len(pool)
  <2>1. n <= Len(pool)
    BY <1>7 DEF o, back
  <2>2. Len(pool) \in Nat
    BY <1>7
  <2> DEFINE m == Len(pool)
  <2> HIDE DEF m, n
  <2>3. Least(n, m) = n
    BY <1>2, <2>1, <2>2 DEF Least, m
  <2> QED BY <2>1, <2>3 DEF m
<1> HIDE DEF pool, k
<1>9. /\ fresh \in Seq(Port) /\ rest \in Seq(Port) /\ Len(fresh) = n
      /\ F \cup Members(rest) = Members(pool)
      /\ F \cap Members(rest) = {}
      /\ NoRepeat(fresh) /\ NoRepeat(rest)
  <2>1. k \in Nat /\ k <= Len(pool)
    BY <1>2, <1>8
  <2>2. /\ fresh \in Seq(Port) /\ rest \in Seq(Port) /\ Len(fresh) = k
        /\ F \cup Members(rest) = Members(pool)
        /\ NoRepeat(fresh) /\ NoRepeat(rest) /\ F \cap Members(rest) = {}
    BY <1>7, <2>1, CutMembers
  <2> HIDE DEF fresh, rest, n
  <2> QED BY <1>8, <2>2
<1>10. q = fresh
  <2>1. tail = <<>>
    BY <1>2, <1>8
  <2> HIDE DEF tail, fresh
  <2> QED BY <1>9, <2>1
<1>11. \A p \in Members(pool) : p \notin Members(b.tempPorts[c]) \ P
  <2> SUFFICES ASSUME NEW p \in Members(b.available)
               PROVE  p \notin Members(b.tempPorts[c])
    BY <1>3, <1>7
  <2>1. p \in Port
    BY <1>1, MembersIn
  <2> QED BY <1>2, <2>1 DEF PortsAgree, PortAgrees
<1>12. /\ NoRepeat(mine)
       /\ Members(mine) = (Members(b.tempPorts[c]) \ P) \cup F
  <2> DEFINE w == Without(b.tempPorts[c], P)
  <2>1. b.tempPorts[c] \in Seq(Port) /\ NoRepeat(b.tempPorts[c])
    BY <1>1, <1>2 DEF PortsAgree, ListsApart
  <2>2. /\ w \in Seq(Port) /\ NoRepeat(w)
        /\ Members(w) = Members(b.tempPorts[c]) \ P
    <3> DEFINE V == Members(b.tempPorts[c]) \ P
    <3>1. w = Only(b.tempPorts[c], V)
      BY DEF Without
    <3> HIDE DEF V, w
    <3>2. /\ w \in Seq(Port) /\ NoRepeat(w)
          /\ Members(w) = Members(b.tempPorts[c]) \cap V
      BY <2>1, <3>1, OnlyIsList
    <3> QED BY <3>2 DEF V
  <2>3. Members(w) \cap F = {}
    BY <1>9, <1>11, <2>2
  <2> HIDE DEF w, fresh
  <2>4. mine = w \o fresh
    BY DEF w
  <2> QED BY <1>9, <2>2, <2>3, <2>4, ConcatMembers
<1> DEFINE p1 == [o EXCEPT !.ports = q]
<1>13. p1 # NoOffer /\ p1.comp = c /\ p1.ports = q
  <2>1. p1 = [comp |-> o.comp, net |-> o.net, ports |-> q,
              notes |-> o.notes]
    <3> HIDE DEF q, c
    <3>1. o = [comp |-> o.comp, net |-> o.net, ports |-> o.ports,
               notes |-> o.notes]
      BY <1>1, OfferFields
    <3> QED BY <3>1
  <2>2. /\ o.net \in Network /\ o.notes \in SUBSET Ticket
        /\ Len(q) \in Size /\ q \in Seq(Port) /\ c \in Component
    BY <1>1, <1>2, <1>9, <1>10, OfferFields
  <2> HIDE DEF q, p1
  <2> QED BY <2>1, <2>2, OfferIsKnown
<1> HIDE DEF mine, F, P, rest, fresh, q, p1, c
<1>14. /\ d.block = b.block /\ d.available = rest
       /\ d.used = b.used /\ d.usedPorts = b.usedPorts
       /\ d.hostTemp = (b.hostTemp \ P) \cup F /\ d.hostUsed = b.hostUsed
       /\ d.leaked = b.leaked
       /\ \A x \in Service :
            d.temporary[x] = IF x = s THEN p1 ELSE b.temporary[x]
       /\ \A x \in Component :
            d.tempPorts[x] = IF x = c THEN mine ELSE b.tempPorts[x]
  <2>1. d = [b EXCEPT !.available = rest, !.hostTemp = (@ \ P) \cup F,
                      !.tempPorts[c] = mine, !.temporary[s] = p1]
    BY <1>6 DEF p1, o
  <2> QED BY <2>1 DEF Good, Tables
<1>15. Known(b.temporary, s) /\ b.temporary[s] = o /\ o.comp = c
  BY DEF o, c
<1>16. ListsApart(d)
  BY <1>9, <1>10, <1>12, <1>13, <1>14, <1>15
     DEF PortsAgree, ListsApart, Known
<1>17. ASSUME NEW p \in Port PROVE PortAgrees(d, p)
  <2>1. PortAgrees(b, p)
    BY DEF PortsAgree
  <2>2. \A x \in Service :
          /\ Has(d.temporary, x, p) <=>
               IF x = s THEN p \in F ELSE Has(b.temporary, x, p)
          /\ Has(d.used, x, p) <=> Has(b.used, x, p)
          /\ d.temporary[x].comp = b.temporary[x].comp
          /\ d.used[x] = b.used[x]
    BY <1>10, <1>13, <1>14, <1>15 DEF Has, Known, F
  <2>3. (Has(b.temporary, s, p) <=> p \in P) /\ b.temporary[s].comp = c
    BY <1>15 DEF Has, P
  <2>4. /\ p \in F \/ p \in Members(rest) <=>
             p \in Members(b.available) \/ (p \in P /\ p \in PortsOf(b.block))
        /\ ~(p \in F /\ p \in Members(rest))
    BY <1>3, <1>7, <1>9 DEF PortValid
  <2>5. \A x \in Component : p \in Members(d.tempPorts[x]) <=>
          IF x = c THEN (p \in Members(b.tempPorts[c]) /\ p \notin P) \/ p \in F
          ELSE p \in Members(b.tempPorts[x])
    BY <1>12, <1>14
  <2>6. /\ p \in d.hostTemp <=> (p \in b.hostTemp /\ p \notin P) \/ p \in F
        /\ p \in Members(d.available) <=> p \in Members(rest)
    BY <1>14
  <2> QED BY <1>2, <1>14, <2>1, <2>2, <2>3, <2>4, <2>5, <2>6 DEF PortAgrees
<1>18. ASSUME Len(b.available) >= n PROVE P \cap F = {}
  <2>1. \A i \in 1..n : fresh[i] \in Members(b.available)
    <3>1. \A i \in 1..n : i \in 1..Len(b.available) /\ fresh[i] = pool[i]
      BY <1>1, <1>2, <1>7, <1>8, <1>18 DEF fresh
    <3>2. \A i \in 1..Len(b.available) : pool[i] = b.available[i]
      BY <1>1, <1>3 DEF pool
    <3> QED BY <1>1, <3>1, <3>2 DEF Members
  <2>2. F \subseteq Members(b.available)
    BY <1>9, <2>1 DEF F, Members
  <2> QED BY <1>5, <2>2
<1> QED BY <1>10, <1>13, <1>14, <1>16, <1>17, <1>18 DEF PortsAgree, d, o, P, F


(* Without leaves the elements outside S, each as often as before.         *)
LEMMA WithoutMembers ==
  ASSUME NEW T, NEW q \in Seq(T), NEW S
  PROVE  /\ Without(q, S) \in Seq(T)
         /\ Members(Without(q, S)) = Members(q) \ S
         /\ NoRepeat(q) => NoRepeat(Without(q, S))
<1> DEFINE V == Members(q) \ S
<1>1. Without(q, S) = Only(q, V) /\ Members(q) \cap V = V
  BY DEF Without
<1> HIDE DEF V
<1>2. /\ Only(q, V) \in Seq(T)
      /\ Members(Only(q, V)) = Members(q) \cap V
      /\ NoRepeat(q) => NoRepeat(Only(q, V))
  BY OnlyIsList
<1> QED BY <1>1, <1>2 DEF V

(* The ports that return are those of the block, each as often as before.  *)
LEMMA ReturnedMembers ==
  ASSUME NEW b, NEW T, NEW q \in Seq(T)
  PROVE  /\ Returned(b, q) \in Seq(T)
         /\ Members(Returned(b, q)) = Members(q) \cap PortsOf(b.block)
         /\ NoRepeat(q) => NoRepeat(Returned(b, q))
         /\ Members(q) \subseteq PortsOf(b.block) =>
              Len(Returned(b, q)) = Len(q)
<1> DEFINE V == {p \in Members(q) : PortValid(b, p)}
<1>1. /\ Returned(b, q) = Only(q, V)
      /\ Members(q) \cap V = Members(q) \cap PortsOf(b.block)
      /\ Members(q) \subseteq PortsOf(b.block) => Members(q) \subseteq V
  BY DEF Returned, PortValid
<1> HIDE DEF V
<1>2. /\ Only(q, V) \in Seq(T)
      /\ Members(Only(q, V)) = Members(q) \cap V
      /\ NoRepeat(q) => NoRepeat(Only(q, V))
      /\ Members(q) \subseteq V => Len(Only(q, V)) = Len(q)
  BY OnlyIsList
<1> QED BY <1>1, <1>2

(* The confirmation moves the ports with their service                     *)
(* (arPhleetConnectionBroker.cpp:207-261).                                 *)
LEMMA ConfirmPortsAgree ==
  ASSUME NEW b, Good(b), PortsAgree(b), NEW s \in Service,
         Known(b.temporary, s)
  PROVE  PortsAgree(ConfirmPorts(b, s))
<1> DEFINE o == b.temporary[s]
           c == o.comp
           P == Members(o.ports)
           mine == Without(b.tempPorts[c], P)
           used == b.usedPorts[c] \o o.ports
           d == ConfirmPorts(b, s)
<1>1. /\ o \in Offers /\ o # NoOffer /\ NoRepeat(o.ports)
      /\ b.tempPorts \in [Component -> Seq(Port)]
      /\ b.usedPorts \in [Component -> Seq(Port)]
      /\ ~Known(b.used, s)
  BY DEF Good, Tables, ServicesAgree, Known, PortsAgree, ListsApart
<1>2. d = [b EXCEPT !.temporary[s] = NoOffer, !.used[s] = o,
                    !.hostTemp = @ \ P, !.hostUsed = @ \cup P,
                    !.tempPorts[c] = mine, !.usedPorts[c] = used,
                    !.tempTags[c] = @ \ {s}, !.usedTags[c] = @ \cup {s}]
  BY DEF ConfirmPorts
<1>3. \A p \in P : Has(b.temporary, s, p)
  BY DEF Has
<1>4. Known(b.temporary, s) /\ b.temporary[s] = o
  OBVIOUS
<1> HIDE DEF d, o
<1>5. o.ports \in Seq(Port) /\ c \in Component
  BY <1>1, OfferFields
<1>6. /\ NoRepeat(mine) /\ Members(mine) = Members(b.tempPorts[c]) \ P
  <2>1. b.tempPorts[c] \in Seq(Port) /\ NoRepeat(b.tempPorts[c])
    BY <1>1, <1>5 DEF PortsAgree, ListsApart
  <2> QED BY <2>1, WithoutMembers
<1>7. /\ NoRepeat(used) /\ Members(used) = Members(b.usedPorts[c]) \cup P
  <2>1. b.usedPorts[c] \in Seq(Port) /\ NoRepeat(b.usedPorts[c])
    BY <1>1, <1>5 DEF PortsAgree, ListsApart
  <2>2. Members(b.usedPorts[c]) \cap P = {}
    <3> SUFFICES ASSUME NEW p \in P, p \in Members(b.usedPorts[c])
                 PROVE  FALSE
      OBVIOUS
    <3>1. p \in Port
      BY <1>5, MembersIn
    <3> QED BY <1>3, <1>5, <3>1 DEF PortsAgree, PortAgrees
  <2> QED BY <1>1, <1>5, <2>1, <2>2, ConcatMembers
<1> HIDE DEF c, P, mine, used
<1>8. /\ d.block = b.block /\ d.available = b.available
      /\ d.leaked = b.leaked
      /\ d.hostTemp = b.hostTemp \ P /\ d.hostUsed = b.hostUsed \cup P
      /\ \A x \in Service :
           /\ d.temporary[x] = IF x = s THEN NoOffer ELSE b.temporary[x]
           /\ d.used[x] = IF x = s THEN o ELSE b.used[x]
      /\ \A x \in Component :
           /\ d.tempPorts[x] = IF x = c THEN mine ELSE b.tempPorts[x]
           /\ d.usedPorts[x] = IF x = c THEN used ELSE b.usedPorts[x]
  BY <1>2 DEF Good, Tables
<1>9. ListsApart(d)
  BY <1>1, <1>4, <1>6, <1>7, <1>8 DEF PortsAgree, ListsApart, Known
<1>10. ASSUME NEW p \in Port PROVE PortAgrees(d, p)
  <2>1. PortAgrees(b, p)
    BY DEF PortsAgree
  <2>2. \A x \in Service :
          /\ Has(d.temporary, x, p) <=> x # s /\ Has(b.temporary, x, p)
          /\ Has(d.used, x, p) <=> IF x = s THEN p \in P ELSE Has(b.used, x, p)
          /\ x # s => /\ d.temporary[x].comp = b.temporary[x].comp
                      /\ d.used[x].comp = b.used[x].comp
    BY <1>1, <1>8 DEF Has, Known, P
  <2>3. /\ Has(b.temporary, s, p) <=> p \in P
        /\ ~Has(b.used, s, p)
        /\ b.temporary[s].comp = c /\ d.used[s].comp = c
    BY <1>1, <1>4, <1>8 DEF Has, P, c
  <2>4. /\ p \in d.hostTemp <=> p \in b.hostTemp /\ p \notin P
        /\ p \in d.hostUsed <=> p \in b.hostUsed \/ p \in P
        /\ \A x \in Component :
             /\ p \in Members(d.tempPorts[x]) <=>
                  p \in Members(b.tempPorts[x]) /\ ~(x = c /\ p \in P)
             /\ p \in Members(d.usedPorts[x]) <=>
                  p \in Members(b.usedPorts[x]) \/ (x = c /\ p \in P)
    BY <1>6, <1>7, <1>8
  <2> QED BY <1>8, <2>1, <2>2, <2>3, <2>4 DEF PortAgrees
<1> QED BY <1>9, <1>10 DEF PortsAgree, d

(* The ports of a component that goes return to the pool, if they are of   *)
(* the block, and no table has them any more                               *)
(* (arPhleetConnectionBroker.cpp:577-661).                                 *)
LEMMA RemovePortsAgree ==
  ASSUME NEW b, Good(b), PortsAgree(b), NEW c \in Component, NEW O
  PROVE  PortsAgree(RemoveComponent(b, c, O))
<1> DEFINE S == Tags(b, c)
           all == b.tempPorts[c] \o b.usedPorts[c]
           back == Returned(b, all)
           r == RemoveComponent(b, c, O)
<1>1. /\ \A s \in Service :
           /\ r.temporary[s] = IF s \in S THEN NoOffer ELSE b.temporary[s]
           /\ Known(r.used, s) <=> s \notin S /\ Known(b.used, s)
           /\ Known(r.used, s) =>
                /\ r.used[s].comp = b.used[s].comp
                /\ r.used[s].ports = b.used[s].ports
      /\ PortsReturned(b, r, c)
  <2>1. Removed(b, r, c, O)
    BY RemoveComponentMaps
  <2> HIDE DEF r
  <2> QED BY <2>1 DEF Removed
<1> HIDE DEF r
<1>2. /\ b.tempPorts \in [Component -> Seq(Port)]
      /\ b.usedPorts \in [Component -> Seq(Port)]
      /\ b.available \in Seq(Port) /\ ServicesAgree(b)
  BY DEF Good, Tables
<1>3. \A s \in Service :
        /\ s \in S <=> \/ Known(b.temporary, s) /\ b.temporary[s].comp = c
                       \/ Known(b.used, s) /\ b.used[s].comp = c
        /\ ~Known(b.temporary, s) \/ ~Known(b.used, s)
  BY <1>2 DEF ServicesAgree, Tags
<1> HIDE DEF S
<1>4. /\ b.tempPorts[c] \in Seq(Port) /\ b.usedPorts[c] \in Seq(Port)
      /\ NoRepeat(b.tempPorts[c]) /\ NoRepeat(b.usedPorts[c])
  BY <1>2 DEF PortsAgree, ListsApart
<1>5. \A p \in Port :
        /\ ~(p \in Members(b.tempPorts[c]) /\ p \in Members(b.usedPorts[c]))
        /\ p \in Members(b.available) =>
             p \notin Members(b.tempPorts[c]) /\ p \notin Members(b.usedPorts[c])
  BY DEF PortsAgree, PortAgrees
<1>6. /\ all \in Seq(Port) /\ NoRepeat(all)
      /\ Members(all) = Members(b.tempPorts[c]) \cup Members(b.usedPorts[c])
  <2>1. Members(b.tempPorts[c]) \cap Members(b.usedPorts[c]) = {}
    BY <1>4, <1>5, MembersIn
  <2> QED BY <1>4, <2>1, ConcatMembers
<1> HIDE DEF all
<1>7. /\ back \in Seq(Port) /\ NoRepeat(back)
      /\ Members(back) = Members(all) \cap PortsOf(b.block)
  BY <1>6, ReturnedMembers
<1>8. /\ r.available = b.available \o back
      /\ r.hostTemp = b.hostTemp \ Members(b.tempPorts[c])
      /\ r.hostUsed = b.hostUsed \ Members(b.usedPorts[c])
      /\ r.block = b.block /\ r.leaked = b.leaked
      /\ \A x \in Component :
           /\ r.tempPorts[x] = IF x = c THEN <<>> ELSE b.tempPorts[x]
           /\ r.usedPorts[x] = IF x = c THEN <<>> ELSE b.usedPorts[x]
  <2>1. /\ r.tempPorts = [b.tempPorts EXCEPT ![c] = <<>>]
        /\ r.usedPorts = [b.usedPorts EXCEPT ![c] = <<>>]
    BY <1>1 DEF PortsReturned
  <2>2. \A x \in Component :
           /\ r.tempPorts[x] = IF x = c THEN <<>> ELSE b.tempPorts[x]
           /\ r.usedPorts[x] = IF x = c THEN <<>> ELSE b.usedPorts[x]
    BY <1>2, <2>1
  <2> QED BY <1>1, <2>2 DEF PortsReturned, all
<1> HIDE DEF back
<1>9. /\ NoRepeat(r.available)
      /\ Members(r.available) = Members(b.available) \cup Members(back)
  <2>1. NoRepeat(b.available)
    BY DEF PortsAgree, ListsApart
  <2>2. Members(b.available) \cap Members(back) = {}
    BY <1>2, <1>5, <1>6, <1>7, MembersIn
  <2> QED BY <1>2, <1>7, <1>8, <2>1, <2>2, ConcatMembers
<1>10. Members(<<>>) = {} /\ NoRepeat(<<>>)
  BY DEF Members, NoRepeat
<1>11. \A s \in Service :
         Known(r.temporary, s) <=> s \notin S /\ Known(b.temporary, s)
  BY <1>1 DEF Known
<1>12. ListsApart(r)
  <2>1. \A x \in Component :
          NoRepeat(r.tempPorts[x]) /\ NoRepeat(r.usedPorts[x])
    BY <1>8, <1>10 DEF PortsAgree, ListsApart
  <2>2. ASSUME NEW s \in Service
        PROVE  /\ Known(r.temporary, s) =>
                    NoRepeat(r.temporary[s].ports) /\ r.block \in Block
               /\ Known(r.used, s) => NoRepeat(r.used[s].ports)
    BY <1>1, <1>8, <1>11 DEF PortsAgree, ListsApart
  <2> QED BY <1>9, <2>1, <2>2 DEF ListsApart
<1>13. ASSUME NEW p \in Port PROVE PortAgrees(r, p)
  <2>1. PortAgrees(b, p)
    BY DEF PortsAgree
  <2>2. \A s \in Service :
          /\ Has(r.temporary, s, p) <=>
               Has(b.temporary, s, p) /\ b.temporary[s].comp # c
          /\ Has(r.used, s, p) <=> Has(b.used, s, p) /\ b.used[s].comp # c
          /\ Has(r.temporary, s, p) =>
               r.temporary[s].comp = b.temporary[s].comp
          /\ Has(r.used, s, p) => r.used[s].comp = b.used[s].comp
    BY <1>1, <1>3, <1>11 DEF Has
  <2>3. /\ p \in Members(r.available) <=>
             \/ p \in Members(b.available)
             \/ /\ p \in PortsOf(b.block)
                /\ \/ p \in Members(b.tempPorts[c])
                   \/ p \in Members(b.usedPorts[c])
        /\ p \in r.hostTemp <=>
             p \in b.hostTemp /\ p \notin Members(b.tempPorts[c])
        /\ p \in r.hostUsed <=>
             p \in b.hostUsed /\ p \notin Members(b.usedPorts[c])
        /\ \A x \in Component :
             /\ p \in Members(r.tempPorts[x]) <=>
                  x # c /\ p \in Members(b.tempPorts[x])
             /\ p \in Members(r.usedPorts[x]) <=>
                  x # c /\ p \in Members(b.usedPorts[x])
    BY <1>6, <1>7, <1>8, <1>9, <1>10
  <2> QED BY <1>8, <2>1, <2>2, <2>3 DEF PortAgrees
<1> QED BY <1>12, <1>13 DEF PortsAgree, r


-----------------------------------------------------------------------------
(* The handlers.                                                           *)

Apart(b) == Good(b) /\ PortsAgree(b)

(* What changes neither services nor ports keeps the ports apart.          *)
LEMMA QuietApart ==
  ASSUME NEW b, Apart(b), NEW d \in Tables, SamePools(b, d),
         SameServices(b, d)
  PROVE  Apart(d)
<1>1. Good(d)
  BY RequestsGood DEF Apart
<1>2. SameOffers(b.temporary, d.temporary) /\ SameOffers(b.used, d.used)
  BY DEF SameServices, SameOffers
<1> QED BY <1>1, <1>2, SamePorts DEF Apart

(* What every handler ends with keeps the ports apart                      *)
(* (szgserver.cpp:1526-1748).                                              *)
LEMMA FinishApart ==
  ASSUME Apart(broker), NEW b, Apart(b), NEW D \in SUBSET Open, Finish(b, D)
  PROVE  PortsAgree(broker')
<1>1. ASSUME NEW c \in D, broker' = RemoveComponent(b, c, Open \ D)
      PROVE  PortsAgree(broker')
  <2>1. c \in Component
    BY DEF Open
  <2> QED BY <1>1, <2>1, RemovePortsAgree DEF Apart
<1> QED BY <1>1 DEF Finish, Apart

(* registerServiceCallback with SZG_TRY: the block is set before ports are *)
(* taken from it (szgserver.cpp:1526-1566).                                *)
LEMMA RegisterTryApart ==
  ASSUME IInv, PortsAgree(broker), NEW c \in Component, RegisterTry(c)
  PROVE  PortsAgree(broker')
<1> DEFINE r == held[c]
           s == r.service
           b == ResizeComputerPorts(broker, r.block)
<1>1. r \in Request /\ r.kind = "SZG_TRY"
  BY Consumes DEF RegisterTry
<1>2. /\ s \in Service /\ r.net \in Network
      /\ r.block \in Block /\ r.size \in Size
  BY <1>1, RequestFields
<1>3. PICK D \in Hangups({c}) :
        \/ Finish(broker, D)
        \/ Finish(ExhaustPorts(b), D)
        \/ /\ ~CheckService(broker, s) /\ Len(b.available) >= r.size
           /\ Finish(AssignPorts(b, s, c, r.net, r.size), D)
  BY DEF RegisterTry
<1>4. D \in SUBSET Open
  BY HangupsOpen
<1> HIDE DEF r, s
<1>5. Good(b) /\ SameServices(broker, b) /\ PortsAgree(b) /\ b.block \in Block
  BY <1>2, ResizeGood, ResizePorts DEF IInv
<1> HIDE DEF b
<1>6. Apart(broker)
  BY DEF IInv, Apart
<1>7. CASE Finish(ExhaustPorts(b), D)
  <2> DEFINE d == ExhaustPorts(b)
  <2>1. Apart(d)
    BY <1>5, ExhaustGood, ExhaustPortsAgree DEF Apart
  <2>2. Finish(d, D)
    BY <1>7
  <2> HIDE DEF d
  <2> QED BY <1>4, <1>6, <2>1, <2>2, FinishApart
<1>8. CASE /\ ~CheckService(broker, s) /\ Len(b.available) >= r.size
           /\ Finish(AssignPorts(b, s, c, r.net, r.size), D)
  <2> DEFINE d == AssignPorts(b, s, c, r.net, r.size)
  <2>1. ~CheckService(b, s)
    BY <1>5, <1>8 DEF CheckService, SameServices
  <2>2. r.size <= Len(b.available)
    BY <1>2, <1>5, <1>8, ServicesAssumption DEF Good, Tables
  <2>3. Good(d)
    BY <1>2, <1>5, <2>1, <2>2, AssignGood
  <2>4. PortsAgree(d)
    BY <1>2, <1>5, <2>1, <2>2, AssignPortsAgree
  <2>5. Finish(d, D)
    BY <1>8
  <2> HIDE DEF d
  <2> QED BY <1>4, <1>6, <2>3, <2>4, <2>5, FinishApart DEF Apart
<1> QED BY <1>3, <1>4, <1>6, <1>7, <1>8, FinishApart

(* With SZG_RETRY, if it finds enough ports: new ones take the place of    *)
(* the old, and come from those that were available if there were as many  *)
(* (szgserver.cpp:1568-1572, arPhleetConnectionBroker.cpp:129-205).        *)
LEMMA RegisterRetryApart ==
  ASSUME IInv, PortsAgree(broker), RetriesServed,
         NEW c \in Component, RegisterRetry(c)
  PROVE  PortsAgree(broker')
<1> DEFINE s == held[c].service
           b == IF OwnedTemporary(c, s) THEN RetryPorts(broker, s) ELSE broker
<1>1. s \in Service
  BY Consumes, RequestFields DEF RegisterRetry
<1>2. PICK D \in Hangups({c}) : Finish(b, D)
  BY DEF RegisterRetry
<1>3. D \in SUBSET Open
  BY HangupsOpen
<1>4. Apart(broker)
  BY DEF IInv, Apart
<1>5. OwnedTemporary(c, s) =>
        /\ Known(broker.temporary, s)
        /\ Len(broker.temporary[s].ports) <=
             Len(broker.available) + Len(Returned(broker, broker.temporary[s].ports))
  BY DEF RegisterRetry, RetriesServed, OwnedTemporary, Known
<1> HIDE DEF s
<1>6. Apart(b)
  <2>1. CASE OwnedTemporary(c, s)
    <3> DEFINE d == RetryPorts(broker, s)
    <3>1. Good(d)
      BY <1>1, <1>4, <1>5, <2>1, RetryGood DEF Apart
    <3>2. PortsAgree(d)
      BY <1>1, <1>4, <1>5, <2>1, RetryPortsAgree DEF Apart
    <3> QED BY <2>1, <3>1, <3>2 DEF Apart
  <2>2. CASE ~OwnedTemporary(c, s)
    BY <1>4, <2>2
  <2> QED BY <2>1, <2>2
<1> HIDE DEF b
<1> QED BY <1>2, <1>3, <1>4, <1>6, FinishApart

(* The answers to those who wait change no ports.                          *)
LEMMA AnswerPendingApart ==
  ASSUME NEW b, Apart(b), NEW s \in Service, NEW O
  PROVE  Apart(AnswerPending(b, s, O))
<1> DEFINE d == AnswerPending(b, s, O)
<1>1. Good(d) /\ SameServices(b, d)
  BY AnswerPendingMaps DEF Apart
<1>2. SamePools(b, d)
  BY DEF Apart, Good, Tables, AnswerPending, SamePools
<1> HIDE DEF d
<1>3. d \in Tables
  BY <1>1 DEF Good
<1>4. Apart(d)
  BY <1>1, <1>2, <1>3, QuietApart
<1> QED BY <1>4 DEF d

(* With SZG_SUCCESS, also when the component is lost in the answer         *)
(* (szgserver.cpp:1573-1606).                                              *)
LEMMA RegisterSuccessApart ==
  ASSUME IInv, PortsAgree(broker), NEW c \in Component, RegisterSuccess(c)
  PROVE  PortsAgree(broker')
<1> DEFINE s == held[c].service
           b == Confirmed(c, s)
<1>1. s \in Service
  BY Consumes, RequestFields DEF RegisterSuccess
<1>2. \/ Finish(AnswerPending(b, s, Open), {})
      \/ \E D \in Hangups({c}) :
           broker' = AnswerPending(RemoveComponent(b, c, Open \ D),
                                   s, Open \ D)
      \/ UNCHANGED broker
  BY DEF RegisterSuccess, Confirmed
<1> HIDE DEF s
<1>3. Apart(broker) /\ {} \in SUBSET Open
  BY DEF IInv, Apart
<1>4. Apart(b)
  <2>1. Good(b)
    BY <1>1, ConfirmedGood
  <2>2. PortsAgree(b)
    BY <1>1, <1>3, ConfirmPortsAgree DEF Confirmed, Apart, OwnedTemporary, Known
  <2> QED BY <2>1, <2>2 DEF Apart
<1> HIDE DEF b
<1>5. CASE Finish(AnswerPending(b, s, Open), {})
  <2>1. Apart(AnswerPending(b, s, Open))
    BY <1>1, <1>4, AnswerPendingApart
  <2> QED BY <1>3, <1>5, <2>1, FinishApart
<1>6. ASSUME NEW D \in Hangups({c}),
             broker' = AnswerPending(RemoveComponent(b, c, Open \ D),
                                     s, Open \ D)
      PROVE  PortsAgree(broker')
  <2> DEFINE e == RemoveComponent(b, c, Open \ D)
  <2>1. Apart(e)
    BY <1>4, RemoveComponentGood, RemovePortsAgree DEF Apart
  <2> HIDE DEF e
  <2>2. Apart(AnswerPending(e, s, Open \ D))
    BY <1>1, <2>1, AnswerPendingApart
  <2>3. Apart(broker')
    BY <1>6, <2>2 DEF e
  <2> QED BY <2>3 DEF Apart
<1> QED BY <1>2, <1>3, <1>5, <1>6 DEF Apart

(* A request that is written down changes no ports.                        *)
LEMMA NotedApart ==
  ASSUME NEW b, Apart(b), NEW T \in SUBSET Ticket, NEW W \in SUBSET Waiting
  PROVE  /\ Apart([b EXCEPT !.served = @ \cup T])
         /\ Apart([b EXCEPT !.released = @ \cup T])
         /\ Apart([b EXCEPT !.declined = @ \cup T])
         /\ Apart([b EXCEPT !.ignored = @ \cup T])
         /\ Apart([b EXCEPT !.pending = @ \cup W])
<1>1. b \in Tables
  BY DEF Apart, Good
<1>2. ASSUME NEW d \in Tables, SamePools(b, d), SameServices(b, d)
      PROVE  Apart(d)
  BY <1>2, QuietApart
<1>3. Apart([b EXCEPT !.served = @ \cup T])
  <2> DEFINE d == [b EXCEPT !.served = @ \cup T]
  <2>1. d \in Tables /\ SamePools(b, d) /\ SameServices(b, d)
    BY <1>1 DEF Tables, SamePools, SameServices
  <2> QED BY <1>2, <2>1
<1>4. Apart([b EXCEPT !.released = @ \cup T])
  <2> DEFINE d == [b EXCEPT !.released = @ \cup T]
  <2>1. d \in Tables /\ SamePools(b, d) /\ SameServices(b, d)
    BY <1>1 DEF Tables, SamePools, SameServices
  <2> QED BY <1>2, <2>1
<1>5. Apart([b EXCEPT !.declined = @ \cup T])
  <2> DEFINE d == [b EXCEPT !.declined = @ \cup T]
  <2>1. d \in Tables /\ SamePools(b, d) /\ SameServices(b, d)
    BY <1>1 DEF Tables, SamePools, SameServices
  <2> QED BY <1>2, <2>1
<1>6. Apart([b EXCEPT !.ignored = @ \cup T])
  <2> DEFINE d == [b EXCEPT !.ignored = @ \cup T]
  <2>1. d \in Tables /\ SamePools(b, d) /\ SameServices(b, d)
    BY <1>1 DEF Tables, SamePools, SameServices
  <2> QED BY <1>2, <2>1
<1>7. Apart([b EXCEPT !.pending = @ \cup W])
  <2> DEFINE d == [b EXCEPT !.pending = @ \cup W]
  <2>1. d \in Tables /\ SamePools(b, d) /\ SameServices(b, d)
    BY <1>1 DEF Tables, SamePools, SameServices
  <2> QED BY <1>2, <2>1
<1> QED BY <1>3, <1>4, <1>5, <1>6, <1>7

(* requestServiceCallback takes no ports.                                  *)
LEMMA RequestServiceApart ==
  ASSUME IInv, PortsAgree(broker), NEW c \in Component, RequestService(c)
  PROVE  PortsAgree(broker')
<1> DEFINE r == held[c]
           t == [comp |-> c, match |-> r.match]
           w == [ticket |-> t, service |-> r.service, net |-> r.net]
<1>1. r \in Request /\ r.kind = "requestService"
  BY Consumes DEF RequestService
<1>2. {t} \in SUBSET Ticket /\ {w} \in SUBSET Waiting
  BY <1>1, RequestFields DEF Ticket, Waiting
<1>3. \/ Finish([broker EXCEPT !.pending = @ \cup {w}], {})
      \/ Finish([broker EXCEPT !.declined = @ \cup {t}], {})
      \/ \E D \in Hangups({c}) :
           Finish([broker EXCEPT !.served =
                     @ \cup {u \in {t} : c \in Open \ D}], D)
  BY DEF RequestService
<1> HIDE DEF r, t, w
<1>4. Apart(broker) /\ {} \in SUBSET Open
  BY DEF IInv, Apart
<1>5. CASE Finish([broker EXCEPT !.pending = @ \cup {w}], {})
  <2>1. Apart([broker EXCEPT !.pending = @ \cup {w}])
    BY <1>2, <1>4, NotedApart
  <2> QED BY <1>4, <1>5, <2>1, FinishApart
<1>6. CASE Finish([broker EXCEPT !.declined = @ \cup {t}], {})
  <2>1. Apart([broker EXCEPT !.declined = @ \cup {t}])
    BY <1>2, <1>4, NotedApart
  <2> QED BY <1>4, <1>6, <2>1, FinishApart
<1>7. ASSUME NEW D \in Hangups({c}),
             Finish([broker EXCEPT !.served =
                       @ \cup {u \in {t} : c \in Open \ D}], D)
      PROVE  PortsAgree(broker')
  <2> DEFINE T == {u \in {t} : c \in Open \ D}
  <2>1. T \in SUBSET Ticket /\ {} \in SUBSET Waiting /\ D \in SUBSET Open
    BY <1>2, HangupsOpen
  <2>2. Finish([broker EXCEPT !.served = @ \cup T], D)
    BY <1>7
  <2> HIDE DEF T
  <2>3. Apart([broker EXCEPT !.served = @ \cup T])
    BY <1>4, <2>1, NotedApart
  <2> QED BY <1>4, <2>1, <2>2, <2>3, FinishApart
<1> QED BY <1>3, <1>5, <1>6, <1>7

(* serviceReleaseCallback takes none either.                               *)
LEMMA ServiceReleaseApart ==
  ASSUME IInv, PortsAgree(broker), NEW c \in Component, ServiceRelease(c)
  PROVE  PortsAgree(broker')
<1> DEFINE s == held[c].service
           t == [comp |-> c, match |-> held[c].match]
<1>1. s \in Service /\ held[c].match \in 1..MaxMatch
  BY Consumes, RequestFields DEF ServiceRelease
<1>2. t \in Ticket
  BY <1>1 DEF Ticket
<1>3. \/ /\ broker.used[s] # NoOffer
         /\ Finish(RegisterReleaseNotification(broker, s, t), {})
      \/ \E D \in Hangups({c}) :
           Finish([broker EXCEPT !.released =
                     @ \cup {u \in {t} : c \in Open \ D}], D)
      \/ Finish([broker EXCEPT !.ignored = @ \cup {t}], {})
  BY DEF ServiceRelease
<1> HIDE DEF s, t
<1>4. /\ Apart(broker) /\ {} \in SUBSET Open /\ {t} \in SUBSET Ticket
      /\ {} \in SUBSET Waiting
  BY <1>2 DEF IInv, Apart
<1>5. CASE /\ broker.used[s] # NoOffer
           /\ Finish(RegisterReleaseNotification(broker, s, t), {})
  <2> DEFINE d == RegisterReleaseNotification(broker, s, t)
             p == [broker.used[s] EXCEPT !.notes = @ \cup {t}]
  <2>1. /\ Good(d) /\ p # NoOffer
        /\ d.used = [broker.used EXCEPT ![s] = p]
    BY <1>1, <1>2, <1>4, <1>5, RegisterReleaseGood DEF Apart, Known
  <2>2. p.comp = broker.used[s].comp /\ p.ports = broker.used[s].ports
    <3>1. broker.used[s] \in Offer
      BY <1>1, <1>4, <1>5, OfferFields DEF Apart, Good, Tables
    <3> QED BY <3>1 DEF Offer
  <2>3. SamePools(broker, d) /\ d.temporary = broker.temporary
    BY <1>4 DEF Apart, Good, Tables, RegisterReleaseNotification, SamePools
  <2>4. Finish(d, {})
    BY <1>5
  <2> HIDE DEF d, p
  <2>5. \A x \in Service : d.used[x] = IF x = s THEN p ELSE broker.used[x]
    BY <1>4, <2>1 DEF Apart, Good, Tables
  <2>6. /\ SameOffers(broker.temporary, d.temporary)
        /\ SameOffers(broker.used, d.used)
    BY <1>5, <2>1, <2>2, <2>3, <2>5 DEF SameOffers, Known
  <2>7. Apart(d)
    BY <1>4, <2>1, <2>3, <2>6, SamePorts DEF Apart
  <2> QED BY <1>4, <2>4, <2>7, FinishApart
<1>6. ASSUME NEW D \in Hangups({c}),
             Finish([broker EXCEPT !.released =
                       @ \cup {u \in {t} : c \in Open \ D}], D)
      PROVE  PortsAgree(broker')
  <2> DEFINE T == {u \in {t} : c \in Open \ D}
  <2>1. T \in SUBSET Ticket /\ D \in SUBSET Open
    BY <1>2, HangupsOpen
  <2>2. Finish([broker EXCEPT !.released = @ \cup T], D)
    BY <1>6
  <2> HIDE DEF T
  <2>3. Apart([broker EXCEPT !.released = @ \cup T])
    BY <1>4, <2>1, NotedApart
  <2> QED BY <1>4, <2>1, <2>2, <2>3, FinishApart
<1>7. CASE Finish([broker EXCEPT !.ignored = @ \cup {t}], {})
  <2>1. Apart([broker EXCEPT !.ignored = @ \cup {t}])
    BY <1>4, NotedApart
  <2> QED BY <1>4, <1>7, <2>1, FinishApart
<1> QED BY <1>3, <1>5, <1>6, <1>7


PortsApart == PortsAgree(broker)

(* Every step keeps the ports apart, if the retries find enough of them.   *)
LEMMA NextPorts ==
  IInv /\ PortsApart /\ RetriesServed /\ [Next]_vars => PortsApart'
<1> SUFFICES ASSUME IInv, PortsAgree(broker), RetriesServed, [Next]_vars
             PROVE  PortsAgree(broker')
  BY DEF PortsApart
<1>0. Apart(broker)
  BY DEF IInv, Apart
<1>1. ASSUME NEW c \in Component, Handle(c) PROVE PortsAgree(broker')
  <2>1. CASE Kill(c)
    <3> DEFINE D == {held[c].target} \cap Open
    <3>1. Finish(broker, D) /\ D \in SUBSET Open
      BY <2>1 DEF Kill
    <3> HIDE DEF D
    <3> QED BY <1>0, <3>1, FinishApart
  <2> QED BY <1>1, <2>1, RegisterTryApart, RegisterRetryApart,
             RegisterSuccessApart, RequestServiceApart, ServiceReleaseApart
          DEF Handle
<1>2. ASSUME NEW c \in Component, Disconnect(c) PROVE PortsAgree(broker')
  <2>1. {c} \in SUBSET Open /\ Finish(broker, {c})
    BY <1>2 DEF Disconnect, ReadFails, WriteFails, Broken, Open
  <2> QED BY <1>0, <2>1, FinishApart
<1>3. ASSUME NEW c \in Component, ClientStep(c) PROVE PortsAgree(broker')
  <2>1. UNCHANGED broker
    BY <1>3 DEF ClientStep, SendRequest, servicesVars
  <2> QED BY <2>1
<1>4. CASE UNCHANGED vars
  BY <1>4 DEF vars
<1> QED BY <1>1, <1>2, <1>3, <1>4 DEF Next

(* A computer whose clients are all configured with the same block of      *)
(* ports: what a service gives back returns to the pool, so that a retry   *)
(* finds as many ports as the service had                                  *)
(* (arPhleetConnectionBroker.cpp:165-184).                                 *)
OneBlock == \A k, l \in Block : k = l

LEMMA OneBlockServes ==
  ASSUME OneBlock, IInv, PortsAgree(broker)
  PROVE  RetriesServed
<1> SUFFICES ASSUME NEW c \in Component, Consuming(c, {"SZG_RETRY"}),
                    OwnedTemporary(c, held[c].service)
             PROVE  LET q == broker.temporary[held[c].service].ports
                    IN Len(q) <= Len(broker.available) + Len(Returned(broker, q))
  BY DEF RetriesServed
<1> DEFINE s == held[c].service
           o == broker.temporary[s]
           q == o.ports
<1>1. s \in Service
  BY RequestFields DEF IInv, ConnTypeOK, Consuming
<1>2. /\ o \in Offers /\ o # NoOffer /\ broker.block \in Block
      /\ broker.available \in Seq(Port)
  BY <1>1 DEF IInv, Good, Tables, OwnedTemporary, Known, PortsAgree, ListsApart
<1> HIDE DEF o
<1>3. q \in Seq(Port)
  BY <1>2, OfferFields
<1>4. Port = PortsOf(broker.block)
  BY <1>2 DEF OneBlock, Port
<1>5. Members(q) \subseteq PortsOf(broker.block)
  BY <1>3, <1>4, MembersIn
<1>6. Len(Returned(broker, q)) = Len(q)
  BY <1>3, <1>5, ReturnedMembers
<1>7. Len(broker.available) \in Nat /\ Len(q) \in Nat
  BY <1>2, <1>3
<1> HIDE DEF q
<1>8. Len(q) <= Len(broker.available) + Len(Returned(broker, q))
  BY <1>6, <1>7
<1> QED BY <1>8 DEF q, o

(* What the invariant says of a port is what the property says of it.      *)
LEMMA ApartInOnePlace ==
  ASSUME IInv, PortsAgree(broker)
  PROVE  PortsInOnePlace
<1> DEFINE T == {[service |-> s, ports |-> broker.temporary[s].ports] :
                   s \in {x \in Service : broker.temporary[x] # NoOffer}}
           U == {[service |-> s, ports |-> broker.used[s].ports] :
                   s \in {x \in Service : broker.used[x] # NoOffer}}
<1>1. AllOffers = T \cup U
  BY DEF AllOffers
<1>2. \A o \in T : \E s \in Service :
        /\ Known(broker.temporary, s) /\ o.ports = broker.temporary[s].ports
        /\ o = [service |-> s, ports |-> broker.temporary[s].ports]
        /\ \A p \in Members(o.ports) : Has(broker.temporary, s, p)
  BY DEF Known, Has
<1>3. \A o \in U : \E s \in Service :
        /\ Known(broker.used, s) /\ o.ports = broker.used[s].ports
        /\ o = [service |-> s, ports |-> broker.used[s].ports]
        /\ \A p \in Members(o.ports) : Has(broker.used, s, p)
  BY DEF Known, Has
<1>4. \A p : \A s \in Service :
        Has(broker.temporary, s, p) \/ Has(broker.used, s, p) => p \in Port
  <2> SUFFICES ASSUME NEW p, NEW s \in Service,
                      Has(broker.temporary, s, p) \/ Has(broker.used, s, p)
               PROVE  p \in Port
    OBVIOUS
  <2>1. ASSUME NEW o \in Offers, o # NoOffer, p \in Members(o.ports)
        PROVE  p \in Port
    BY <2>1, OfferFields, MembersIn
  <2> QED BY <2>1 DEF Has, Known, IInv, Good, Tables
<1>5. \A p : \A s \in Service :
        /\ Has(broker.temporary, s, p) => \E o \in T : p \in Members(o.ports)
        /\ Has(broker.used, s, p) => \E o \in U : p \in Members(o.ports)
  <2> SUFFICES ASSUME NEW s \in Service, NEW p
               PROVE  /\ Has(broker.temporary, s, p) =>
                           \E o \in T : p \in Members(o.ports)
                      /\ Has(broker.used, s, p) =>
                           \E o \in U : p \in Members(o.ports)
    OBVIOUS
  <2> DEFINE x == [service |-> s, ports |-> broker.temporary[s].ports]
             y == [service |-> s, ports |-> broker.used[s].ports]
  <2>1. Has(broker.temporary, s, p) => x \in T /\ p \in Members(x.ports)
    BY DEF Has, Known
  <2>2. Has(broker.used, s, p) => y \in U /\ p \in Members(y.ports)
    BY DEF Has, Known
  <2> HIDE DEF x, y, T, U
  <2> QED BY <2>1, <2>2
<1> HIDE DEF T, U
<1>6. ASSUME NEW o \in AllOffers, NEW r \in AllOffers,
             Members(o.ports) \cap Members(r.ports) # {}
      PROVE  o = r
  <2>1. PICK p : p \in Members(o.ports) /\ p \in Members(r.ports)
    BY <1>6
  <2>2. p \in Port
    BY <1>1, <1>2, <1>3, <1>4, <2>1
  <2>3. PortAgrees(broker, p)
    BY <2>2 DEF PortsAgree
  <2>4. CASE o \in T /\ r \in T
    BY <1>2, <2>1, <2>3, <2>4 DEF PortAgrees
  <2>5. CASE o \in U /\ r \in U
    BY <1>3, <2>1, <2>3, <2>5 DEF PortAgrees
  <2>6. CASE (o \in T /\ r \in U) \/ (o \in U /\ r \in T)
    BY <1>2, <1>3, <2>1, <2>3, <2>6 DEF PortAgrees
  <2> QED BY <1>1, <2>4, <2>5, <2>6
<1>7. ASSUME NEW o \in AllOffers
      PROVE  /\ \A i, j \in DOMAIN o.ports : o.ports[i] = o.ports[j] => i = j
             /\ Members(o.ports) \cap Members(broker.available) = {}
  <2>1. NoRepeat(o.ports)
    BY <1>1, <1>2, <1>3 DEF PortsAgree, ListsApart
  <2>2. ASSUME NEW p \in Members(o.ports), p \in Members(broker.available)
        PROVE  FALSE
    <3>1. \E s \in Service : Has(broker.temporary, s, p) \/ Has(broker.used, s, p)
      BY <1>1, <1>2, <1>3
    <3>2. PortAgrees(broker, p)
      BY <1>4, <3>1 DEF PortsAgree
    <3> QED BY <2>2, <3>1, <3>2 DEF PortAgrees
  <2> QED BY <2>1, <2>2 DEF NoRepeat
<1>8. ASSUME NEW p \in PortsOf(broker.block)
      PROVE  \/ p \in Members(broker.available) \cup broker.leaked
             \/ \E o \in AllOffers : p \in Members(o.ports)
  <2>1. broker.block \in Block \cup {NoBlock} /\ PortsOf(NoBlock) = {}
    BY DEF IInv, Good, Tables, PortsOf, NoBlock
  <2>2. p \in Port
    BY <2>1 DEF Port
  <2>3. PortAgrees(broker, p)
    BY <2>2 DEF PortsAgree
  <2> QED BY <1>1, <1>5, <2>3 DEF PortAgrees
<1>9. NoRepeat(broker.available)
  BY DEF PortsAgree, ListsApart
<1> QED BY <1>6, <1>7, <1>8, <1>9 DEF PortsInOnePlace, NoRepeat

(* No port is offered by two services, twice by one, or offered and        *)
(* available, and none of the block is lost but by a request that found    *)
(* too few: as long as every retry finds as many ports as its service had. *)
(* Without that it is not so                                               *)
(* (arPhleetConnectionBroker.cpp:87-120, 165-184, 224-257, 631-654).       *)
THEOREM PortsHeldApart == Spec /\ []RetriesServed => []PortsInOnePlace
<1>1. Init => PortsApart
  BY InitPorts DEF PortsApart
<1>2. IInv /\ PortsApart => PortsInOnePlace
  BY ApartInOnePlace DEF PortsApart
<1> QED BY <1>1, <1>2, NextPorts, Invariance, PTL DEF Spec

(* When all clients of the computer are configured with one block, every   *)
(* retry does find as many, and the ports are apart in every reachable     *)
(* state.                                                                  *)
THEOREM PortsOfOneBlock ==
  ASSUME OneBlock
  PROVE  Spec => []PortsInOnePlace
<1>1. Init => PortsApart
  BY InitPorts DEF PortsApart
<1>2. IInv /\ PortsApart => PortsInOnePlace
  BY ApartInOnePlace DEF PortsApart
<1>3. IInv /\ PortsApart => RetriesServed
  BY OneBlockServes DEF PortsApart
<1> QED BY <1>1, <1>2, <1>3, NextPorts, Invariance, PTL DEF Spec

(* A step that is the retry of c for s, after which s is still there.      *)
Retried(c, s) ==
  /\ Consuming(c, {"SZG_RETRY"}) /\ held[c].service = s
  /\ held'[c] = NoRequest
  /\ OwnedTemporary(c, s)
  /\ Len(broker.available) >= Len(broker.temporary[s].ports)
  /\ broker'.temporary[s] # NoOffer /\ server' = "running"

(* The record of a component is taken by its own handler.                  *)
LEMMA OnlyOwnHandler ==
  ASSUME IInv, Next, NEW c \in Component, held[c] # NoRequest,
         held[c].kind = "SZG_RETRY", held'[c] = NoRequest
  PROVE  RegisterRetry(c)
<1>1. held \in [Component -> Request \cup {NoRequest}]
  BY DEF IInv, ConnTypeOK
<1>2. PICK d \in Component : ClientStep(d) \/ Handle(d) \/ Disconnect(d)
  BY DEF Next
<1>3. ~Disconnect(d)
  BY DEF Disconnect
<1>4. ~ClientStep(d)
  <2>1. ASSUME NEW r \in Request, SendRequest(d, r) PROVE FALSE
    <3>1. held[d] = NoRequest /\ held' = [held EXCEPT ![d] = r]
      BY <2>1 DEF SendRequest, Receive
    <3> QED BY <1>1, <3>1
  <2>2. ASSUME NEW how \in {"down", "lost"}, Leave(d, how) PROVE FALSE
    BY <2>2 DEF Leave
  <2>3. ASSUME Accept(d) PROVE FALSE
    BY <2>3 DEF Accept
  <2> QED BY <2>1, <2>2, <2>3 DEF ClientStep
<1>5. ASSUME NEW K, Consuming(d, K), Consumed(d)
      PROVE  d = c /\ "SZG_RETRY" \in K
  BY <1>1, <1>5 DEF Consuming, Consumed
<1>6. Handle(d)
  BY <1>2, <1>3, <1>4
<1>7. ~RegisterTry(d) /\ ~RegisterSuccess(d)
  <2>1. ~(Consuming(d, {"SZG_TRY"}) /\ Consumed(d))
    BY <1>5
  <2>2. ~(Consuming(d, {"SZG_SUCCESS"}) /\ Consumed(d))
    BY <1>5
  <2> QED BY <2>1, <2>2 DEF RegisterTry, RegisterSuccess
<1>8. ~RequestService(d) /\ ~ServiceRelease(d) /\ ~Kill(d)
  <2>1. ~(Consuming(d, {"requestService"}) /\ Consumed(d))
    BY <1>5
  <2>2. ~(Consuming(d, {"serviceRelease"}) /\ Consumed(d))
    BY <1>5
  <2>3. ~(Consuming(d, {"kill"}) /\ Consumed(d))
    BY <1>5
  <2> QED BY <2>1, <2>2, <2>3 DEF RequestService, ServiceRelease, Kill
<1>9. RegisterRetry(d)
  BY <1>6, <1>7, <1>8 DEF Handle
<1>10. d = c
  BY <1>5, <1>9 DEF RegisterRetry
<1> QED BY <1>9, <1>10

(* The retry of a service that is there afterwards has moved it on to      *)
(* other ports, if there were enough: the removal of its owner would have  *)
(* taken the service along.                                                *)
LEMMA RetryMoves ==
  ASSUME IInv, PortsAgree(broker), RetriesServed,
         NEW c \in Component, NEW s \in Service, RegisterRetry(c),
         Retried(c, s)
  PROVE  Members(broker.temporary[s].ports)
           \cap Members(broker'.temporary[s].ports) = {}
<1> DEFINE b == RetryPorts(broker, s)
<1>1. /\ Known(broker.temporary, s) /\ Good(broker)
      /\ Len(broker.temporary[s].ports) <=
           Len(broker.available) + Len(Returned(broker, broker.temporary[s].ports))
  BY DEF IInv, Retried, RetriesServed, OwnedTemporary, Known
<1>2. Members(broker.temporary[s].ports) \cap Members(b.temporary[s].ports) = {}
  BY <1>1, RetryPortsAgree DEF Retried
<1>3. PICK D \in Hangups({c}) : Finish(b, D)
  BY DEF RegisterRetry, Retried
<1>4. Good(b)
  BY <1>1, RetryGood
<1> HIDE DEF b
<1>5. ASSUME NEW d \in D, broker' = RemoveComponent(b, d, Open \ D)
      PROVE  broker'.temporary[s] = b.temporary[s]
  <2>1. d \in Component
    BY HangupsOpen DEF Open
  <2>2. Removed(b, broker', d, Open \ D)
    BY <1>4, <1>5, <2>1, RemoveComponentMaps
  <2> QED BY <2>2 DEF Removed, Retried
<1>6. \/ broker'.temporary[s] = b.temporary[s]
      \/ server' = "undefined"
  BY <1>3, <1>5 DEF Finish
<1> QED BY <1>2, <1>6 DEF Retried

(* A component that asks for other ports for its service, and stays, gets  *)
(* none of the old ones if there are enough of others: the first of the    *)
(* pool take their place, and none of the old ones is among those          *)
(* (arPhleetConnectionBroker.cpp:165-184).                                 *)
THEOREM RetriesMoveOn == Spec /\ []RetriesServed => RetryMovesOn
<1>1. Init => PortsApart
  BY InitPorts DEF PortsApart
<1>2. IInv /\ PortsApart /\ RetriesServed /\ [Next]_vars =>
        [\A c \in Component, s \in Service :
           (/\ Consuming(c, {"SZG_RETRY"}) /\ held[c].service = s
            /\ held'[c] = NoRequest
            /\ OwnedTemporary(c, s)
            /\ Len(broker.available) >= Len(broker.temporary[s].ports)
            /\ broker'.temporary[s] # NoOffer /\ server' = "running")
           => Members(broker.temporary[s].ports)
                \cap Members(broker'.temporary[s].ports) = {}]_vars
  <2> SUFFICES ASSUME IInv, PortsAgree(broker), RetriesServed, Next,
                      NEW c \in Component, NEW s \in Service,
                      Retried(c, s)
               PROVE  Members(broker.temporary[s].ports)
                        \cap Members(broker'.temporary[s].ports) = {}
    BY DEF PortsApart, Retried
  <2>1. RegisterRetry(c)
    BY OnlyOwnHandler DEF Retried, Consuming
  <2> QED BY <2>1, RetryMoves
<1> QED BY <1>1, <1>2, NextPorts, Invariance, PTL DEF Spec, RetryMovesOn
===========================================================================
