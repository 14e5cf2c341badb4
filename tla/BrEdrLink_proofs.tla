------------------------- MODULE BrEdrLink_proofs -------------------------
(* Machine-checked proofs about BrEdrLink, for any set of controllers, any *)
(* number of handles and of places for links, and any host behaviour.      *)
EXTENDS BrEdrLink, FiniteSetTheorems, TLAPS

-----------------------------------------------------------------------------
(* The tables of a controller: an ACL table, links and a page.             *)

AclTable == [Handles -> Acl \cup {None}]
Links == [Slots -> Ctrl \cup {None}]

Agree(acl, lm, page) ==
  /\ \A p \in Ctrl : (\E h \in Handles : acl[h] # None /\ acl[h].address = p) <=> (\E i \in Slots : lm[i] = p)
  /\ \A g, h \in Handles : acl[g] # None /\ acl[h] # None /\ acl[g].address = acl[h].address => g = h
  /\ \A i, j \in Slots : lm[i] # None /\ lm[i] = lm[j] => i = j
  /\ page # None => \A h \in Handles : acl[h] # None => acl[h].address # page.bd_addr

\* Queues of tasks put one after the other are a queue of tasks.
LEMMA ConcatTasks ==
  ASSUME NEW s \in Seq(Task), NEW t \in Seq(Task)
  PROVE  s \o t \in Seq(Task)
  OBVIOUS

\* A new connection at a free handle, with a link at a free place, keeps the tables
\* in agreement when its peer was not connected and is no longer paged.
LEMMA AgreeAdd ==
  ASSUME NEW acl \in AclTable, NEW lm \in Links, NEW page, Agree(acl, lm, page),
         NEW h \in Handles, acl[h] = None, NEW i \in Slots, lm[i] = None,
         NEW a \in Acl, \A g \in Handles : acl[g] # None => acl[g].address # a.address,
         NEW q, q = None \/ (q = page /\ q.bd_addr # a.address)
  PROVE  Agree([acl EXCEPT ![h] = a], [lm EXCEPT ![i] = a.address], q)
<1> DEFINE b == [acl EXCEPT ![h] = a]
           l == [lm EXCEPT ![i] = a.address]
<1>1. /\ \A g \in Handles : b[g] = IF g = h THEN a ELSE acl[g]
      /\ \A j \in Slots : l[j] = IF j = i THEN a.address ELSE lm[j]
  BY DEF AclTable, Links
<1>2. a # None /\ a.address \in Ctrl /\ a.address # None
  BY NoneAssumption DEF Acl
<1> HIDE DEF b, l
<1>3. \A p \in Ctrl : (\E g \in Handles : b[g] # None /\ b[g].address = p) <=> (\E j \in Slots : l[j] = p)
  <2> SUFFICES ASSUME NEW p \in Ctrl
               PROVE  (\E g \in Handles : b[g] # None /\ b[g].address = p) <=> (\E j \in Slots : l[j] = p)
    OBVIOUS
  <2>1. CASE p = a.address
    BY <1>1, <1>2, <2>1
  <2>2. CASE p # a.address
    <3>1. (\E g \in Handles : b[g] # None /\ b[g].address = p)
            <=> (\E g \in Handles : acl[g] # None /\ acl[g].address = p)
      BY <1>1, <2>2
    <3>2. (\E j \in Slots : l[j] = p) <=> (\E j \in Slots : lm[j] = p)
      BY <1>1, <2>2, NoneAssumption
    <3> QED
      BY <3>1, <3>2 DEF Agree
  <2> QED
    BY <2>1, <2>2
<1>4. \A g, k \in Handles : b[g] # None /\ b[k] # None /\ b[g].address = b[k].address => g = k
  BY <1>1 DEF Agree
<1>5. \A j, k \in Slots : l[j] # None /\ l[j] = l[k] => j = k
  <2>1. \A j \in Slots : lm[j] # a.address
    BY <1>2 DEF Agree
  <2> QED
    BY <1>1, <2>1 DEF Agree
<1>6. q # None => \A g \in Handles : b[g] # None => b[g].address # q.bd_addr
  BY <1>1 DEF Agree
<1>7. Agree(b, l, q)
  BY <1>3, <1>4, <1>5, <1>6 DEF Agree
<1> QED
  BY <1>7 DEF b, l

\* Removing a connection and the link of its peer keeps the tables in agreement.
LEMMA AgreeRemove ==
  ASSUME NEW acl \in AclTable, NEW lm \in Links, NEW page, Agree(acl, lm, page),
         NEW h \in Handles, acl[h] # None, NEW i \in Slots, lm[i] = acl[h].address
  PROVE  Agree([acl EXCEPT ![h] = None], [lm EXCEPT ![i] = None], page)
<1> DEFINE b == [acl EXCEPT ![h] = None]
           l == [lm EXCEPT ![i] = None]
<1>1. /\ \A g \in Handles : b[g] = IF g = h THEN None ELSE acl[g]
      /\ \A j \in Slots : l[j] = IF j = i THEN None ELSE lm[j]
  BY DEF AclTable, Links
<1>2. acl[h].address \in Ctrl /\ acl[h].address # None
  BY NoneAssumption DEF AclTable, Acl
<1> HIDE DEF b, l
<1>3. \A p \in Ctrl : (\E g \in Handles : b[g] # None /\ b[g].address = p) <=> (\E j \in Slots : l[j] = p)
  <2> SUFFICES ASSUME NEW p \in Ctrl
               PROVE  (\E g \in Handles : b[g] # None /\ b[g].address = p) <=> (\E j \in Slots : l[j] = p)
    OBVIOUS
  <2>1. CASE p = acl[h].address
    <3>1. ~ \E g \in Handles : b[g] # None /\ b[g].address = p
      BY <1>1, <2>1 DEF Agree
    <3>2. ~ \E j \in Slots : l[j] = p
      BY <1>1, <1>2, <2>1 DEF Agree
    <3> QED
      BY <3>1, <3>2
  <2>2. CASE p # acl[h].address
    <3>1. (\E g \in Handles : b[g] # None /\ b[g].address = p)
            <=> (\E g \in Handles : acl[g] # None /\ acl[g].address = p)
      BY <1>1, <2>2
    <3>2. (\E j \in Slots : l[j] = p) <=> (\E j \in Slots : lm[j] = p)
      BY <1>1, <2>2, NoneAssumption
    <3> QED
      BY <3>1, <3>2 DEF Agree
  <2> QED
    BY <2>1, <2>2
<1>4. \A g, k \in Handles : b[g] # None /\ b[k] # None /\ b[g].address = b[k].address => g = k
  BY <1>1 DEF Agree
<1>5. \A j, k \in Slots : l[j] # None /\ l[j] = l[k] => j = k
  BY <1>1 DEF Agree
<1>6. page # None => \A g \in Handles : b[g] # None => b[g].address # page.bd_addr
  BY <1>1 DEF Agree
<1>7. Agree(b, l, page)
  BY <1>3, <1>4, <1>5, <1>6 DEF Agree
<1> QED
  BY <1>7 DEF b, l

\* Changing a connection but not its peer keeps the tables in agreement.
LEMMA AgreeChange ==
  ASSUME NEW acl \in AclTable, NEW lm \in Links, NEW page, Agree(acl, lm, page),
         NEW h \in Handles, acl[h] # None, NEW a \in Acl, a.address = acl[h].address
  PROVE  Agree([acl EXCEPT ![h] = a], lm, page)
<1> DEFINE b == [acl EXCEPT ![h] = a]
<1>1. \A g \in Handles : b[g] = IF g = h THEN a ELSE acl[g]
  BY DEF AclTable
<1>2. a # None
  BY NoneAssumption
<1> HIDE DEF b
<1>3. \A g \in Handles : (b[g] # None <=> acl[g] # None) /\ (acl[g] # None => b[g].address = acl[g].address)
  BY <1>1, <1>2
<1>4. Agree(b, lm, page)
  BY <1>3 DEF Agree
<1> QED
  BY <1>4 DEF b

-----------------------------------------------------------------------------
(* One controller.  Good is its invariant; Grown says that a handler takes *)
(* no task away.                                                           *)

Good(s) == s \in Controller /\ (~s.failed => Agree(s.acl, s.lm_, s.page_))
Grown(t, s) == Len(t.tasks) >= Len(s.tasks)

\* t has the connections of s, and pages nobody that s does not.
Same(t, s) ==
  /\ t \in Controller
  /\ t.acl = s.acl /\ t.lm_ = s.lm_ /\ t.failed = s.failed
  /\ t.page_ = s.page_ \/ t.page_ = None

\* Good depends on the tables and the page only.
LEMMA SameGood ==
  ASSUME NEW s, Good(s), NEW t, Same(t, s)
  PROVE  Good(t)
  BY DEF Good, Same, Agree

\* The packets and events that the handlers build are tasks.
LEMMA TaskType ==
  /\ \A type \in PacketType, p \in Ctrl, ok \in BOOLEAN : Packet(type, p, ok) \in Task
  /\ \A type \in EventType, p \in Ctrl, ok \in BOOLEAN, h \in Handles \cup {None} :
       (type = "CONNECTION_COMPLETE" /\ ok => h # None) => Event(type, p, ok, h) \in Task
  BY DEF Packet, Event, Task, PacketType, EventType

\* A list of one or two tasks is a sequence of tasks.
LEMMA OneOrTwo ==
  /\ \A x \in Task : <<x>> \in Seq(Task)
  /\ \A x, y \in Task : <<x, y>> \in Seq(Task)
  OBVIOUS

\* Sending appends tasks and changes nothing else.
LEMMA SendSame ==
  ASSUME NEW s \in Controller, NEW ts \in Seq(Task)
  PROVE  Same(Send(s, ts), s) /\ Grown(Send(s, ts), s) /\ Send(s, ts).page_ = s.page_
<1>1. s.tasks \in Seq(Task)
  BY DEF Controller
<1>2. s.tasks \o ts \in Seq(Task) /\ Len(s.tasks \o ts) = Len(s.tasks) + Len(ts)
  BY <1>1
<1>3. Len(ts) \in Nat /\ Len(s.tasks) \in Nat
  BY <1>1
<1>4. Send(s, ts) \in Controller
  BY <1>2, ZenonT(60) DEF Controller, Send
<1>5. /\ Send(s, ts).tasks = s.tasks \o ts /\ Send(s, ts).acl = s.acl /\ Send(s, ts).lm_ = s.lm_
      /\ Send(s, ts).failed = s.failed /\ Send(s, ts).page_ = s.page_
  BY DEF Controller, Send
<1> QED
  BY <1>2, <1>3, <1>4, <1>5 DEF Same, Grown

\* A connection is added for a peer that has none, at a free handle; q is what
\* becomes of the page.
LEMMA AddConnectionGood ==
  ASSUME NEW s, Good(s), ~s.failed, NEW p \in Ctrl, NEW role \in Role, AclOf(s, p) = {}, ~AclFull(s),
         NEW q \in Page \cup {None}, q = None \/ (q = s.page_ /\ q.bd_addr # p)
  PROVE  /\ Unused(s) \in Handles
         /\ Good([AddConnection(s, p, role) EXCEPT !.page_ = q])
         /\ AddConnection(s, p, role) \in Controller
         /\ AddConnection(s, p, role).tasks = s.tasks
<1> DEFINE h == Unused(s)
           a == [address |-> p, role |-> role, switch |-> s.policy]
           i == Position(s, None)
           t == AddConnection(s, p, role)
<1>1. s \in Controller /\ Agree(s.acl, s.lm_, s.page_)
  BY DEF Good
<1>2. s.acl \in AclTable /\ s.lm_ \in Links
  BY <1>1 DEF Controller, AclTable, Links
<1>3. h \in Handles /\ s.acl[h] = None
  BY DEF AclFull, Used, Unused
<1>4. a \in Acl
  BY <1>1 DEF Controller, Acl
<1>5. [s.acl EXCEPT ![h] = a] \in [Handles -> Acl \cup {None}]
  <2> HIDE DEF h, a
  <2> QED
    BY <1>2, <1>3, <1>4 DEF AclTable
<1>6. CASE SlotsOf(s, None) = {}
  <2>1. t = [s EXCEPT !.failed = TRUE, !.acl = [s.acl EXCEPT ![h] = a]]
    <3> HIDE DEF h, a
    <3>1. t = [[s EXCEPT !.failed = TRUE] EXCEPT !.acl[h] = a]
      BY <1>6 DEF AddConnection, AddLink, h, a
    <3> HIDE DEF t
    <3> QED
      BY <1>1, <3>1 DEF Controller
  <2> HIDE DEF t, h, a
  <2>2. t \in Controller /\ t.tasks = s.tasks /\ t.failed
    BY <1>1, <1>5, <2>1, ZenonT(60) DEF Controller
  <2>3. [t EXCEPT !.page_ = q] \in Controller /\ [t EXCEPT !.page_ = q].failed
    BY <2>2 DEF Controller
  <2>4. Good([t EXCEPT !.page_ = q])
    BY <2>3 DEF Good
  <2> QED
    BY <1>3, <2>2, <2>4 DEF t, h
<1>7. CASE SlotsOf(s, None) # {}
  <2>1. i \in Slots /\ s.lm_[i] = None
    BY <1>7 DEF Position, SlotsOf
  <2>2. t = [s EXCEPT !.lm_ = [s.lm_ EXCEPT ![i] = p], !.acl = [s.acl EXCEPT ![h] = a]]
    <3> HIDE DEF h, a, i
    <3>1. t = [[s EXCEPT !.lm_[i] = p] EXCEPT !.acl[h] = a]
      BY <1>7, ZenonT(60) DEF AddConnection, AddLink, h, a, i
    <3> HIDE DEF t
    <3> QED
      BY <1>1, <3>1 DEF Controller
  <2>3. a.address = p
    OBVIOUS
  <2>4. \A g \in Handles : s.acl[g] # None => s.acl[g].address # a.address
    BY <2>3 DEF AclOf
  <2> HIDE DEF t, h, a, i
  <2>5. [s.lm_ EXCEPT ![i] = p] \in [Slots -> Ctrl \cup {None}]
    BY <1>2, <2>1 DEF Links
  <2>6. t \in Controller /\ t.tasks = s.tasks
    BY <1>1, <1>5, <2>2, <2>5, ZenonT(60) DEF Controller
  <2>7. Agree([s.acl EXCEPT ![h] = a], [s.lm_ EXCEPT ![i] = p], q)
    BY <1>1, <1>2, <1>3, <1>4, <2>1, <2>3, <2>4, AgreeAdd
  <2>8. /\ [t EXCEPT !.page_ = q] \in Controller
        /\ [t EXCEPT !.page_ = q].acl = [s.acl EXCEPT ![h] = a]
        /\ [t EXCEPT !.page_ = q].lm_ = [s.lm_ EXCEPT ![i] = p]
        /\ [t EXCEPT !.page_ = q].page_ = q
    BY <1>1, <2>2, <2>6, ZenonT(60) DEF Controller
  <2>9. Good([t EXCEPT !.page_ = q])
    BY <2>7, <2>8 DEF Good
  <2> QED
    BY <1>3, <2>6, <2>9 DEF t, h
<1> QED
  BY <1>6, <1>7

\* A connection is removed together with its link.
LEMMA RemoveConnectionGood ==
  ASSUME NEW s, Good(s), ~s.failed, NEW h \in Handles, s.acl[h] # None
  PROVE  /\ Good(RemoveConnection(s, h))
         /\ RemoveConnection(s, h).tasks = s.tasks
<1> DEFINE p == s.acl[h].address
           i == Position(s, p)
           t == RemoveConnection(s, h)
           f == ScoOf(s, p) # {}
<1>1. s \in Controller /\ Agree(s.acl, s.lm_, s.page_)
  BY DEF Good
<1>2. s.acl \in AclTable /\ s.lm_ \in Links
  BY <1>1 DEF Controller, AclTable, Links
<1>3. p \in Ctrl
  BY <1>2 DEF AclTable, Acl
<1>4. SlotsOf(s, p) # {}
  BY <1>1, <1>3 DEF Agree, SlotsOf
<1>5. i \in Slots /\ s.lm_[i] = p
  BY <1>4 DEF Position, SlotsOf
<1>6. t = [s EXCEPT !.lm_ = [s.lm_ EXCEPT ![i] = None], !.acl = [s.acl EXCEPT ![h] = None], !.failed = f]
  <2>1. RemoveLink(s, p) = [s EXCEPT !.lm_[i] = None]
    BY <1>4 DEF RemoveLink
  <2>2. t = [[s EXCEPT !.lm_[i] = None] EXCEPT !.acl[h] = None, !.failed = @ \/ f]
    BY <2>1 DEF RemoveConnection
  <2>3. s.failed = FALSE /\ f \in BOOLEAN
    BY <1>1 DEF Controller
  <2> HIDE DEF t, f, i, p
  <2> QED
    BY <1>1, <2>2, <2>3, ZenonT(60) DEF Controller
<1>7. f \in BOOLEAN
  OBVIOUS
<1> HIDE DEF t, f, i
<1>8. /\ [s.lm_ EXCEPT ![i] = None] \in [Slots -> Ctrl \cup {None}]
      /\ [s.acl EXCEPT ![h] = None] \in [Handles -> Acl \cup {None}]
  BY <1>2, <1>5 DEF AclTable, Links
<1>9. Agree([s.acl EXCEPT ![h] = None], [s.lm_ EXCEPT ![i] = None], s.page_)
  BY <1>1, <1>2, <1>5, AgreeRemove
<1>10. t \in Controller
  BY <1>1, <1>6, <1>7, <1>8, ZenonT(60) DEF Controller
<1>11. /\ t.acl = [s.acl EXCEPT ![h] = None] /\ t.lm_ = [s.lm_ EXCEPT ![i] = None]
       /\ t.page_ = s.page_ /\ t.tasks = s.tasks
  BY <1>1, <1>6 DEF Controller
<1>12. Good(t)
  BY <1>9, <1>10, <1>11 DEF Good
<1> QED
  BY <1>11, <1>12 DEF t

\* What a handler has to show.
Fine(t, s) == Good(t) /\ Grown(t, s)

\* A handler that leaves the tables alone is fine.
LEMMA SameFine ==
  ASSUME NEW s, Good(s), NEW t, Same(t, s), Grown(t, s)
  PROVE  Fine(t, s)
  BY SameGood DEF Fine

\* Queueing tasks after a fine handler is fine.
LEMMA FineSend ==
  ASSUME NEW s \in Controller, NEW t, Fine(t, s), NEW ts \in Seq(Task)
  PROVE  Fine(Send(t, ts), s)
<1>1. Same(Send(t, ts), t) /\ Grown(Send(t, ts), t)
  BY SendSame DEF Fine, Good
<1>2. Good(Send(t, ts))
  BY <1>1, SameGood DEF Fine
<1>3. /\ Len(s.tasks) \in Nat /\ Len(t.tasks) \in Nat /\ Len(Send(t, ts).tasks) \in Nat
  BY <1>2 DEF Fine, Good, Controller
<1> QED
  BY <1>1, <1>2, <1>3 DEF Fine, Grown

\* A handler that leaves the queue alone.
LEMMA FineQuiet ==
  ASSUME NEW s \in Controller, NEW t, Good(t), t.tasks = s.tasks
  PROVE  Fine(t, s)
<1>1. Len(s.tasks) \in Nat
  BY DEF Controller
<1> QED
  BY <1>1 DEF Fine, Grown

\* The SCO table is no part of the agreement.
LEMMA ScoSame ==
  ASSUME NEW s \in Controller, NEW p \in Ctrl
  PROVE  /\ \A state \in {"PENDING", "SENT", "OPENED"} :
              ~ScoFull(s) => Same(AddSco(s, p, state), s) /\ AddSco(s, p, state).tasks = s.tasks
         /\ Same(RemoveSco(s, p), s) /\ RemoveSco(s, p).tasks = s.tasks
         /\ ScoOf(s, p) # {} => Same(OpenSco(s, p), s) /\ OpenSco(s, p).tasks = s.tasks
<1>0. s.sco \in [Handles -> Sco \cup {None}]
  BY DEF Controller
<1>1. ASSUME NEW state \in {"PENDING", "SENT", "OPENED"}, ~ScoFull(s)
      PROVE  Same(AddSco(s, p, state), s) /\ AddSco(s, p, state).tasks = s.tasks
  <2> DEFINE h == UnusedSco(s)
             r == [address |-> p, state |-> state]
             table == [s.sco EXCEPT ![h] = r]
  <2>1. h \in Handles /\ r \in Sco
    BY <1>1 DEF UnusedSco, ScoFull, Used, Sco
  <2>2. table \in [Handles -> Sco \cup {None}]
    <3> HIDE DEF h, r
    <3> QED
      BY <1>0, <2>1
  <2>3. AddSco(s, p, state) = [s EXCEPT !.sco = table]
    <3>1. AddSco(s, p, state) = [s EXCEPT !.sco[h] = r]
      BY DEF AddSco
    <3> HIDE DEF h, r
    <3> QED
      BY <3>1 DEF Controller
  <2> HIDE DEF table
  <2> QED
    BY <2>2, <2>3 DEF Controller, Same
<1>2. Same(RemoveSco(s, p), s) /\ RemoveSco(s, p).tasks = s.tasks
  <2>1. CASE ScoOf(s, p) = {}
    BY <2>1 DEF RemoveSco, Same
  <2>2. CASE ScoOf(s, p) # {}
    <3> DEFINE h == GetScoConnectionHandle(s, p)
               table == [s.sco EXCEPT ![h] = None]
    <3>1. h \in Handles
      BY <2>2 DEF GetScoConnectionHandle, ScoOf
    <3>2. RemoveSco(s, p) = [s EXCEPT !.sco[h] = None]
      BY <2>2 DEF RemoveSco
    <3> HIDE DEF h
    <3>3. table \in [Handles -> Sco \cup {None}]
      BY <1>0, <3>1
    <3>4. RemoveSco(s, p) = [s EXCEPT !.sco = table]
      BY <3>2 DEF Controller
    <3> HIDE DEF table
    <3> QED
      BY <3>3, <3>4 DEF Controller, Same
  <2> QED
    BY <2>1, <2>2
<1>3. ASSUME ScoOf(s, p) # {}
      PROVE  Same(OpenSco(s, p), s) /\ OpenSco(s, p).tasks = s.tasks
  <2> DEFINE h == GetScoConnectionHandle(s, p)
             r == [s.sco[h] EXCEPT !.state = "OPENED"]
             table == [s.sco EXCEPT ![h] = r]
  <2>1. h \in Handles /\ s.sco[h] # None
    BY <1>3 DEF GetScoConnectionHandle, ScoOf
  <2>2. OpenSco(s, p) = [s EXCEPT !.sco[h].state = "OPENED"]
    BY DEF OpenSco
  <2> HIDE DEF h
  <2>3. r \in Sco
    BY <1>0, <2>1 DEF Sco
  <2>4. OpenSco(s, p) = [s EXCEPT !.sco = table]
    BY <2>2 DEF Controller
  <2> HIDE DEF r
  <2>5. table \in [Handles -> Sco \cup {None}]
    BY <1>0, <2>1, <2>3
  <2> HIDE DEF table
  <2> QED
    BY <2>4, <2>5 DEF Controller, Same
<1> QED
  BY <1>1, <1>2, <1>3

-----------------------------------------------------------------------------
(* The commands of the host.                                               *)

\* Create Connection pages a peer that is not connected.
LEMMA CreateConnectionFine ==
  ASSUME NEW s, Good(s), ~s.failed, NEW p \in Ctrl, AclOf(s, p) = {}, NEW allow \in BOOLEAN
  PROVE  Fine(CreateConnection(s, p, allow), s)
<1> DEFINE t == CreateConnection(s, p, allow)
           q == [bd_addr |-> p, allow_role_switch |-> allow]
<1>1. s \in Controller /\ Agree(s.acl, s.lm_, s.page_)
  BY DEF Good
<1>2. q \in Page /\ s.awaiting \cup {p} \in SUBSET Ctrl
  BY <1>1 DEF Page, Controller
<1>3. q.bd_addr = p
  OBVIOUS
<1>4. t = [s EXCEPT !.page_ = q, !.awaiting = s.awaiting \cup {p}]
  BY <1>1 DEF CreateConnection, Controller
<1> HIDE DEF t, q
<1>5. t \in Controller
  BY <1>1, <1>2, <1>4, ZenonT(60) DEF Controller
<1>6. t.acl = s.acl /\ t.lm_ = s.lm_ /\ t.page_ = q /\ t.tasks = s.tasks
  BY <1>1, <1>4 DEF Controller
<1>7. Agree(s.acl, s.lm_, q)
  BY <1>1, <1>3 DEF Agree, AclOf
<1>8. Len(s.tasks) \in Nat
  BY <1>1 DEF Controller
<1>9. Fine(t, s)
  BY <1>5, <1>6, <1>7, <1>8 DEF Fine, Good, Grown
<1> QED
  BY <1>9 DEF t

\* Create Connection Cancel ends the page and queues its answer.
LEMMA CreateConnectionCancelFine ==
  ASSUME NEW s, Good(s), NEW p \in Ctrl
  PROVE  Fine(CreateConnectionCancel(s, p), s)
<1> DEFINE ts == <<Event("CONNECTION_COMPLETE", p, FALSE, None)>>
           u == Send(s, ts)
<1>1. ts \in Seq(Task)
  BY TaskType, OneOrTwo, ZenonT(60) DEF EventType
<1> HIDE DEF ts
<1>2. Same(u, s) /\ Grown(u, s)
  BY <1>1, SendSame DEF Good
<1>3. CreateConnectionCancel(s, p) = [u EXCEPT !.page_ = None]
  BY DEF CreateConnectionCancel, ts
<1> HIDE DEF u
<1>4. Same([u EXCEPT !.page_ = None], s) /\ Grown([u EXCEPT !.page_ = None], s)
  BY <1>2 DEF Same, Grown, Controller
<1> QED
  BY <1>3, <1>4, SameFine

\* Accept Connection Request: the peer has no connection yet, and is not paged any more.
LEMMA AcceptConnectionRequestFine ==
  ASSUME NEW s, Good(s), ~s.failed, NEW p \in Ctrl, NEW try \in BOOLEAN, ~AclFull(s)
  PROVE  Fine(AcceptConnectionRequest(s, p, try), s)
<1> DEFINE t == [s EXCEPT !.requests = @ \ {p}]
           role == IF try /\ s.page_scan_.allow_role_switch THEN "CENTRAL" ELSE "PERIPHERAL"
           h == Unused(s)
           ts == <<Event("CONNECTION_COMPLETE", p, TRUE, h), Packet("PAGE_RESPONSE", p, try)>>
           q == IF Pages(s, p) THEN None ELSE s.page_
<1>1. s \in Controller
  BY DEF Good
<1>2. Same(t, s) /\ t.page_ = s.page_ /\ t.tasks = s.tasks /\ t.policy = s.policy
      /\ t.page_scan_ = s.page_scan_ /\ t.awaiting = s.awaiting
  BY <1>1, SMTT(30) DEF Same, Controller
<1>3. CASE AclOf(s, p) # {}
  <2>1. AcceptConnectionRequest(s, p, try) = t
    BY <1>3 DEF AcceptConnectionRequest
  <2>2. Grown(t, s)
    BY <1>1, <1>2 DEF Grown, Controller
  <2> QED
    BY <1>2, <2>1, <2>2, SameFine
<1>4. CASE AclOf(s, p) = {}
  <2>1. Good(t) /\ ~t.failed /\ AclOf(t, p) = {} /\ ~AclFull(t) /\ Unused(t) = h
    BY <1>2, <1>4, SameGood, ZenonT(60) DEF Same, AclOf, AclFull, Used, Named, Unused
  <2>2. role \in Role /\ q \in Page \cup {None} /\ (q = None \/ (q = t.page_ /\ q.bd_addr # p))
    BY <1>1, <1>2 DEF Role, Controller, Pages
  <2> DEFINE v == AddConnection(t, p, role)
             u == Send(v, ts)
             w == [u EXCEPT !.page_ = q, !.page_scan_ = None, !.awaiting = @ \cup {p}]
  <2>3. AcceptConnectionRequest(s, p, try) = w
    <3>1. AcceptConnectionRequest(s, p, try) =
            [u EXCEPT !.page_ = IF Pages(s, p) THEN None ELSE @, !.page_scan_ = None,
                      !.awaiting = @ \cup {p}]
      BY <1>4 DEF AcceptConnectionRequest
    <3>2. u.page_ = s.page_
      <4>1. v \in Controller /\ v.page_ = t.page_
        <5> HIDE DEF role, q, t
        <5>1. v \in Controller
          BY <2>1, <2>2, AddConnectionGood, ZenonT(60)
        <5>2. t \in Controller
          BY <2>1 DEF Good
        <5>3. v.page_ = t.page_
          BY <5>2 DEF AddConnection, AddLink, Controller
        <5> QED
          BY <5>1, <5>3
      <4> HIDE DEF v, ts
      <4>2. u.page_ = v.page_
        BY <4>1 DEF Send, Controller
      <4> QED
        BY <1>2, <4>1, <4>2
    <3> HIDE DEF u
    <3> QED
      BY <3>1, <3>2
  <2> HIDE DEF role, q, t
  <2>4. h \in Handles /\ Good([v EXCEPT !.page_ = q]) /\ v \in Controller /\ v.tasks = t.tasks
    BY <2>1, <2>2, AddConnectionGood
  <2>5. ts \in Seq(Task)
    <3> HIDE DEF h
    <3>1. Event("CONNECTION_COMPLETE", p, TRUE, h) \in Task
      BY <2>4, TaskType, NoneAssumption, ZenonT(60) DEF EventType
    <3>2. Packet("PAGE_RESPONSE", p, try) \in Task
      BY TaskType DEF PacketType
    <3> QED
      BY <3>1, <3>2, OneOrTwo, ZenonT(60)
  <2> HIDE DEF v, ts, h
  <2>6. Same(u, v) /\ Grown(u, v)
    BY <2>4, <2>5, SendSame
  <2> HIDE DEF u
  <2>7. Same(w, [v EXCEPT !.page_ = q]) /\ Grown(w, v)
    BY <2>2, <2>4, <2>6, ZenonT(60) DEF Same, Grown, Controller
  <2> HIDE DEF w
  <2>8. Good(w)
    BY <2>4, <2>7, SameGood
  <2> QED
    BY <1>2, <2>3, <2>4, <2>7, <2>8 DEF Fine, Grown
<1> QED
  BY <1>3, <1>4

\* Reject Connection Request only queues the task that rejects.
LEMMA RejectConnectionRequestFine ==
  ASSUME NEW s, Good(s), NEW p \in Ctrl
  PROVE  Fine(RejectConnectionRequest(s, p), s)
<1> DEFINE ts == <<Event("REJECT_PERIPHERAL", p, FALSE, None)>>
           u == Send(s, ts)
           w == [u EXCEPT !.requests = @ \ {p}, !.awaiting = @ \cup {p}]
<1>1. ts \in Seq(Task)
  BY TaskType, OneOrTwo, ZenonT(60) DEF EventType
<1> HIDE DEF ts
<1>2. Same(u, s) /\ Grown(u, s)
  BY <1>1, SendSame DEF Good
<1>3. RejectConnectionRequest(s, p) = w
  BY DEF RejectConnectionRequest, ts
<1> HIDE DEF u
<1>4. Same(w, s) /\ Grown(w, s)
  BY <1>2, ZenonT(60) DEF Same, Grown, Controller
<1> QED
  BY <1>3, <1>4, SameFine

\* Ending a SCO connection leaves the ACL tables alone.
LEMMA DisconnectScoFine ==
  ASSUME NEW s, Good(s), NEW p \in Ctrl
  PROVE  Fine(DisconnectSco(s, p), s) /\ Same(DisconnectSco(s, p), s)
<1> DEFINE ts == <<Packet("SCO_DISCONNECT", p, TRUE)>>
           t == RemoveSco(s, p)
<1>1. s \in Controller
  BY DEF Good
<1>2. Same(t, s) /\ t.tasks = s.tasks
  BY <1>1, ScoSame
<1>3. ts \in Seq(Task)
  BY TaskType, OneOrTwo, ZenonT(60) DEF PacketType
<1>4. DisconnectSco(s, p) = Send(t, ts)
  BY DEF DisconnectSco
<1> HIDE DEF t, ts
<1>5. Fine(t, s)
  BY <1>1, <1>2, SameGood, FineQuiet
<1>6. Same(Send(t, ts), t)
  BY <1>2, <1>3, SendSame DEF Same
<1>7. Same(Send(t, ts), s)
  BY <1>2, <1>6 DEF Same
<1> QED
  BY <1>1, <1>3, <1>4, <1>5, <1>7, FineSend

\* Disconnect: a SCO connection with the peer first, then the connection.
LEMMA DisconnectFine ==
  ASSUME NEW s, Good(s), ~s.failed, NEW h \in Handles, s.acl[h] # None
  PROVE  Fine(Disconnect(s, h), s)
<1> DEFINE p == s.acl[h].address
           t == IF ScoOf(s, p) = {} THEN s ELSE DisconnectSco(s, p)
           ts == <<Packet("DISCONNECT", p, TRUE), Event("DISCONNECTION_COMPLETE", p, TRUE, h)>>
           r == RemoveConnection(t, h)
<1>1. s \in Controller
  BY DEF Good
<1>2. p \in Ctrl
  BY <1>1 DEF Controller, Acl
<1>3. ts \in Seq(Task)
  <2> HIDE DEF p
  <2>1. Packet("DISCONNECT", p, TRUE) \in Task /\ Event("DISCONNECTION_COMPLETE", p, TRUE, h) \in Task
    BY <1>2, TaskType, ZenonT(60) DEF PacketType, EventType
  <2> QED
    BY <2>1, OneOrTwo, ZenonT(60)
<1>4. Disconnect(s, h) = Send(r, ts)
  BY DEF Disconnect
<1> HIDE DEF p, ts
<1>5. Fine(s, s) /\ Same(s, s)
  BY <1>1, FineQuiet DEF Same
<1>6. Fine(t, s) /\ Same(t, s)
  BY <1>2, <1>5, DisconnectScoFine
<1> HIDE DEF t
<1>7. Good(t) /\ ~t.failed /\ t.acl[h] # None
  BY <1>6 DEF Same, Fine
<1>8. Good(r) /\ r.tasks = t.tasks
  BY <1>7, RemoveConnectionGood
<1> HIDE DEF r
<1>9. Fine(r, s)
  BY <1>6, <1>8 DEF Fine, Grown
<1> QED
  BY <1>1, <1>3, <1>4, <1>9, FineSend

\* One packet, in answer to something.
LEMMA SendPacketFine ==
  ASSUME NEW s \in Controller, NEW t, Fine(t, s), NEW type \in PacketType, NEW p \in Ctrl, NEW ok \in BOOLEAN
  PROVE  Fine(Send(t, <<Packet(type, p, ok)>>), s)
<1> DEFINE ts == <<Packet(type, p, ok)>>
<1>1. ts \in Seq(Task)
  BY TaskType, OneOrTwo
<1> HIDE DEF ts
<1>2. Fine(Send(t, ts), s)
  BY <1>1, FineSend
<1> QED
  BY <1>2 DEF ts

\* Doing nothing is fine.
LEMMA SelfFine ==
  ASSUME NEW s, Good(s)
  PROVE  Fine(s, s)
  BY FineQuiet DEF Good

\* Switch Role only sends a packet.
LEMMA SwitchRoleFine ==
  ASSUME NEW s, Good(s), NEW p \in Ctrl
  PROVE  Fine(SwitchRole(s, p), s)
  BY SelfFine, SendPacketFine, ZenonT(60) DEF SwitchRole, PacketType, Good

\* The role and the link policy of a connection are no part of the agreement.
LEMMA ChangeGood ==
  ASSUME NEW s, Good(s), NEW h \in Handles, s.acl[h] # None, NEW a \in Acl, a.address = s.acl[h].address,
         NEW t, t = [s EXCEPT !.acl = [s.acl EXCEPT ![h] = a]]
  PROVE  Fine(t, s)
<1>1. s \in Controller /\ s.acl \in AclTable /\ s.lm_ \in Links
  BY DEF Good, Controller, AclTable, Links
<1>2. [s.acl EXCEPT ![h] = a] \in [Handles -> Acl \cup {None}]
  BY <1>1 DEF AclTable
<1>3. t \in Controller
  BY <1>1, <1>2 DEF Controller
<1>4. /\ t.acl = [s.acl EXCEPT ![h] = a] /\ t.lm_ = s.lm_ /\ t.page_ = s.page_ /\ t.failed = s.failed
      /\ t.tasks = s.tasks
  BY <1>1 DEF Controller
<1>5. ~s.failed => Agree([s.acl EXCEPT ![h] = a], s.lm_, s.page_)
  BY <1>1, AgreeChange DEF Good
<1>6. Good(t)
  BY <1>3, <1>4, <1>5 DEF Good
<1> QED
  BY <1>1, <1>4, <1>6, FineQuiet, ZenonT(60)

\* Write Link Policy Settings keeps the peer of the connection.
LEMMA WriteLinkPolicySettingsFine ==
  ASSUME NEW s, Good(s), NEW h \in Handles, s.acl[h] # None, NEW switch \in BOOLEAN
  PROVE  Fine(WriteLinkPolicySettings(s, h, switch), s)
<1> DEFINE a == [s.acl[h] EXCEPT !.switch = switch]
<1>1. a \in Acl /\ a.address = s.acl[h].address
  BY DEF Good, Controller, Acl
<1>2. WriteLinkPolicySettings(s, h, switch) = [s EXCEPT !.acl = [s.acl EXCEPT ![h] = a]]
  BY DEF WriteLinkPolicySettings, Good, Controller
<1> HIDE DEF a
<1> QED
  BY <1>1, <1>2, ChangeGood

\* A role switch keeps the peer of the connection.
LEMMA FlipRoleFine ==
  ASSUME NEW s, Good(s), NEW h \in Handles, s.acl[h] # None
  PROVE  Fine(FlipRole(s, h), s)
<1> DEFINE a == [s.acl[h] EXCEPT !.role = Other(s.acl[h].role)]
<1>1. a \in Acl /\ a.address = s.acl[h].address
  BY DEF Good, Controller, Acl, Role, Other
<1>2. FlipRole(s, h) = [s EXCEPT !.acl = [s.acl EXCEPT ![h] = a]]
  BY DEF FlipRole, Good, Controller
<1> HIDE DEF a
<1> QED
  BY <1>1, <1>2, ChangeGood

\* Setup Synchronous Connection leaves the ACL tables alone.
LEMMA SetupSynchronousConnectionFine ==
  ASSUME NEW s, Good(s), NEW p \in Ctrl, ~ScoFull(s)
  PROVE  Fine(SetupSynchronousConnection(s, p), s)
<1>1. s \in Controller
  BY DEF Good
<1>2. Same(AddSco(s, p, "PENDING"), s) /\ AddSco(s, p, "PENDING").tasks = s.tasks
  BY <1>1, ScoSame
<1>3. Fine(AddSco(s, p, "PENDING"), s)
  BY <1>1, <1>2, SameGood, FineQuiet
<1> QED
  BY <1>1, <1>3, SendPacketFine, ZenonT(60) DEF SetupSynchronousConnection, PacketType

\* Accepting or rejecting a SCO connection leaves the ACL tables alone.
LEMMA AnswerSynchronousConnectionFine ==
  ASSUME NEW s, Good(s), NEW p \in Ctrl, NEW ok \in BOOLEAN
  PROVE  Fine(AnswerSynchronousConnection(s, p, ok), s)
<1> DEFINE t == [s EXCEPT !.scoRequests = @ \ {p}]
           u == IF ok THEN OpenSco(t, p) ELSE RemoveSco(t, p)
<1>1. s \in Controller
  BY DEF Good
<1>2. Same(t, s) /\ t.tasks = s.tasks /\ t.sco = s.sco
  BY <1>1, SMTT(60) DEF Same, Controller
<1>3. AnswerSynchronousConnection(s, p, ok) =
        IF ~HasPendingScoConnection(s, p) THEN t
        ELSE Send(u, <<Packet("SCO_CONNECTION_RESPONSE", p, ok)>>)
  BY DEF AnswerSynchronousConnection
<1> HIDE DEF t
<1>4. Fine(t, s) /\ Good(t) /\ t \in Controller
  BY <1>1, <1>2, SameGood, FineQuiet DEF Same
<1>5. CASE ~HasPendingScoConnection(s, p)
  BY <1>3, <1>4, <1>5
<1>6. CASE HasPendingScoConnection(s, p)
  <2>1. ScoOf(t, p) # {}
    BY <1>2, <1>6 DEF HasPendingScoConnection, ScoOf
  <2>2. Same(u, t) /\ u.tasks = t.tasks
    BY <1>4, <2>1, ScoSame
  <2> HIDE DEF u
  <2>3. Fine(u, s)
    BY <1>1, <1>2, <1>4, <2>2, SameGood, FineQuiet
  <2> QED
    BY <1>1, <1>3, <1>6, <2>3, SendPacketFine DEF PacketType
<1> QED
  BY <1>5, <1>6

\* IterationOrder lists the elements of a finite set.
LEMMA IterationOrderType ==
  ASSUME NEW S, IsFiniteSet(S)
  PROVE  IterationOrder(S) \in [1..Cardinality(S) -> S] /\ Cardinality(S) \in Nat
<1>1. Cardinality(S) \in Nat /\ ExistsBijection(1..Cardinality(S), S)
  BY FS_CardinalityType
<1>2. \E f \in [1..Cardinality(S) -> S] : IsInjective(f)
  BY <1>1 DEF ExistsBijection, Bijection, Injection
<1> QED
  BY <1>1, <1>2 DEF IterationOrder

\* The packets for the entries of a table.
LEMMA PacketsOfTable ==
  ASSUME NEW table, NEW S, S \subseteq Handles, \A h \in S : table[h].address \in Ctrl,
         NEW type \in PacketType
  PROVE  [i \in DOMAIN IterationOrder(S) |-> Packet(type, table[IterationOrder(S)[i]].address, TRUE)] \in Seq(Task)
<1> DEFINE hs == IterationOrder(S)
           n == Cardinality(S)
           ts == [i \in DOMAIN hs |-> Packet(type, table[hs[i]].address, TRUE)]
<1>1. hs \in [1..n -> S] /\ n \in Nat
  BY HandlesAssumption, FS_Subset, IterationOrderType
<1> HIDE DEF hs, n
<1>2. \A i \in 1..n : ts[i] \in Task
  BY <1>1, TaskType, ZenonT(60)
<1>3. ts \in [1..n -> Task]
  BY <1>1, <1>2, ZenonT(60)
<1> HIDE DEF ts
<1>4. ts \in Seq(Task)
  BY <1>1, <1>3
<1> QED
  BY <1>4 DEF hs, ts

\* Reset: empty tables agree.
LEMMA ResetFine ==
  ASSUME NEW s, Good(s)
  PROVE  Fine(Reset(s), s)
<1> DEFINE ss == [i \in DOMAIN IterationOrder(Used(s.sco)) |->
                    Packet("SCO_DISCONNECT", s.sco[IterationOrder(Used(s.sco))[i]].address, TRUE)]
           as == [i \in DOMAIN IterationOrder(Used(s.acl)) |->
                    Packet("DISCONNECT", s.acl[IterationOrder(Used(s.acl))[i]].address, TRUE)]
           u == DisconnectAll(s)
           t == Reset(s)
<1>1. s \in Controller
  BY DEF Good
<1>2. ss \in Seq(Task) /\ as \in Seq(Task)
  <2>1. /\ Used(s.sco) \subseteq Handles /\ \A h \in Used(s.sco) : s.sco[h].address \in Ctrl
        /\ Used(s.acl) \subseteq Handles /\ \A h \in Used(s.acl) : s.acl[h].address \in Ctrl
    BY <1>1 DEF Used, Controller, Sco, Acl
  <2>2. "SCO_DISCONNECT" \in PacketType /\ "DISCONNECT" \in PacketType
    BY DEF PacketType
  <2> QED
    BY <2>1, <2>2, PacketsOfTable, ZenonT(60)
<1>3. u = Send(s, ss \o as)
  BY DEF DisconnectAll
<1> HIDE DEF ss, as
<1>4. ss \o as \in Seq(Task)
  BY <1>2, ConcatTasks, ZenonT(60)
<1>5. u \in Controller /\ Grown(u, s) /\ u.failed = s.failed
  BY <1>1, <1>3, <1>4, SendSame, ZenonT(60) DEF Same
<1>6. t = [u EXCEPT
            !.acl = EmptyTable, !.sco = EmptyTable, !.lm_ = NoLinks, !.page_ = None, !.page_scan_ = None,
            !.page_scan_enable_ = FALSE, !.masked = FALSE, !.policy = FALSE,
            !.awaiting = {}, !.told = {}, !.requests = {}, !.scoRequests = {}]
  BY DEF Reset
<1>7. /\ EmptyTable \in [Handles -> Acl \cup {None}] /\ EmptyTable \in [Handles -> Sco \cup {None}]
      /\ NoLinks \in [Slots -> Ctrl \cup {None}]
  BY DEF EmptyTable, NoLinks
<1> HIDE DEF t, u
<1>8. t \in Controller
  BY <1>5, <1>6, <1>7, ZenonT(60) DEF Controller
<1>9. t.acl = EmptyTable /\ t.lm_ = NoLinks /\ t.page_ = None /\ t.tasks = u.tasks
  BY <1>5, <1>6 DEF Controller
<1>10. Agree(EmptyTable, NoLinks, None)
  BY NoneAssumption DEF Agree, EmptyTable, NoLinks
<1>11. Fine(t, s)
  BY <1>5, <1>8, <1>9, <1>10 DEF Fine, Good, Grown
<1> QED
  BY <1>11 DEF t

-----------------------------------------------------------------------------
(* Packets and events.                                                     *)

\* A page starts the page scan response and touches no table.
LEMMA IncomingPagePacketFine ==
  ASSUME NEW s, Good(s), NEW p \in Ctrl, NEW allow \in BOOLEAN
  PROVE  Fine(IncomingPagePacket(s, p, allow), s)
<1> DEFINE q == [bd_addr |-> p, allow_role_switch |-> allow]
           t == [s EXCEPT !.page_scan_ = q, !.requests = @ \cup {p}]
           u == Send(s, <<Packet("PAGE_REJECT", p, FALSE)>>)
<1>1. s \in Controller /\ Fine(s, s)
  BY SelfFine DEF Good
<1>2. Fine(u, s)
  BY <1>1, SendPacketFine, ZenonT(60) DEF PacketType
<1>3. q \in Page
  BY DEF Page
<1>4. Fine(t, s)
  <2> HIDE DEF q
  <2>1. Same(t, s) /\ t.tasks = s.tasks
    BY <1>1, <1>3, ZenonT(60) DEF Same, Controller
  <2> HIDE DEF t
  <2> QED
    BY <1>1, <2>1, SameGood, FineQuiet
<1>5. IncomingPagePacket(s, p, allow) \in {s, t, u}
  BY DEF IncomingPagePacket
<1> HIDE DEF t, u
<1> QED
  BY <1>1, <1>2, <1>4, <1>5

\* A rejected page is over.
LEMMA IncomingPageRejectPacketFine ==
  ASSUME NEW s, Good(s), NEW p \in Ctrl
  PROVE  Fine(IncomingPageRejectPacket(s, p), s)
<1> DEFINE t == [s EXCEPT !.page_ = None, !.awaiting = @ \ {p}]
<1>1. s \in Controller /\ Fine(s, s)
  BY SelfFine DEF Good
<1>2. Same(t, s) /\ t.tasks = s.tasks
  BY <1>1, ZenonT(60) DEF Same, Controller
<1>3. IncomingPageRejectPacket(s, p) \in {s, t}
  BY DEF IncomingPageRejectPacket
<1> HIDE DEF t
<1> QED
  BY <1>1, <1>2, <1>3, SameGood, FineQuiet

\* A page response is taken only while its sender is paged, who therefore has no
\* connection yet.
LEMMA IncomingPageResponsePacketFine ==
  ASSUME NEW s, Good(s), ~s.failed, NEW p \in Ctrl, NEW try \in BOOLEAN, ~AclFull(s)
  PROVE  Fine(IncomingPageResponsePacket(s, p, try), s)
<1> DEFINE role == IF s.page_.allow_role_switch /\ try THEN "PERIPHERAL" ELSE "CENTRAL"
           h == Unused(s)
           v == AddConnection(s, p, role)
           w == [v EXCEPT !.page_ = None, !.awaiting = @ \ {p}, !.told = @ \cup {h}]
<1>1. s \in Controller /\ Fine(s, s)
  BY SelfFine DEF Good
<1>2. CASE ~Pages(s, p)
  BY <1>1, <1>2 DEF IncomingPageResponsePacket
<1>3. CASE Pages(s, p)
  <2>1. AclOf(s, p) = {}
    BY <1>3 DEF Good, Agree, Pages, AclOf
  <2>2. role \in Role
    BY DEF Role
  <2>3. IncomingPageResponsePacket(s, p, try) = w
    BY <1>3 DEF IncomingPageResponsePacket
  <2> HIDE DEF role
  <2>4. h \in Handles /\ Good([v EXCEPT !.page_ = None]) /\ v \in Controller /\ v.tasks = s.tasks
    BY <2>1, <2>2, AddConnectionGood
  <2> HIDE DEF h, v
  <2>5. Same(w, [v EXCEPT !.page_ = None]) /\ w.tasks = v.tasks
    BY <2>4, ZenonT(60) DEF Same, Controller
  <2> HIDE DEF w
  <2> QED
    BY <1>1, <2>3, <2>4, <2>5, SameGood, FineQuiet
<1> QED
  BY <1>2, <1>3

\* The handle looked up for a connected peer is in use.
LEMMA AclHandle ==
  ASSUME NEW s, NEW p, AclOf(s, p) # {}
  PROVE  GetAclConnectionHandle(s, p) \in Handles /\ s.acl[GetAclConnectionHandle(s, p)] # None
  BY DEF GetAclConnectionHandle, AclOf

\* DISCONNECT removes the connection together with its link.
LEMMA IncomingDisconnectPacketFine ==
  ASSUME NEW s, Good(s), ~s.failed, NEW p \in Ctrl
  PROVE  Fine(IncomingDisconnectPacket(s, p), s)
<1> DEFINE h == GetAclConnectionHandle(s, p)
           r == RemoveConnection(s, h)
           ts == <<Event("DISCONNECTION_COMPLETE", p, TRUE, h)>>
<1>1. s \in Controller /\ Fine(s, s)
  BY SelfFine DEF Good
<1>2. CASE AclOf(s, p) = {}
  BY <1>1, <1>2 DEF IncomingDisconnectPacket
<1>3. CASE AclOf(s, p) # {}
  <2>1. h \in Handles /\ s.acl[h] # None
    BY <1>3, AclHandle
  <2>2. IncomingDisconnectPacket(s, p) = Send(r, ts)
    BY <1>3 DEF IncomingDisconnectPacket
  <2> HIDE DEF h
  <2>3. Good(r) /\ r.tasks = s.tasks
    BY <2>1, RemoveConnectionGood
  <2>4. ts \in Seq(Task)
    BY <2>1, TaskType, OneOrTwo, ZenonT(60) DEF EventType
  <2> HIDE DEF r, ts
  <2> QED
    BY <1>1, <2>2, <2>3, <2>4, FineQuiet, FineSend
<1> QED
  BY <1>2, <1>3

\* The role switch packets keep the peer of the connection.
LEMMA IncomingRoleSwitchFine ==
  ASSUME NEW s, Good(s), NEW p \in Ctrl, NEW ok \in BOOLEAN
  PROVE  Fine(IncomingRoleSwitchRequest(s, p), s) /\ Fine(IncomingRoleSwitchResponse(s, p, ok), s)
<1> DEFINE h == GetAclConnectionHandle(s, p)
           f == FlipRole(s, h)
<1>1. s \in Controller /\ Fine(s, s)
  BY SelfFine DEF Good
<1>2. CASE AclOf(s, p) = {}
  BY <1>1, <1>2 DEF IncomingRoleSwitchRequest, IncomingRoleSwitchResponse
<1>3. CASE AclOf(s, p) # {}
  <2>1. h \in Handles /\ s.acl[h] # None
    BY <1>3, AclHandle
  <2>2. Fine(f, s)
    <3> HIDE DEF h
    <3> QED
      BY <2>1, FlipRoleFine
  <2>3. /\ IncomingRoleSwitchRequest(s, p) \in {Send(s, <<Packet("ROLE_SWITCH_RESPONSE", p, FALSE)>>),
                                                Send(f, <<Packet("ROLE_SWITCH_RESPONSE", p, TRUE)>>)}
        /\ IncomingRoleSwitchResponse(s, p, ok) \in {s, f}
    BY <1>3 DEF IncomingRoleSwitchRequest, IncomingRoleSwitchResponse
  <2> HIDE DEF f
  <2>4. /\ Fine(Send(s, <<Packet("ROLE_SWITCH_RESPONSE", p, FALSE)>>), s)
        /\ Fine(Send(f, <<Packet("ROLE_SWITCH_RESPONSE", p, TRUE)>>), s)
    BY <1>1, <2>2, SendPacketFine, ZenonT(60) DEF PacketType
  <2> QED
    BY <1>1, <2>2, <2>3, <2>4
<1> QED
  BY <1>2, <1>3

\* The SCO packets leave the ACL tables alone.
LEMMA IncomingScoFine ==
  ASSUME NEW s, Good(s), NEW p \in Ctrl, NEW ok \in BOOLEAN
  PROVE  /\ ~ScoFull(s) => Fine(IncomingScoConnectionRequest(s, p), s)
         /\ Fine(IncomingScoConnectionResponse(s, p, ok), s)
         /\ Fine(IncomingScoDisconnect(s, p), s)
<1>1. s \in Controller /\ Fine(s, s)
  BY SelfFine DEF Good
<1>2. ASSUME ~ScoFull(s)
      PROVE  Fine(IncomingScoConnectionRequest(s, p), s)
  <2> DEFINE v == AddSco(s, p, "SENT")
             w == [v EXCEPT !.scoRequests = @ \cup {p}]
             u == Send(s, <<Packet("SCO_CONNECTION_RESPONSE", p, FALSE)>>)
  <2>1. Fine(u, s)
    BY <1>1, SendPacketFine, ZenonT(60) DEF PacketType
  <2>2. Same(v, s) /\ v.tasks = s.tasks
    BY <1>1, <1>2, ScoSame
  <2>3. IncomingScoConnectionRequest(s, p) \in {u, w}
    BY DEF IncomingScoConnectionRequest
  <2> HIDE DEF u, v
  <2>4. Same(w, s) /\ w.tasks = s.tasks
    BY <2>2, SMTT(60) DEF Same, Controller
  <2> HIDE DEF w
  <2>5. Fine(w, s)
    BY <1>1, <2>4, SameGood, FineQuiet
  <2> QED
    BY <2>1, <2>3, <2>5
<1>3. Fine(RemoveSco(s, p), s)
  <2>1. Same(RemoveSco(s, p), s) /\ RemoveSco(s, p).tasks = s.tasks
    BY <1>1, ScoSame
  <2> QED
    BY <1>1, <2>1, SameGood, FineQuiet
<1>4. ScoOf(s, p) # {} => Fine(OpenSco(s, p), s)
  <2>1. ScoOf(s, p) # {} => Same(OpenSco(s, p), s) /\ OpenSco(s, p).tasks = s.tasks
    BY <1>1, ScoSame
  <2> QED
    BY <1>1, <2>1, SameGood, FineQuiet
<1> QED
  BY <1>1, <1>2, <1>3, <1>4 DEF IncomingScoConnectionResponse, IncomingScoDisconnect

\* Every packet handler is fine.
LEMMA IncomingPacketFine ==
  ASSUME NEW s, Good(s), ~s.failed, NEW p \in Ctrl, NEW task \in Task, task.type \in PacketType,
         task.type = "PAGE_RESPONSE" => ~AclFull(s),
         task.type = "SCO_CONNECTION_REQUEST" => ~ScoFull(s)
  PROVE  Fine(IncomingPacket(s, p, task), s)
<1>1. task.ok \in BOOLEAN
  BY DEF Task
<1>2. CASE task.type = "PAGE"
  BY <1>1, <1>2, IncomingPagePacketFine DEF IncomingPacket
<1>3. CASE task.type = "PAGE_REJECT"
  BY <1>3, IncomingPageRejectPacketFine DEF IncomingPacket
<1>4. CASE task.type = "PAGE_RESPONSE"
  BY <1>1, <1>4, IncomingPageResponsePacketFine DEF IncomingPacket
<1>5. CASE task.type = "DISCONNECT"
  BY <1>5, IncomingDisconnectPacketFine DEF IncomingPacket
<1>6. CASE task.type = "ROLE_SWITCH_REQUEST"
  BY <1>1, <1>6, IncomingRoleSwitchFine DEF IncomingPacket
<1>7. CASE task.type = "ROLE_SWITCH_RESPONSE"
  BY <1>1, <1>7, IncomingRoleSwitchFine DEF IncomingPacket
<1>8. CASE task.type = "SCO_CONNECTION_REQUEST"
  BY <1>1, <1>8, IncomingScoFine DEF IncomingPacket
<1>9. CASE task.type = "SCO_CONNECTION_RESPONSE"
  BY <1>1, <1>9, IncomingScoFine DEF IncomingPacket
<1>10. CASE task.type = "SCO_DISCONNECT"
  BY <1>1, <1>10, IncomingScoFine DEF IncomingPacket
<1> QED
  BY <1>2, <1>3, <1>4, <1>5, <1>6, <1>7, <1>8, <1>9, <1>10 DEF PacketType

\* An event tells the host something, and a rejection sends a packet.
LEMMA DeferredEventFine ==
  ASSUME NEW s, Good(s), NEW task \in Task, task.type \in EventType
  PROVE  Fine(DeferredEvent(s, task), s)
<1> DEFINE p == task.peer
           h == task.handle
<1>1. s \in Controller /\ Fine(s, s)
  BY SelfFine DEF Good
<1>2. p \in Ctrl /\ task.ok \in BOOLEAN
  BY DEF Task
<1>3. CASE task.type = "CONNECTION_COMPLETE"
  <2> DEFINE T == IF task.ok THEN s.told \cup {h} ELSE s.told
             t == [s EXCEPT !.awaiting = s.awaiting \ {p}, !.told = T]
  <2>1. DeferredEvent(s, task) = t
    BY <1>1, <1>3 DEF DeferredEvent, Controller
  <2>2. T \in SUBSET Handles
    BY <1>1, <1>3 DEF Controller, Task
  <2> HIDE DEF T, p
  <2>3. Same(t, s) /\ t.tasks = s.tasks
    BY <1>1, <2>2, ZenonT(60) DEF Same, Controller
  <2> HIDE DEF t
  <2> QED
    BY <1>1, <2>1, <2>3, SameGood, FineQuiet
<1>4. CASE task.type = "DISCONNECTION_COMPLETE"
  <2> DEFINE t == [s EXCEPT !.told = @ \ {h}]
  <2>1. DeferredEvent(s, task) = t
    BY <1>4 DEF DeferredEvent
  <2>2. Same(t, s) /\ t.tasks = s.tasks
    BY <1>1 DEF Same, Controller
  <2> HIDE DEF t
  <2> QED
    BY <1>1, <2>1, <2>2, SameGood, FineQuiet
<1>5. CASE task.type = "REJECT_PERIPHERAL"
  <2> DEFINE u == Send(s, <<Packet("PAGE_REJECT", p, FALSE)>>)
             t == [u EXCEPT !.awaiting = @ \ {p}]
  <2>1. DeferredEvent(s, task) = t
    BY <1>5 DEF DeferredEvent
  <2> HIDE DEF p
  <2>2. Fine(u, s)
    BY <1>1, <1>2, SendPacketFine, ZenonT(60) DEF PacketType
  <2> HIDE DEF u
  <2>3. Same(t, u) /\ t.tasks = u.tasks
    BY <2>2, ZenonT(60) DEF Same, Controller, Fine, Good
  <2> HIDE DEF t
  <2> QED
    BY <2>1, <2>2, <2>3, SameGood DEF Fine, Grown
<1> QED
  BY <1>3, <1>4, <1>5 DEF EventType

-----------------------------------------------------------------------------
(* The system.                                                             *)

\* The inductive invariant.
IInv ==
  /\ ctl \in [Ctrl -> Controller] /\ \A c \in Ctrl : Good(ctl[c])
  /\ ticking \in Ctrl \cup {None}
  /\ due \in Nat
  /\ ticking # None => due <= Len(ctl[ticking].tasks)

\* Agree is TablesAgree for one controller.
LEMMA AgreeIsTablesAgree ==
  ASSUME IInv
  PROVE  TypeOK /\ TablesAgree
<1>1. TypeOK
  BY DEF IInv, TypeOK
<1>2. ASSUME NEW c \in Ctrl, ~ctl[c].failed
      PROVE  LET s == ctl[c] IN
               /\ \A p \in Ctrl : AclOf(s, p) = {} <=> SlotsOf(s, p) = {}
               /\ \A g, h \in Used(s.acl) : s.acl[g].address = s.acl[h].address => g = h
               /\ \A i, j \in Slots : s.lm_[i] # None /\ s.lm_[i] = s.lm_[j] => i = j
               /\ \A p \in Ctrl : Pages(s, p) => AclOf(s, p) = {}
  <2> DEFINE s == ctl[c]
  <2>1. Agree(s.acl, s.lm_, s.page_)
    BY <1>2 DEF IInv, Good
  <2> HIDE DEF s
  <2>2. \A p \in Ctrl : AclOf(s, p) = {} <=> SlotsOf(s, p) = {}
    BY <2>1 DEF Agree, AclOf, SlotsOf
  <2>3. \A g, h \in Used(s.acl) : s.acl[g].address = s.acl[h].address => g = h
    BY <2>1 DEF Agree, Used
  <2>4. \A p \in Ctrl : Pages(s, p) => AclOf(s, p) = {}
    BY <2>1 DEF Agree, AclOf, Pages
  <2>5. \A i, j \in Slots : s.lm_[i] # None /\ s.lm_[i] = s.lm_[j] => i = j
    BY <2>1 DEF Agree
  <2> QED
    BY <2>2, <2>3, <2>4, <2>5 DEF s
<1> QED
  BY <1>1, <1>2 DEF TablesAgree

\* A new controller has no connection, no link and no page.
LEMMA InitInv == Init => IInv
<1> SUFFICES ASSUME Init PROVE IInv
  OBVIOUS
<1>1. /\ EmptyTable \in [Handles -> Acl \cup {None}] /\ EmptyTable \in [Handles -> Sco \cup {None}]
      /\ NoLinks \in [Slots -> Ctrl \cup {None}] /\ <<>> \in Seq(Task)
  BY DEF EmptyTable, NoLinks
<1>2. Agree(EmptyTable, NoLinks, None)
  BY NoneAssumption DEF Agree, EmptyTable, NoLinks
<1>3. ASSUME NEW c \in Ctrl
      PROVE  /\ ctl[c] \in Controller /\ ctl[c].acl = EmptyTable /\ ctl[c].lm_ = NoLinks
             /\ ctl[c].page_ = None
  BY <1>1 DEF Init, Controller
<1>4. \A c \in Ctrl : Good(ctl[c])
  BY <1>2, <1>3 DEF Good
<1>5. ctl \in [Ctrl -> Controller]
  BY <1>3 DEF Init
<1> QED
  BY <1>4, <1>5 DEF Init, IInv

\* A step of one controller.
LEMMA BecomesInv ==
  ASSUME IInv, NEW c \in Ctrl, NEW t, Fine(t, ctl[c]), Becomes(c, t)
  PROVE  IInv'
<1>1. t \in Controller /\ Good(t) /\ Len(t.tasks) >= Len(ctl[c].tasks)
  BY DEF Fine, Good, Grown
<1>2. \A d \in Ctrl : ctl'[d] = IF d = c THEN t ELSE ctl[d]
  BY DEF Becomes, IInv
<1>3. ctl' \in [Ctrl -> Controller] /\ \A d \in Ctrl : Good(ctl'[d])
  BY <1>1, <1>2 DEF Becomes, IInv
<1>4. ticking' = ticking /\ due' = due
  BY DEF Becomes
<1>5. ASSUME ticking # None
      PROVE  due <= Len(ctl'[ticking].tasks)
  <2>1. ticking \in Ctrl
    BY <1>5 DEF IInv
  <2>2. Len(ctl[ticking].tasks) \in Nat /\ Len(ctl'[ticking].tasks) \in Nat
    BY <1>3, <2>1 DEF IInv, Controller
  <2>3. Len(ctl'[ticking].tasks) >= Len(ctl[ticking].tasks)
    BY <1>1, <1>2, <2>1, <2>2
  <2> QED
    BY <1>5, <2>2, <2>3 DEF IInv
<1> QED
  BY <1>3, <1>4, <1>5 DEF IInv

\* Commands of the host.
LEMMA HostCommandInv ==
  ASSUME IInv, NEW c \in Ctrl, HostCommand(c)
  PROVE  IInv'
<1> DEFINE s == ctl[c]
<1>1. Good(s) /\ ~s.failed /\ s \in Controller
  BY DEF IInv, HostCommand, Commands, Alive
<1>2. PICK p \in Ctrl :
        \/ AclOf(s, p) = {} /\ \E allow \in BOOLEAN : Becomes(c, CreateConnection(s, p, allow))
        \/ Becomes(c, CreateConnectionCancel(s, p))
        \/ ~AclFull(s) /\ \E try \in BOOLEAN : Becomes(c, AcceptConnectionRequest(s, p, try))
        \/ Becomes(c, RejectConnectionRequest(s, p))
        \/ \E h \in AclOf(s, p) : Becomes(c, Disconnect(s, h))
        \/ Becomes(c, SwitchRole(s, p))
        \/ \E h \in AclOf(s, p), switch \in BOOLEAN : Becomes(c, WriteLinkPolicySettings(s, h, switch))
        \/ ~ScoFull(s) /\ Becomes(c, SetupSynchronousConnection(s, p))
        \/ \E ok \in BOOLEAN : Becomes(c, AnswerSynchronousConnection(s, p, ok))
        \/ Becomes(c, DisconnectSco(s, p))
  BY ZenonT(60) DEF HostCommand
<1> HIDE DEF s
<1>3. \A h \in AclOf(s, p) : h \in Handles /\ s.acl[h] # None
  BY DEF AclOf
<1>4. PICK t : Becomes(c, t) /\ Fine(t, s)
  <2>1. CASE AclOf(s, p) = {} /\ \E allow \in BOOLEAN : Becomes(c, CreateConnection(s, p, allow))
    BY <1>1, <2>1, CreateConnectionFine
  <2>2. CASE Becomes(c, CreateConnectionCancel(s, p))
    BY <1>1, <2>2, CreateConnectionCancelFine
  <2>3. CASE ~AclFull(s) /\ \E try \in BOOLEAN : Becomes(c, AcceptConnectionRequest(s, p, try))
    BY <1>1, <2>3, AcceptConnectionRequestFine
  <2>4. CASE Becomes(c, RejectConnectionRequest(s, p))
    BY <1>1, <2>4, RejectConnectionRequestFine
  <2>5. CASE \E h \in AclOf(s, p) : Becomes(c, Disconnect(s, h))
    BY <1>1, <1>3, <2>5, DisconnectFine
  <2>6. CASE Becomes(c, SwitchRole(s, p))
    BY <1>1, <2>6, SwitchRoleFine
  <2>7. CASE \E h \in AclOf(s, p), switch \in BOOLEAN : Becomes(c, WriteLinkPolicySettings(s, h, switch))
    BY <1>1, <1>3, <2>7, WriteLinkPolicySettingsFine
  <2>8. CASE ~ScoFull(s) /\ Becomes(c, SetupSynchronousConnection(s, p))
    BY <1>1, <2>8, SetupSynchronousConnectionFine
  <2>9. CASE \E ok \in BOOLEAN : Becomes(c, AnswerSynchronousConnection(s, p, ok))
    BY <1>1, <2>9, AnswerSynchronousConnectionFine
  <2>10. CASE Becomes(c, DisconnectSco(s, p))
    BY <1>1, <2>10, DisconnectScoFine
  <2> QED
    BY <1>2, <2>1, <2>2, <2>3, <2>4, <2>5, <2>6, <2>7, <2>8, <2>9, <2>10, SMTT(30)
<1> QED
  BY <1>4, BecomesInv, SMTT(30) DEF s

\* HCI Reset, Write Scan Enable, and the end of a connection that expired.
LEMMA OtherCommandsInv ==
  ASSUME IInv, NEW c \in Ctrl,
         ResetCommand(c) \/ WriteScanEnable(c) \/ CheckExpiringConnection(c)
  PROVE  IInv'
<1> DEFINE s == ctl[c]
<1>1. Good(s) /\ ~s.failed /\ s \in Controller
  BY DEF IInv, ResetCommand, WriteScanEnable, CheckExpiringConnection, Commands, Alive
<1>2. CASE ResetCommand(c)
  <2>1. Becomes(c, Reset(s))
    BY <1>2 DEF ResetCommand
  <2> QED
    BY <1>1, <2>1, ResetFine, BecomesInv
<1>3. CASE WriteScanEnable(c)
  <2> DEFINE t == [s EXCEPT !.page_scan_enable_ = TRUE]
  <2>1. Becomes(c, t)
    BY <1>3 DEF WriteScanEnable
  <2>2. Same(t, s) /\ t.tasks = s.tasks
    <3> HIDE DEF s
    <3> QED
      BY <1>1, ZenonT(60) DEF Same, Controller
  <2> HIDE DEF t
  <2> QED
    BY <1>1, <2>1, <2>2, SameGood, FineQuiet, BecomesInv
<1>4. CASE CheckExpiringConnection(c)
  <2>1. PICK h \in Handles : s.acl[h] # None /\ Becomes(c, Disconnect(s, h))
    BY <1>4 DEF CheckExpiringConnection, Used
  <2> QED
    BY <1>1, <2>1, DisconnectFine, BecomesInv
<1> QED
  BY <1>2, <1>3, <1>4

\* A Tick starts with the tasks that are queued.
LEMMA StartTickInv ==
  ASSUME IInv, NEW c \in Ctrl, StartTick(c)
  PROVE  IInv'
<1>1. Len(ctl[c].tasks) \in Nat
  BY DEF IInv, Controller
<1> QED
  BY <1>1 DEF IInv, StartTick

\* Taking the first task of the queue.
LEMMA PoppedSame ==
  ASSUME NEW s, Good(s), Len(s.tasks) > 0
  PROVE  /\ Good(Popped(s)) /\ Popped(s).failed = s.failed
         /\ Len(Popped(s).tasks) = Len(s.tasks) - 1
         /\ Len(s.tasks) \in Nat /\ Head(s.tasks) \in Task
<1>1. s \in Controller /\ s.tasks \in Seq(Task)
  BY DEF Good, Controller
<1> DEFINE q == Tail(s.tasks)
<1>2. q \in Seq(Task) /\ Len(q) = Len(s.tasks) - 1 /\ Head(s.tasks) \in Task /\ Len(s.tasks) \in Nat
  <2> DEFINE r == s.tasks
  <2> SUFFICES Tail(r) \in Seq(Task) /\ Len(Tail(r)) = Len(r) - 1 /\ Head(r) \in Task /\ Len(r) \in Nat
    OBVIOUS
  <2>1. r \in Seq(Task) /\ Len(r) > 0
    BY <1>1
  <2> HIDE DEF r
  <2> QED
    BY <2>1
<1>3. Popped(s) = [s EXCEPT !.tasks = q]
  BY DEF Popped
<1> HIDE DEF q
<1>4. Same(Popped(s), s) /\ Popped(s).tasks = q /\ Popped(s).failed = s.failed
  BY <1>1, <1>2, <1>3, ZenonT(60) DEF Same, Controller
<1> QED
  BY <1>2, <1>4, SameGood DEF q

\* One task of a Tick: an event for the host, or a packet for a peer.
LEMMA RunTaskInv ==
  ASSUME IInv, NEW c \in Ctrl, RunTask(c)
  PROVE  IInv'
<1> DEFINE s == ctl[c]
           task == Head(s.tasks)
           d == task.peer
<1>1. /\ ticking = c /\ ticking' = c /\ due \in Nat /\ due > 0 /\ due' = due - 1
      /\ due <= Len(s.tasks) /\ c # None
  BY NoneAssumption DEF IInv, RunTask
<1>2. s \in Controller /\ Good(s) /\ Len(s.tasks) \in Nat
  BY DEF IInv, Controller
<1>3. /\ Good(Popped(s)) /\ Len(Popped(s).tasks) = Len(s.tasks) - 1 /\ task \in Task
  BY <1>1, <1>2, PoppedSame
<1>4. d \in Ctrl
  BY <1>3, SMTT(30) DEF Task
<1>5. \A e \in Ctrl : Good(ctl[e]) /\ ~ctl[e].failed
  BY DEF IInv, RunTask, Alive
<1>6. SUFFICES /\ ctl' \in [Ctrl -> Controller] /\ \A e \in Ctrl : Good(ctl'[e])
               /\ due' <= Len(ctl'[c].tasks)
  BY <1>1 DEF IInv
<1>7. CASE task.type \in EventType /\ ctl' = [ctl EXCEPT ![c] = DeferredEvent(Popped(s), task)]
  <2> DEFINE t == DeferredEvent(Popped(s), task)
  <2>1. Fine(t, Popped(s))
    BY <1>3, <1>7, DeferredEventFine
  <2>2. ctl' = [ctl EXCEPT ![c] = t]
    BY <1>7
  <2> HIDE DEF t, task, s
  <2>3. Good(t) /\ t \in Controller /\ Len(t.tasks) >= Len(s.tasks) - 1 /\ Len(t.tasks) \in Nat
    <3> DEFINE u == Popped(s)
    <3>1. Fine(t, u) /\ Len(u.tasks) = Len(s.tasks) - 1
      BY <1>3, <2>1
    <3> HIDE DEF u
    <3> QED
      BY <3>1 DEF Fine, Good, Grown, Controller
  <2>4. ctl' \in [Ctrl -> Controller] /\ \A e \in Ctrl : Good(ctl'[e])
    BY <1>5, <2>2, <2>3 DEF IInv
  <2>5. ctl'[c] = t
    BY <2>2 DEF IInv
  <2> QED
    BY <1>1, <1>2, <2>3, <2>4, <2>5
<1>8. CASE /\ task.type \in PacketType
           /\ task.type = "PAGE_RESPONSE" => ~AclFull(ctl[d])
           /\ task.type = "SCO_CONNECTION_REQUEST" => ~ScoFull(ctl[d])
           /\ ctl' = [ctl EXCEPT ![c] = Popped(s), ![d] = IncomingPacket(ctl[d], c, task)]
  <2> DEFINE t == IncomingPacket(ctl[d], c, task)
             u == Popped(s)
  <2>1. Fine(t, ctl[d])
    BY <1>3, <1>4, <1>5, <1>8, IncomingPacketFine
  <2>3. ctl' = [ctl EXCEPT ![c] = u, ![d] = t]
    BY <1>8
  <2>4. u \in Controller /\ Good(u) /\ Len(u.tasks) = Len(s.tasks) - 1
    BY <1>3 DEF Good
  <2> HIDE DEF t, d, task, u
  <2>2. Good(t) /\ t \in Controller /\ Len(t.tasks) >= Len(ctl[d].tasks) /\ Len(t.tasks) \in Nat
    BY <2>1 DEF Fine, Good, Grown, Controller
  <2>5. ctl' \in [Ctrl -> Controller] /\ \A e \in Ctrl : ctl'[e] = IF e = d THEN t ELSE IF e = c THEN u ELSE ctl[e]
    BY <1>4, <2>2, <2>3, <2>4 DEF IInv
  <2>6. \A e \in Ctrl : Good(ctl'[e])
    BY <1>5, <2>2, <2>4, <2>5
  <2>7. Len(ctl'[c].tasks) >= Len(s.tasks) - 1 /\ Len(ctl'[c].tasks) \in Nat
    <3>1. CASE c = d
      BY <1>2, <2>2, <2>5, <3>1
    <3>2. CASE c # d
      <4>1. ctl'[c] = u
        BY <2>5, <3>2
      <4> QED
        BY <1>1, <1>2, <2>4, <4>1
    <3> QED
      BY <3>1, <3>2
  <2> HIDE DEF s
  <2> QED
    BY <1>1, <1>2, <2>5, <2>6, <2>7, SMTT(30)
<1> QED
  BY <1>7, <1>8, ZenonT(60) DEF RunTask

\* The end of a Tick: the page timeout, or another PAGE packet.
LEMMA PagingInv ==
  ASSUME IInv, NEW c \in Ctrl, Paging(c)
  PROVE  IInv'
<1> DEFINE s == ctl[c]
<1>1. Good(s) /\ s \in Controller /\ ticking' = None /\ due' \in Nat
  BY DEF IInv, Paging
<1>2. SUFFICES ASSUME ctl' # ctl
               PROVE  \E t : Good(t) /\ ctl' = [ctl EXCEPT ![c] = t]
  <2>1. ASSUME NEW t, Good(t), ctl' = [ctl EXCEPT ![c] = t]
        PROVE  ctl' \in [Ctrl -> Controller] /\ \A e \in Ctrl : Good(ctl'[e])
    BY <2>1 DEF IInv, Good
  <2> QED
    BY <1>1, <2>1 DEF IInv
<1>3. s.page_ # None
  BY <1>2, ZenonT(60) DEF Paging
<1> DEFINE p == s.page_.bd_addr
           allow == s.page_.allow_role_switch
<1>4. s.page_ \in Page /\ p \in Ctrl /\ allow \in BOOLEAN
  BY <1>1, <1>3 DEF Controller, Page
<1>5. CASE ctl' = [ctl EXCEPT ![c].page_ = None, ![c].awaiting = @ \ {s.page_.bd_addr}]
  <2> DEFINE t == [s EXCEPT !.page_ = None, !.awaiting = @ \ {p}]
  <2>1. ctl' = [ctl EXCEPT ![c] = t]
    BY <1>5, ZenonT(60) DEF IInv
  <2> HIDE DEF s, p
  <2>2. t \in Controller /\ t.acl = s.acl /\ t.lm_ = s.lm_ /\ t.page_ = None /\ t.failed = s.failed
    BY <1>1, ZenonT(60) DEF Controller
  <2> HIDE DEF t
  <2>3. Good(t)
    BY <1>1, <2>2 DEF Good, Agree
  <2> QED
    BY <2>1, <2>3, ZenonT(60) DEF s
<1>6. CASE ctl' = [ctl EXCEPT ![c] = Send(s, <<Packet("PAGE", s.page_.bd_addr, s.page_.allow_role_switch)>>)]
  <2>1. Good(Send(s, <<Packet("PAGE", p, allow)>>))
    <3> HIDE DEF p, allow, s
    <3> QED
      BY <1>1, <1>4, SelfFine, SendPacketFine DEF Fine, PacketType
  <2> QED
    BY <1>6, <2>1, ZenonT(60)
<1> QED
  BY <1>2, <1>5, <1>6, ZenonT(60) DEF Paging

\* Every step keeps the invariant.
LEMMA NextInv == IInv /\ [Next]_vars => IInv'
<1> SUFFICES ASSUME IInv, [Next]_vars PROVE IInv'
  OBVIOUS
<1>1. CASE UNCHANGED vars
  BY <1>1 DEF IInv, vars
<1>2. ASSUME NEW c \in Ctrl,
             \/ HostCommand(c) \/ ResetCommand(c) \/ WriteScanEnable(c)
             \/ StartTick(c) \/ RunTask(c) \/ CheckExpiringConnection(c) \/ Paging(c)
      PROVE  IInv'
  BY <1>2, HostCommandInv, OtherCommandsInv, StartTickInv, RunTaskInv, PagingInv
<1> QED
  BY <1>1, <1>2 DEF Next

\* Every field of every controller keeps its type, and a Tick has no more tasks to
\* run than are queued (RunPendingTasks never runs past its queue), for any number
\* of controllers, handles and links.
THEOREM TypeCorrect == Spec => []TypeOK
<1>1. IInv => TypeOK
  BY AgreeIsTablesAgree
<1> QED
  BY <1>1, InitInv, NextInv, PTL DEF Spec

\* The ACL connections, the links of the link manager and the page state describe
\* the same connections, whatever the hosts ask, whichever timeouts fire and
\* however the packets of the controllers cross, until an ASSERT fails.
THEOREM TablesAlwaysAgree == Spec => []TablesAgree
<1>1. IInv => TablesAgree
  BY AgreeIsTablesAgree
<1> QED
  BY <1>1, InitInv, NextInv, PTL DEF Spec

\* Where the elements of a concatenation are.
LEMMA AppendIndices ==
  ASSUME NEW q \in Seq(Task), NEW ts \in Seq(Task)
  PROVE  /\ \A i \in DOMAIN q : i \in DOMAIN (q \o ts) /\ (q \o ts)[i] = q[i]
         /\ \A k \in DOMAIN ts : /\ Len(q) + k \in DOMAIN (q \o ts)
                                 /\ (q \o ts)[Len(q) + k] = ts[k]
                                 /\ \A i \in DOMAIN q : Len(q) + k > i
         /\ \A j \in DOMAIN (q \o ts) : j \in DOMAIN q \/ \E k \in DOMAIN ts : j = Len(q) + k
<1>1. ASSUME NEW j \in DOMAIN (q \o ts), j \notin DOMAIN q
      PROVE  j - Len(q) \in DOMAIN ts /\ j = Len(q) + (j - Len(q))
  BY <1>1
<1> QED
  BY <1>1

\* Where the elements of a tail are.
LEMMA TailIndices ==
  ASSUME NEW q \in Seq(Task), q # <<>>
  PROVE  /\ \A i \in DOMAIN Tail(q) : i \in Nat /\ i + 1 \in DOMAIN q /\ Tail(q)[i] = q[i + 1]
         /\ \A i \in DOMAIN q : i = 1 \/ (i - 1 \in DOMAIN Tail(q) /\ Tail(q)[i - 1] = q[i])
         /\ 1 \in DOMAIN q /\ q[1] = Head(q)
         /\ \A i \in DOMAIN q : i \in Nat /\ i >= 1
  OBVIOUS

-----------------------------------------------------------------------------
(* What a host knows, for one controller.                                  *)

\* The host awaits nothing that is neither paged nor answered.
Awaits(s) ==
  \A p \in s.awaiting :
    Pages(s, p) \/ \E i \in DOMAIN s.tasks : Answer(s.tasks[i]) /\ s.tasks[i].peer = p

\* Nobody is paged for a host that awaits nothing.  An answer that is queued is
\* for a peer that is not paged, and that the host awaits; but in a Tick, which
\* sends every answer that was queued when it began, and queues none.
Paged(s, running, n) ==
  /\ s.page_ # None => s.page_.bd_addr \in s.awaiting
  /\ \A i \in DOMAIN s.tasks : Answer(s.tasks[i]) =>
       /\ ~Pages(s, s.tasks[i].peer)
       /\ running => i <= n
       /\ ~running => s.tasks[i].peer \in s.awaiting

\* Connections and their ends are reported: no handle is used again while an
\* event names it, so that Disconnection Complete comes after Connection Complete.
Told(s) ==
  /\ \A h \in Used(s.acl) \ s.told : Queued(s, "CONNECTION_COMPLETE", h)
  /\ \A h \in s.told \ Used(s.acl) : Queued(s, "DISCONNECTION_COMPLETE", h)
  /\ \A h \in Used(s.acl) : ~Queued(s, "DISCONNECTION_COMPLETE", h)
  /\ \A i \in DOMAIN s.tasks :
       s.tasks[i].type = "CONNECTION_COMPLETE" /\ s.tasks[i].handle # None =>
         /\ s.tasks[i].ok
         /\ \/ s.tasks[i].handle \in Used(s.acl)
            \/ \E j \in DOMAIN s.tasks : /\ j > i /\ s.tasks[j].type = "DISCONNECTION_COMPLETE"
                                         /\ s.tasks[j].handle = s.tasks[i].handle

\* A step of a controller keeps what its host knows.
Keeps(s, t, running, n) ==
  /\ Awaits(s) => Awaits(t)
  /\ Paged(s, running, n) => Paged(t, running, n)
  /\ Told(s) => Told(t)

\* t has more to send, ...
Queues(s, t, ts) == ts \in Seq(Task) /\ s.tasks \in Seq(Task) /\ t.tasks = s.tasks \o ts

SameHost(s, t) ==
  t.page_ = s.page_ /\ t.awaiting = s.awaiting /\ t.told = s.told /\ Used(t.acl) = Used(s.acl)

\* ... only packets, and nothing changes for the host;
Sends(s, t, ts) ==
  /\ Queues(s, t, ts) /\ SameHost(s, t)
  /\ \A i \in DOMAIN ts : ts[i].type \in PacketType

\* the end of connection h;
Ends(s, t, ts, h) ==
  /\ Queues(s, t, ts)
  /\ t.page_ = s.page_ /\ t.awaiting = s.awaiting /\ t.told = s.told
  /\ Used(t.acl) = Used(s.acl) \ {h}
  /\ \A i \in DOMAIN ts : \/ ts[i].type \in PacketType
                          \/ ts[i].type = "DISCONNECTION_COMPLETE" /\ ts[i].handle = h
  /\ \E i \in DOMAIN ts : ts[i].type = "DISCONNECTION_COMPLETE" /\ ts[i].handle = h

\* the answer to the host's Create Connection Cancel, Accept or Reject, with the
\* new connections `more`.
Answers(s, t, ts, p, more) ==
  /\ Queues(s, t, ts)
  /\ t.page_ = s.page_ \/ (Pages(s, p) /\ t.page_ = None)
  /\ t.awaiting = s.awaiting \cup {p} \/ (Pages(s, p) /\ t.awaiting = s.awaiting)
  /\ t.told = s.told /\ Used(t.acl) = Used(s.acl) \cup more
  /\ \A h \in more : h \notin Named(s)
  /\ \A i \in DOMAIN ts :
       \/ ts[i].type \in PacketType
       \/ /\ Answer(ts[i]) /\ ts[i].peer = p
          /\ ts[i].handle # None => ts[i].ok /\ ts[i].handle \in more
  /\ \E i \in DOMAIN ts : Answer(ts[i]) /\ ts[i].peer = p
  /\ \A h \in more : \E i \in DOMAIN ts : ts[i].type = "CONNECTION_COMPLETE" /\ ts[i].handle = h

\* The page is over, with a new connection or with none.
Unpages(s, t, p, more) ==
  /\ Pages(s, p) /\ t.tasks = s.tasks
  /\ t.page_ = None /\ t.awaiting = s.awaiting \ {p}
  /\ t.told = s.told \cup more /\ Used(t.acl) = Used(s.acl) \cup more
  /\ \A h \in more : h \notin Named(s)

\* How the queue of t reads.
LEMMA QueuesReads ==
  ASSUME NEW s, NEW t, NEW ts, Queues(s, t, ts)
  PROVE  /\ \A i \in DOMAIN s.tasks : i \in DOMAIN t.tasks /\ t.tasks[i] = s.tasks[i] /\ i \in Nat
         /\ \A k \in DOMAIN ts : \E j \in DOMAIN t.tasks :
              t.tasks[j] = ts[k] /\ \A i \in DOMAIN s.tasks : j > i
         /\ \A j \in DOMAIN t.tasks :
              \/ j \in DOMAIN s.tasks /\ t.tasks[j] = s.tasks[j]
              \/ \E k \in DOMAIN ts : t.tasks[j] = ts[k]
         /\ \A type, h : Queued(s, type, h) => Queued(t, type, h)
<1> DEFINE q == s.tasks
           r == t.tasks
<1>1. /\ \A i \in DOMAIN q : i \in DOMAIN r /\ r[i] = q[i]
      /\ \A k \in DOMAIN ts : /\ Len(q) + k \in DOMAIN r
                              /\ r[Len(q) + k] = ts[k]
                              /\ \A i \in DOMAIN q : Len(q) + k > i
      /\ \A j \in DOMAIN r : j \in DOMAIN q \/ \E k \in DOMAIN ts : j = Len(q) + k
  BY AppendIndices, SMTT(30) DEF Queues
<1>2. \A i \in DOMAIN q : i \in Nat
  BY DEF Queues
<1> HIDE DEF q, r
<1>3. \A k \in DOMAIN ts : \E j \in DOMAIN r : r[j] = ts[k] /\ \A i \in DOMAIN q : j > i
  BY <1>1
<1>4. \A j \in DOMAIN r : \/ j \in DOMAIN q /\ r[j] = q[j]
                          \/ \E k \in DOMAIN ts : r[j] = ts[k]
  BY <1>1
<1>5. \A type, h : (\E i \in DOMAIN q : q[i].type = type /\ q[i].handle = h)
                     => \E i \in DOMAIN r : r[i].type = type /\ r[i].handle = h
  BY <1>1
<1> QED
  BY <1>1, <1>2, <1>3, <1>4, <1>5, SMTT(30) DEF Queued, q, r

\* Packets change nothing the host knows.
LEMMA SendsKeeps ==
  ASSUME NEW s, NEW t, NEW ts, Sends(s, t, ts), NEW running, NEW n
  PROVE  Keeps(s, t, running, n)
<1>0. Queues(s, t, ts) /\ SameHost(s, t) /\ \A i \in DOMAIN ts : ts[i].type \in PacketType
  BY DEF Sends
<1>1. /\ \A i \in DOMAIN s.tasks : i \in DOMAIN t.tasks /\ t.tasks[i] = s.tasks[i]
      /\ \A j \in DOMAIN t.tasks : \/ j \in DOMAIN s.tasks /\ t.tasks[j] = s.tasks[j]
                                   \/ t.tasks[j].type \in PacketType
      /\ \A type, h : Queued(s, type, h) => Queued(t, type, h)
  BY <1>0, QueuesReads
<1>2. \A p : Pages(t, p) <=> Pages(s, p)
  BY <1>0 DEF Pages, SameHost
<1>3. Awaits(s) => Awaits(t)
  BY <1>0, <1>1, <1>2 DEF Awaits, SameHost
<1>4. Paged(s, running, n) => Paged(t, running, n)
  <2>1. \A j \in DOMAIN t.tasks : Answer(t.tasks[j]) => j \in DOMAIN s.tasks /\ t.tasks[j] = s.tasks[j]
    BY <1>1 DEF Answer, PacketType
  <2> QED
    BY <1>0, <1>2, <2>1 DEF Paged, SameHost
<1>5. ASSUME Told(s) PROVE Told(t)
  <2>1. \A h : Queued(t, "DISCONNECTION_COMPLETE", h) => Queued(s, "DISCONNECTION_COMPLETE", h)
    BY <1>1, SMTT(30) DEF Queued, PacketType
  <2>2. ASSUME NEW i \in DOMAIN t.tasks, t.tasks[i].type = "CONNECTION_COMPLETE", t.tasks[i].handle # None
        PROVE  /\ t.tasks[i].ok
               /\ \/ t.tasks[i].handle \in Used(t.acl)
                  \/ \E j \in DOMAIN t.tasks : /\ j > i /\ t.tasks[j].type = "DISCONNECTION_COMPLETE"
                                               /\ t.tasks[j].handle = t.tasks[i].handle
    <3>1. i \in DOMAIN s.tasks /\ t.tasks[i] = s.tasks[i]
      BY <1>1, <2>2, SMTT(30) DEF PacketType
    <3> QED
      BY <1>0, <1>1, <1>5, <2>2, <3>1 DEF Told, SameHost
  <2>3. /\ \A h \in Used(t.acl) \ t.told : Queued(t, "CONNECTION_COMPLETE", h)
        /\ \A h \in t.told \ Used(t.acl) : Queued(t, "DISCONNECTION_COMPLETE", h)
        /\ \A h \in Used(t.acl) : ~Queued(t, "DISCONNECTION_COMPLETE", h)
    BY <1>0, <1>1, <1>5, <2>1 DEF Told, SameHost
  <2> QED
    BY <2>2, <2>3 DEF Told
<1> QED
  BY <1>3, <1>4, <1>5 DEF Keeps

\* The end of a connection is reported after the connection.
LEMMA EndsKeeps ==
  ASSUME NEW s, NEW t, NEW ts, NEW h, Ends(s, t, ts, h), NEW running, NEW n
  PROVE  Keeps(s, t, running, n)
<1>0. /\ Queues(s, t, ts)
      /\ t.page_ = s.page_ /\ t.awaiting = s.awaiting /\ t.told = s.told
      /\ Used(t.acl) = Used(s.acl) \ {h}
  BY DEF Ends
<1>1. /\ \A i \in DOMAIN s.tasks : i \in DOMAIN t.tasks /\ t.tasks[i] = s.tasks[i]
      /\ \A j \in DOMAIN t.tasks :
           \/ j \in DOMAIN s.tasks /\ t.tasks[j] = s.tasks[j]
           \/ t.tasks[j].type \in PacketType
           \/ t.tasks[j].type = "DISCONNECTION_COMPLETE" /\ t.tasks[j].handle = h
      /\ \A type, g : Queued(s, type, g) => Queued(t, type, g)
  BY <1>0, QueuesReads DEF Ends
<1>a. PICK k \in DOMAIN ts : ts[k].type = "DISCONNECTION_COMPLETE" /\ ts[k].handle = h
  BY DEF Ends
<1>b. PICK e \in DOMAIN t.tasks : t.tasks[e] = ts[k] /\ \A i \in DOMAIN s.tasks : e > i
  BY <1>0, QueuesReads
<1>2. \A p : Pages(t, p) <=> Pages(s, p)
  BY <1>0, SMTT(30) DEF Pages
<1>3. Awaits(s) => Awaits(t)
  BY <1>0, <1>1, <1>2, SMTT(30) DEF Awaits
<1>4. Paged(s, running, n) => Paged(t, running, n)
  <2>1. \A j \in DOMAIN t.tasks : Answer(t.tasks[j]) => j \in DOMAIN s.tasks /\ t.tasks[j] = s.tasks[j]
    BY <1>1, SMTT(30) DEF Answer, PacketType
  <2> QED
    BY <1>0, <1>2, <2>1 DEF Paged
<1>5. ASSUME Told(s) PROVE Told(t)
  <2>1. \A g : Queued(t, "DISCONNECTION_COMPLETE", g) => g = h \/ Queued(s, "DISCONNECTION_COMPLETE", g)
    BY <1>1 DEF Queued, PacketType
  <2>2. ASSUME NEW i \in DOMAIN t.tasks, t.tasks[i].type = "CONNECTION_COMPLETE", t.tasks[i].handle # None
        PROVE  /\ t.tasks[i].ok
               /\ \/ t.tasks[i].handle \in Used(t.acl)
                  \/ \E j \in DOMAIN t.tasks : /\ j > i /\ t.tasks[j].type = "DISCONNECTION_COMPLETE"
                                               /\ t.tasks[j].handle = t.tasks[i].handle
    <3>1. i \in DOMAIN s.tasks /\ t.tasks[i] = s.tasks[i]
      BY <1>1, <2>2 DEF PacketType
    <3>2. CASE t.tasks[i].handle = h
      BY <1>5, <1>a, <1>b, <2>2, <3>1, <3>2, ZenonT(60) DEF Told
    <3>3. CASE t.tasks[i].handle # h
      BY <1>0, <1>1, <1>5, <2>2, <3>1, <3>3, SMTT(30) DEF Told
    <3> QED
      BY <3>2, <3>3
  <2>3. Queued(t, "DISCONNECTION_COMPLETE", h)
    BY <1>a, <1>b, SMTT(60) DEF Queued
  <2>4. /\ \A g \in Used(t.acl) \ t.told : Queued(t, "CONNECTION_COMPLETE", g)
        /\ \A g \in t.told \ Used(t.acl) : Queued(t, "DISCONNECTION_COMPLETE", g)
        /\ \A g \in Used(t.acl) : ~Queued(t, "DISCONNECTION_COMPLETE", g)
    BY <1>0, <1>1, <1>5, <2>1, <2>3 DEF Told
  <2> QED
    BY <2>2, <2>4 DEF Told
<1> QED
  BY <1>3, <1>4, <1>5 DEF Keeps

\* Create Connection Cancel, Accept and Reject queue their answer; a rejected peer
\* may go on being paged.
LEMMA AnswersKeeps ==
  ASSUME NEW s, NEW t, NEW ts, NEW p, NEW more, Answers(s, t, ts, p, more), NEW n
  PROVE  /\ Awaits(s) => Awaits(t)
         /\ Paged(s, FALSE, n) /\ ~Pages(t, p) => Paged(t, FALSE, n)
         /\ Told(s) => Told(t)
<1>0. /\ Queues(s, t, ts)
      /\ t.page_ = s.page_ \/ (Pages(s, p) /\ t.page_ = None)
      /\ t.awaiting = s.awaiting \cup {p} \/ (Pages(s, p) /\ t.awaiting = s.awaiting)
      /\ t.told = s.told /\ Used(t.acl) = Used(s.acl) \cup more
      /\ \A h \in more : h \notin Named(s)
  BY ZenonT(60) DEF Answers
<1>1. /\ \A i \in DOMAIN s.tasks : i \in DOMAIN t.tasks /\ t.tasks[i] = s.tasks[i]
      /\ \A j \in DOMAIN t.tasks :
           \/ j \in DOMAIN s.tasks /\ t.tasks[j] = s.tasks[j]
           \/ t.tasks[j].type \in PacketType
           \/ /\ Answer(t.tasks[j]) /\ t.tasks[j].peer = p
              /\ t.tasks[j].handle # None => t.tasks[j].ok /\ t.tasks[j].handle \in more
      /\ \A type, g : Queued(s, type, g) => Queued(t, type, g)
  BY <1>0, QueuesReads, SMTT(60) DEF Answers
<1>a. \E j \in DOMAIN t.tasks : Answer(t.tasks[j]) /\ t.tasks[j].peer = p
  BY <1>0, QueuesReads, SMTT(60) DEF Answers
<1>b. \A h \in more : Queued(t, "CONNECTION_COMPLETE", h)
  BY <1>0, QueuesReads, SMTT(30) DEF Answers, Queued
<1>2. \A q : Pages(t, q) => Pages(s, q)
  BY <1>0 DEF Pages
<1>3. Awaits(s) => Awaits(t)
  <2>1. ASSUME Awaits(s), NEW q \in t.awaiting, q # p
        PROVE  Pages(t, q) \/ \E i \in DOMAIN t.tasks : Answer(t.tasks[i]) /\ t.tasks[i].peer = q
    <3>1. Pages(s, q) => Pages(t, q)
      BY <1>0, <2>1 DEF Pages
    <3> QED
      BY <1>0, <1>1, <2>1, <3>1, SMTT(30) DEF Awaits
  <2> QED
    BY <1>a, <2>1, SMTT(60) DEF Awaits
<1>4. ASSUME Paged(s, FALSE, n), ~Pages(t, p) PROVE Paged(t, FALSE, n)
  <2>1. \A j \in DOMAIN t.tasks : Answer(t.tasks[j]) =>
          \/ j \in DOMAIN s.tasks /\ t.tasks[j] = s.tasks[j]
          \/ t.tasks[j].peer = p
    BY <1>1 DEF Answer, PacketType
  <2>2. p \in t.awaiting
    BY <1>0, <1>4, SMTT(30) DEF Paged, Pages
  <2>3. t.page_ # None => t.page_.bd_addr \in t.awaiting
    BY <1>0, <1>4 DEF Paged
  <2>4. s.awaiting \subseteq t.awaiting
    BY <1>0, SMTT(30)
  <2> QED
    BY <1>2, <1>4, <2>1, <2>2, <2>3, <2>4, SMTT(60) DEF Paged
<1>5. ASSUME Told(s) PROVE Told(t)
  <2>1. \A g : Queued(t, "DISCONNECTION_COMPLETE", g) => Queued(s, "DISCONNECTION_COMPLETE", g)
    BY <1>1, SMTT(60) DEF Queued, PacketType, Answer
  <2>2. ASSUME NEW i \in DOMAIN t.tasks, t.tasks[i].type = "CONNECTION_COMPLETE", t.tasks[i].handle # None
        PROVE  /\ t.tasks[i].ok
               /\ \/ t.tasks[i].handle \in Used(t.acl)
                  \/ \E j \in DOMAIN t.tasks : /\ j > i /\ t.tasks[j].type = "DISCONNECTION_COMPLETE"
                                               /\ t.tasks[j].handle = t.tasks[i].handle
    <3>1. CASE i \in DOMAIN s.tasks /\ t.tasks[i] = s.tasks[i]
      BY <1>0, <1>1, <1>5, <2>2, <3>1, SMTT(60) DEF Told
    <3>2. CASE t.tasks[i].ok /\ t.tasks[i].handle \in more
      BY <1>0, <3>2
    <3> QED
      BY <1>1, <2>2, <3>1, <3>2, ZenonT(60) DEF PacketType
  <2>3. \A h \in more : ~Queued(s, "DISCONNECTION_COMPLETE", h)
    BY <1>0, ZenonT(60) DEF Queued, Named
  <2>4. /\ \A g \in Used(t.acl) \ t.told : Queued(t, "CONNECTION_COMPLETE", g)
        /\ \A g \in t.told \ Used(t.acl) : Queued(t, "DISCONNECTION_COMPLETE", g)
        /\ \A g \in Used(t.acl) : ~Queued(t, "DISCONNECTION_COMPLETE", g)
    BY <1>0, <1>1, <1>5, <1>b, <2>1, <2>3 DEF Told
  <2> QED
    BY <2>2, <2>4 DEF Told
<1> QED
  BY <1>3, <1>4, <1>5, ZenonT(60)

\* The end of a page answers the host.
LEMMA UnpagesKeeps ==
  ASSUME NEW s, NEW t, NEW p, NEW more, Unpages(s, t, p, more), NEW running, NEW n
  PROVE  Keeps(s, t, running, n)
<1>0. /\ Pages(s, p) /\ t.tasks = s.tasks
      /\ t.page_ = None /\ t.awaiting = s.awaiting \ {p}
      /\ t.told = s.told \cup more /\ Used(t.acl) = Used(s.acl) \cup more
      /\ \A h \in more : h \notin Named(s)
  BY DEF Unpages
<1>1. Awaits(s) => Awaits(t)
  BY <1>0 DEF Awaits, Pages
<1>2. Paged(s, running, n) => Paged(t, running, n)
  BY <1>0, SMTT(60) DEF Paged, Pages
<1>3. ASSUME Told(s) PROVE Told(t)
  <2>1. \A type, g : Queued(t, type, g) <=> Queued(s, type, g)
    BY <1>0 DEF Queued
  <2>2. \A h \in more : ~Queued(s, "DISCONNECTION_COMPLETE", h)
    BY <1>0, SMTT(30) DEF Queued, Named
  <2>3. /\ \A g \in Used(t.acl) \ t.told : Queued(t, "CONNECTION_COMPLETE", g)
        /\ \A g \in t.told \ Used(t.acl) : Queued(t, "DISCONNECTION_COMPLETE", g)
        /\ \A g \in Used(t.acl) : ~Queued(t, "DISCONNECTION_COMPLETE", g)
    BY <1>0, <1>3, <2>1, <2>2 DEF Told
  <2> QED
    BY <1>0, <1>3, <2>3, SMTT(60) DEF Told
<1> QED
  BY <1>1, <1>2, <1>3 DEF Keeps

\* Create Connection: the peer was not awaited, so no answer names it.
LEMMA CreateKeeps ==
  ASSUME NEW s \in Controller, NEW p \in Ctrl, p \notin s.awaiting, s.page_ = None,
         NEW allow \in BOOLEAN, NEW n
  PROVE  Keeps(s, CreateConnection(s, p, allow), FALSE, n)
<1> DEFINE t == CreateConnection(s, p, allow)
<1>1. /\ t.page_ = [bd_addr |-> p, allow_role_switch |-> allow] /\ t.awaiting = s.awaiting \cup {p}
      /\ t.tasks = s.tasks /\ t.told = s.told /\ t.acl = s.acl
  BY DEF CreateConnection, Controller
<1>2. t.page_ \in Page /\ t.page_ # None /\ t.page_.bd_addr = p
  BY <1>1, NoneAssumption DEF Page
<1> HIDE DEF t
<1>3. \A q : Pages(t, q) <=> q = p
  BY <1>2 DEF Pages
<1>4. Awaits(s) => Awaits(t)
  BY <1>1, <1>3 DEF Awaits, Pages
<1>5. Paged(s, FALSE, n) => Paged(t, FALSE, n)
  BY <1>1, <1>2, <1>3, SMTT(30) DEF Paged
<1>6. Told(s) => Told(t)
  BY <1>1 DEF Told, Queued
<1> QED
  BY <1>4, <1>5, <1>6, ZenonT(60) DEF Keeps, t

\* One task is taken from the queue: an answer, or an event, reaches the host.
Pops(s, t, x) ==
  /\ s.tasks \in Seq(Task) /\ s.tasks # <<>> /\ x = Head(s.tasks) /\ t.tasks = Tail(s.tasks)
  /\ t.page_ = s.page_ /\ Used(t.acl) = Used(s.acl)
  /\ t.awaiting = IF Answer(x) THEN s.awaiting \ {x.peer} ELSE s.awaiting
  /\ t.told = IF x.type = "CONNECTION_COMPLETE" /\ x.ok THEN s.told \cup {x.handle}
              ELSE IF x.type = "DISCONNECTION_COMPLETE" THEN s.told \ {x.handle}
              ELSE s.told

\* What the host is told keeps it informed.
LEMMA PopsKeeps ==
  ASSUME NEW s, NEW t, NEW x, Pops(s, t, x), NEW n \in Nat, x \in Task
  PROVE  /\ Awaits(s) => Awaits(t)
         /\ Paged(s, TRUE, n) => Paged(t, TRUE, n - 1)
         /\ Told(s) => Told(t)
<1>0. /\ s.tasks \in Seq(Task) /\ s.tasks # <<>> /\ x = Head(s.tasks) /\ t.tasks = Tail(s.tasks)
      /\ t.page_ = s.page_ /\ Used(t.acl) = Used(s.acl)
      /\ t.awaiting = IF Answer(x) THEN s.awaiting \ {x.peer} ELSE s.awaiting
      /\ t.told = IF x.type = "CONNECTION_COMPLETE" /\ x.ok THEN s.told \cup {x.handle}
                  ELSE IF x.type = "DISCONNECTION_COMPLETE" THEN s.told \ {x.handle}
                  ELSE s.told
  BY DEF Pops
<1>1. /\ \A i \in DOMAIN t.tasks : i \in Nat /\ i + 1 \in DOMAIN s.tasks /\ t.tasks[i] = s.tasks[i + 1]
      /\ \A i \in DOMAIN s.tasks : i = 1 \/ (i - 1 \in DOMAIN t.tasks /\ t.tasks[i - 1] = s.tasks[i])
      /\ 1 \in DOMAIN s.tasks /\ s.tasks[1] = x
      /\ \A i \in DOMAIN s.tasks : i \in Nat /\ i >= 1
  BY <1>0, TailIndices
<1>2. \A p : Pages(t, p) <=> Pages(s, p)
  BY <1>0 DEF Pages
<1> HIDE <1>0
<1>3. ASSUME Awaits(s) PROVE Awaits(t)
  <2>1. ASSUME NEW p \in t.awaiting, ~Pages(t, p)
        PROVE  \E i \in DOMAIN t.tasks : Answer(t.tasks[i]) /\ t.tasks[i].peer = p
    <3>1. p \in s.awaiting /\ (Answer(x) => p # x.peer)
      BY <1>0, <2>1
    <3>2. PICK i \in DOMAIN s.tasks : Answer(s.tasks[i]) /\ s.tasks[i].peer = p
      BY <1>2, <1>3, <2>1, <3>1, SMTT(30) DEF Awaits
    <3>3. i # 1
      BY <1>1, <3>1, <3>2
    <3> QED
      BY <1>1, <3>2, <3>3, SMTT(30)
  <2> QED
    BY <2>1 DEF Awaits
<1>4. ASSUME Paged(s, TRUE, n) PROVE Paged(t, TRUE, n - 1)
  <2>1. ASSUME t.page_ # None
        PROVE  t.page_.bd_addr \in t.awaiting
    <3>1. Pages(s, t.page_.bd_addr) /\ t.page_.bd_addr \in s.awaiting
      BY <1>0, <1>4, <2>1, SMTT(30) DEF Paged, Pages
    <3>2. Answer(x) => ~Pages(s, x.peer)
      BY <1>1, <1>4 DEF Paged
    <3> QED
      BY <1>0, <3>1, <3>2, SMTT(30)
  <2>2. ASSUME NEW i \in DOMAIN t.tasks, Answer(t.tasks[i])
        PROVE  ~Pages(t, t.tasks[i].peer) /\ i <= n - 1
    <3>1. i \in Nat /\ i + 1 \in DOMAIN s.tasks /\ t.tasks[i] = s.tasks[i + 1]
      BY <1>1
    <3>2. ~Pages(s, s.tasks[i + 1].peer) /\ i + 1 <= n
      BY <1>4, <2>2, <3>1, SMTT(60) DEF Paged
    <3> QED
      BY <1>2, <3>1, <3>2
  <2> QED
    BY <2>1, <2>2, SMTT(30) DEF Paged
<1>5. ASSUME Told(s) PROVE Told(t)
  <2>1. \A type, g : Queued(t, type, g) => Queued(s, type, g)
    BY <1>1 DEF Queued
  <2>2. \A type, g : Queued(s, type, g) => Queued(t, type, g) \/ (x.type = type /\ x.handle = g)
    BY <1>1, SMTT(60) DEF Queued
  <2>3. ASSUME NEW i \in DOMAIN t.tasks, t.tasks[i].type = "CONNECTION_COMPLETE", t.tasks[i].handle # None
        PROVE  /\ t.tasks[i].ok
               /\ \/ t.tasks[i].handle \in Used(t.acl)
                  \/ \E j \in DOMAIN t.tasks : /\ j > i /\ t.tasks[j].type = "DISCONNECTION_COMPLETE"
                                               /\ t.tasks[j].handle = t.tasks[i].handle
    <3>1. i \in Nat /\ i + 1 \in DOMAIN s.tasks /\ t.tasks[i] = s.tasks[i + 1]
      BY <1>1
    <3>2. /\ s.tasks[i + 1].ok
          /\ \/ s.tasks[i + 1].handle \in Used(s.acl)
             \/ \E j \in DOMAIN s.tasks : /\ j > i + 1 /\ s.tasks[j].type = "DISCONNECTION_COMPLETE"
                                          /\ s.tasks[j].handle = s.tasks[i + 1].handle
      BY <1>5, <2>3, <3>1, SMTT(60) DEF Told
    <3>3. CASE s.tasks[i + 1].handle \in Used(s.acl)
      BY <1>0, <3>1, <3>2, <3>3, SMTT(30)
    <3>4. ASSUME NEW j \in DOMAIN s.tasks, j > i + 1, s.tasks[j].type = "DISCONNECTION_COMPLETE",
                 s.tasks[j].handle = s.tasks[i + 1].handle
          PROVE  \E k \in DOMAIN t.tasks : /\ k > i /\ t.tasks[k].type = "DISCONNECTION_COMPLETE"
                                           /\ t.tasks[k].handle = t.tasks[i].handle
      <4>1. j # 1 /\ j \in Nat
        BY <1>1, <3>1, <3>4, SMTT(30)
      <4>2. j - 1 \in DOMAIN t.tasks /\ t.tasks[j - 1] = s.tasks[j] /\ j - 1 > i
        BY <1>1, <3>1, <3>4, <4>1, SMTT(30)
      <4> QED
        BY <3>1, <3>4, <4>2, SMTT(30)
    <3> QED
      BY <3>1, <3>2, <3>3, <3>4, ZenonT(60)
  <2>4. ASSUME NEW g \in Used(t.acl) \ t.told PROVE Queued(t, "CONNECTION_COMPLETE", g)
    <3>0. g \in Used(s.acl) /\ g # None
      BY <1>0, NoneAssumption DEF Used
    <3>1. g \notin s.told
      <4>1. ~Queued(s, "DISCONNECTION_COMPLETE", g)
        BY <1>5, <3>0 DEF Told
      <4>2. x.type = "DISCONNECTION_COMPLETE" => x.handle # g
        BY <1>1, <4>1, SMTT(30) DEF Queued
      <4> QED
        BY <1>0, <2>4, <4>2, SMTT(30)
    <3>2. Queued(s, "CONNECTION_COMPLETE", g)
      BY <1>5, <3>0, <3>1, SMTT(30) DEF Told
    <3>3. x.type = "CONNECTION_COMPLETE" => x.handle # g
      <4>1. x.type = "CONNECTION_COMPLETE" /\ x.handle = g => x.ok
        BY <1>1, <1>5, <3>0 DEF Told
      <4> QED
        BY <1>0, <2>4, <4>1, SMTT(30)
    <3> QED
      BY <2>2, <3>2, <3>3, SMTT(30)
  <2>5. ASSUME NEW g \in t.told \ Used(t.acl) PROVE Queued(t, "DISCONNECTION_COMPLETE", g)
    <3>0. g \notin Used(s.acl)
      BY <1>0, <2>5
    <3>1. CASE g \in s.told
      <4>1. Queued(s, "DISCONNECTION_COMPLETE", g)
        BY <1>5, <3>0, <3>1, SMTT(30) DEF Told
      <4>2. x.type = "DISCONNECTION_COMPLETE" => x.handle # g
        BY <1>0, <2>5
      <4> QED
        BY <2>2, <4>1, <4>2, SMTT(30)
    <3>2. CASE g \notin s.told
      <4>1. x.type = "CONNECTION_COMPLETE" /\ x.ok /\ x.handle = g
        BY <1>0, <2>5, <3>2
      <4>2. x.handle # None
        BY <4>1, SMTT(30) DEF Task
      <4>3. PICK j \in DOMAIN s.tasks : /\ j > 1 /\ s.tasks[j].type = "DISCONNECTION_COMPLETE"
                                        /\ s.tasks[j].handle = g
        BY <1>1, <1>5, <3>0, <4>1, <4>2, SMTT(30) DEF Told
      <4>4. j - 1 \in DOMAIN t.tasks /\ t.tasks[j - 1] = s.tasks[j]
        BY <1>1, <4>3, SMTT(60)
      <4> QED
        BY <4>3, <4>4, SMTT(30) DEF Queued
    <3> QED
      BY <3>1, <3>2
  <2>6. \A g \in Used(t.acl) : ~Queued(t, "DISCONNECTION_COMPLETE", g)
    BY <1>0, <1>5, <2>1, SMTT(60) DEF Told
  <2> QED
    BY <2>3, <2>4, <2>5, <2>6, SMTT(30) DEF Told
<1> QED
  BY <1>3, <1>4, <1>5, ZenonT(60)

-----------------------------------------------------------------------------
(* What the handlers do, as far as the host can tell.                      *)

ScoApart(s, c) == \A h \in Handles : s.sco[h] # None => s.sco[h].address # c
AclApart(s, c) == \A h \in Handles : s.acl[h] # None => s.acl[h].address # c

\* The controller deals with its peers only, never with itself.
Apart(s, c) ==
  /\ AclApart(s, c) /\ ScoApart(s, c)
  /\ s.page_ # None => s.page_.bd_addr # c
  /\ \A i \in DOMAIN s.tasks : s.tasks[i].peer # c

\* Only the SCO connections and what concerns no property here may differ.
Leaves(s, t, c) ==
  /\ t.acl = s.acl /\ t.page_ = s.page_ /\ t.tasks = s.tasks
  /\ t.awaiting = s.awaiting /\ t.told = s.told
  /\ ScoApart(s, c) => ScoApart(t, c)

\* The host is not concerned.
Quietly(s, t, c) == (\E ts : Sends(s, t, ts)) /\ (Apart(s, c) => Apart(t, c))

\* A queue with new tasks for others.
LEMMA ApartTasks ==
  ASSUME NEW s, NEW t, NEW ts, Queues(s, t, ts), NEW c, \A i \in DOMAIN ts : ts[i].peer # c,
         \A i \in DOMAIN s.tasks : s.tasks[i].peer # c
  PROVE  \A i \in DOMAIN t.tasks : t.tasks[i].peer # c
  BY QueuesReads

\* The packet a handler sends.
LEMMA SendOne ==
  ASSUME NEW s \in Controller, NEW t \in Controller, NEW c, Leaves(s, t, c),
         NEW type \in PacketType, NEW p \in Ctrl, p # c, NEW ok \in BOOLEAN
  PROVE  Quietly(s, Send(t, <<Packet(type, p, ok)>>), c)
<1> DEFINE ts == <<Packet(type, p, ok)>>
           u == Send(t, ts)
<1>1. ts \in Seq(Task) /\ s.tasks \in Seq(Task)
  BY TaskType, OneOrTwo DEF Controller
<1>2. \A i \in DOMAIN ts : ts[i].type \in PacketType /\ ts[i].peer # c
  BY DEF Packet
<1> HIDE DEF ts
<1>3. /\ u.acl = s.acl /\ u.page_ = s.page_ /\ u.tasks = s.tasks \o ts
      /\ u.awaiting = s.awaiting /\ u.told = s.told /\ u.sco = t.sco
  BY DEF Send, Controller, Leaves
<1> HIDE DEF u
<1>4. Queues(s, u, ts)
  BY <1>1, <1>3 DEF Queues
<1>5. Sends(s, u, ts)
  BY <1>2, <1>3, <1>4, ZenonT(60) DEF Sends, SameHost
<1>6. Apart(s, c) => Apart(u, c)
  BY <1>2, <1>3, <1>4, ApartTasks, SMTT(60) DEF Apart, Leaves, AclApart, ScoApart
<1> QED
  BY <1>5, <1>6 DEF Quietly, u, ts

\* Nothing is sent.
LEMMA LeavesQuietly ==
  ASSUME NEW s \in Controller, NEW t, NEW c, Leaves(s, t, c)
  PROVE  Quietly(s, t, c)
<1>1. s.tasks \in Seq(Task) /\ <<>> \in Seq(Task)
  BY DEF Controller
<1>2. s.tasks = s.tasks \o <<>>
  BY <1>1
<1>3. Sends(s, t, <<>>)
  BY <1>1, <1>2 DEF Sends, Queues, SameHost, Leaves
<1> QED
  BY <1>3 DEF Quietly, Apart, AclApart, Leaves

\* The table of SCO connections is no concern of the ACL host state.
LEMMA ScoLeaves ==
  ASSUME NEW s \in Controller, NEW p \in Ctrl, NEW c, p # c
  PROVE  /\ \A state \in {"PENDING", "SENT", "OPENED"} : Leaves(s, AddSco(s, p, state), c)
         /\ Leaves(s, RemoveSco(s, p), c)
         /\ ScoOf(s, p) # {} => Leaves(s, OpenSco(s, p), c)
<1>0. s.sco \in [Handles -> Sco \cup {None}]
  BY DEF Controller
<1>1. ASSUME NEW state \in {"PENDING", "SENT", "OPENED"}
      PROVE  Leaves(s, AddSco(s, p, state), c)
  <2> DEFINE g == UnusedSco(s)
             r == [address |-> p, state |-> state]
             t == [s EXCEPT !.sco = [s.sco EXCEPT ![g] = r]]
  <2>1. AddSco(s, p, state) = t
    BY DEF AddSco, Controller
  <2>2. r.address = p
    OBVIOUS
  <2> HIDE DEF r, g
  <2>3. /\ t.acl = s.acl /\ t.page_ = s.page_ /\ t.tasks = s.tasks
        /\ t.awaiting = s.awaiting /\ t.told = s.told /\ t.sco = [s.sco EXCEPT ![g] = r]
    BY DEF Controller
  <2> HIDE DEF t
  <2>4. \A h \in Handles : t.sco[h] = s.sco[h] \/ t.sco[h] = r
    BY <1>0, <2>3
  <2> QED
    BY <2>1, <2>2, <2>3, <2>4 DEF Leaves, ScoApart
<1>2. Leaves(s, RemoveSco(s, p), c)
  <2>1. CASE ScoOf(s, p) = {}
    BY <2>1, SMTT(30) DEF RemoveSco, Leaves
  <2>2. CASE ScoOf(s, p) # {}
    <3> DEFINE g == GetScoConnectionHandle(s, p)
               t == [s EXCEPT !.sco = [s.sco EXCEPT ![g] = None]]
    <3>1. RemoveSco(s, p) = t
      BY <2>2 DEF RemoveSco, Controller
    <3> HIDE DEF g
    <3>2. /\ t.acl = s.acl /\ t.page_ = s.page_ /\ t.tasks = s.tasks
          /\ t.awaiting = s.awaiting /\ t.told = s.told /\ t.sco = [s.sco EXCEPT ![g] = None]
      BY DEF Controller
    <3> HIDE DEF t
    <3>3. \A h \in Handles : t.sco[h] = s.sco[h] \/ t.sco[h] = None
      BY <1>0, <3>2
    <3> QED
      BY <3>1, <3>2, <3>3 DEF Leaves, ScoApart
  <2> QED
    BY <2>1, <2>2
<1>3. ASSUME ScoOf(s, p) # {} PROVE Leaves(s, OpenSco(s, p), c)
  <2> DEFINE g == GetScoConnectionHandle(s, p)
             r == [s.sco[g] EXCEPT !.state = "OPENED"]
             t == [s EXCEPT !.sco = [s.sco EXCEPT ![g] = r]]
  <2>1. g \in Handles /\ s.sco[g] # None /\ s.sco[g].address = p
    BY <1>3 DEF GetScoConnectionHandle, ScoOf
  <2>2. s.sco[g] \in Sco
    BY <1>0, <2>1
  <2>3. r.address = p
    BY <2>1, <2>2 DEF Sco
  <2>4. OpenSco(s, p) = t
    BY <1>0, <2>1 DEF OpenSco, Controller
  <2> HIDE DEF r, g
  <2>5. /\ t.acl = s.acl /\ t.page_ = s.page_ /\ t.tasks = s.tasks
        /\ t.awaiting = s.awaiting /\ t.told = s.told /\ t.sco = [s.sco EXCEPT ![g] = r]
    BY DEF Controller
  <2> HIDE DEF t
  <2>6. \A h \in Handles : t.sco[h] = s.sco[h] \/ t.sco[h] = r
    BY <1>0, <2>5
  <2> QED
    BY <2>3, <2>4, <2>5, <2>6 DEF Leaves, ScoApart
<1> QED
  BY <1>1, <1>2, <1>3

\* A change of a connection's role or link policy leaves the handles in use.
LEMMA ChangeQuietly ==
  ASSUME NEW s \in Controller, NEW h \in Handles, s.acl[h] # None, NEW c,
         NEW a \in Acl, a.address = s.acl[h].address,
         NEW t, t = [s EXCEPT !.acl = [s.acl EXCEPT ![h] = a]]
  PROVE  /\ t \in Controller
         /\ Quietly(s, t, c)
         /\ \A type \in PacketType, p \in Ctrl, ok \in BOOLEAN :
              p # c => Quietly(s, Send(t, <<Packet(type, p, ok)>>), c)
<1>0. s.acl \in [Handles -> Acl \cup {None}] /\ a # None
  BY NoneAssumption DEF Controller
<1>1. [s.acl EXCEPT ![h] = a] \in [Handles -> Acl \cup {None}]
  BY <1>0
<1>2. t \in Controller
  BY <1>1, ZenonT(60) DEF Controller
<1>3. /\ t.page_ = s.page_ /\ t.tasks = s.tasks /\ t.sco = s.sco
      /\ t.awaiting = s.awaiting /\ t.told = s.told /\ t.acl = [s.acl EXCEPT ![h] = a]
  BY DEF Controller
<1>4. \A g \in Handles : t.acl[g] = IF g = h THEN a ELSE s.acl[g]
  BY <1>0, <1>3
<1>5. Used(t.acl) = Used(s.acl)
  BY <1>0, <1>4 DEF Used
<1>6. Apart(s, c) => Apart(t, c)
  BY <1>0, <1>3, <1>4 DEF Apart, AclApart, ScoApart
<1>7. s.tasks \in Seq(Task) /\ <<>> \in Seq(Task)
  BY DEF Controller
<1>8. Quietly(s, t, c)
  <2>1. s.tasks = s.tasks \o <<>>
    BY <1>7
  <2>2. Sends(s, t, <<>>)
    BY <1>3, <1>5, <1>7, <2>1 DEF Sends, Queues, SameHost
  <2> QED
    BY <1>6, <2>2 DEF Quietly
<1>9. ASSUME NEW type \in PacketType, NEW p \in Ctrl, NEW ok \in BOOLEAN, p # c
      PROVE  Quietly(s, Send(t, <<Packet(type, p, ok)>>), c)
  <2>1. Leaves(t, t, c)
    BY DEF Leaves
  <2>2. Quietly(t, Send(t, <<Packet(type, p, ok)>>), c)
    BY <1>2, <1>9, <2>1, SendOne
  <2> DEFINE u == Send(t, <<Packet(type, p, ok)>>)
  <2> HIDE DEF u
  <2>3. PICK ts : Sends(t, u, ts)
    BY <2>2 DEF Quietly, u
  <2>4. Sends(s, u, ts)
    BY <1>3, <1>5, <2>3 DEF Sends, Queues, SameHost
  <2> QED
    BY <1>6, <2>2, <2>4 DEF Quietly, u
<1> QED
  BY <1>2, <1>8, <1>9

\* The host stays informed, and the controller deals with its peers only.
Informs(s, t, c) ==
  /\ \A running, n : Keeps(s, t, running, n)
  /\ Apart(s, c) => Apart(t, c)

\* A handler that tells its host nothing and keeps its connections leaves the host
\* as well informed as it was.
LEMMA QuietlyInforms ==
  ASSUME NEW s, NEW t, NEW c, Quietly(s, t, c)
  PROVE  Informs(s, t, c)
  BY SendsKeeps, ZenonT(60) DEF Quietly, Informs

\* A new connection takes a handle that no connection has and no event names.
LEMMA AddConnectionFields ==
  ASSUME NEW s \in Controller, ~AclFull(s), NEW p \in Ctrl, NEW role \in Role, NEW c, p # c
  PROVE  LET t == AddConnection(s, p, role)
             h == Unused(s)
         IN  /\ t.page_ = s.page_ /\ t.tasks = s.tasks /\ t.sco = s.sco
             /\ t.awaiting = s.awaiting /\ t.told = s.told
             /\ Used(t.acl) = Used(s.acl) \cup {h}
             /\ h \in Handles /\ h \notin Named(s)
             /\ AclApart(s, c) => AclApart(t, c)
<1> DEFINE h == Unused(s)
           r == [address |-> p, role |-> role, switch |-> s.policy]
           t == AddConnection(s, p, role)
<1>1. h \in Handles /\ h \notin Named(s)
  BY DEF AclFull, Unused, Used
<1>2. r \in Acl /\ r # None /\ r.address = p
  BY NoneAssumption DEF Acl, Controller
<1>3. s.acl \in [Handles -> Acl \cup {None}]
  BY SMTT(60) DEF Controller
<1> HIDE DEF h, r
<1>4. /\ t.page_ = s.page_ /\ t.tasks = s.tasks /\ t.sco = s.sco
      /\ t.awaiting = s.awaiting /\ t.told = s.told
      /\ t.acl = [s.acl EXCEPT ![h] = r]
  <2>1. CASE SlotsOf(s, None) = {}
    BY <2>1 DEF AddConnection, AddLink, Controller, h, r
  <2>2. CASE SlotsOf(s, None) # {}
    BY <2>2 DEF AddConnection, AddLink, Controller, h, r
  <2> QED
    BY <2>1, <2>2
<1> HIDE DEF t
<1>5. \A g \in Handles : t.acl[g] = IF g = h THEN r ELSE s.acl[g]
  BY <1>1, <1>3, <1>4
<1>6. Used(t.acl) = Used(s.acl) \cup {h}
  BY <1>1, <1>2, <1>5 DEF Used
<1>7. AclApart(s, c) => AclApart(t, c)
  BY <1>2, <1>5, SMTT(30) DEF AclApart
<1> QED
  BY <1>1, <1>4, <1>6, <1>7 DEF h, t

\* The end of a connection.
LEMMA RemoveConnectionFields ==
  ASSUME NEW s \in Controller, NEW h \in Handles, s.acl[h] # None, NEW c
  PROVE  LET t == RemoveConnection(s, h)
         IN  /\ t.page_ = s.page_ /\ t.tasks = s.tasks /\ t.sco = s.sco
             /\ t.awaiting = s.awaiting /\ t.told = s.told
             /\ Used(t.acl) = Used(s.acl) \ {h}
             /\ AclApart(s, c) => AclApart(t, c)
<1> DEFINE t == RemoveConnection(s, h)
<1>3. s.acl \in [Handles -> Acl \cup {None}]
  BY SMTT(30) DEF Controller
<1>4. /\ t.page_ = s.page_ /\ t.tasks = s.tasks /\ t.sco = s.sco
      /\ t.awaiting = s.awaiting /\ t.told = s.told
      /\ t.acl = [s.acl EXCEPT ![h] = None]
  <2> DEFINE p == s.acl[h].address
  <2>1. CASE SlotsOf(s, p) = {}
    BY <2>1 DEF RemoveConnection, RemoveLink, Controller
  <2>2. CASE SlotsOf(s, p) # {}
    BY <2>2 DEF RemoveConnection, RemoveLink, Controller
  <2> QED
    BY <2>1, <2>2
<1> HIDE DEF t
<1>5. \A g \in Handles : t.acl[g] = IF g = h THEN None ELSE s.acl[g]
  BY <1>3, <1>4
<1>6. Used(t.acl) = Used(s.acl) \ {h}
  BY <1>5 DEF Used
<1>7. AclApart(s, c) => AclApart(t, c)
  BY <1>5 DEF AclApart
<1> QED
  BY <1>4, <1>6, <1>7 DEF t

\* Tasks deferred one after the other.
LEMMA QueueAssociative ==
  ASSUME NEW q \in Seq(Task), NEW r \in Seq(Task), NEW u \in Seq(Task)
  PROVE  (q \o r) \o u = q \o (r \o u)
  OBVIOUS

\* The address of a connection is that of a peer.
LEMMA AddressType ==
  ASSUME NEW s \in Controller, NEW h \in Handles, s.acl[h] # None
  PROVE  s.acl[h].address \in Ctrl
  BY DEF Controller, Acl

\* Disconnect, by the host or after a supervision timeout.
LEMMA DisconnectInforms ==
  ASSUME NEW s, Good(s), ~s.failed, NEW h \in Handles, s.acl[h] # None, NEW c
  PROVE  Informs(s, Disconnect(s, h), c)
<1> DEFINE p == s.acl[h].address
           t == IF ScoOf(s, p) = {} THEN s ELSE DisconnectSco(s, p)
           d == Packet("DISCONNECT", p, TRUE)
           e == Event("DISCONNECTION_COMPLETE", p, TRUE, h)
           r == RemoveConnection(t, h)
           w == Send(r, <<d, e>>)
<1>0. s \in Controller /\ s.tasks \in Seq(Task)
  BY DEF Good, Controller
<1>1. p \in Ctrl
  BY <1>0, AddressType
<1>2. Same(t, s) /\ Good(t)
  <2>1. CASE ScoOf(s, p) = {}
    BY <1>0, <2>1 DEF Same
  <2>2. CASE ScoOf(s, p) # {}
    BY <1>1, <2>2, DisconnectScoFine, SMTT(30) DEF Fine
  <2> QED
    BY <2>1, <2>2, SMTT(30)
<1>3. d \in Task /\ e \in Task /\ d.type \in PacketType /\ d.peer = p
      /\ e.type = "DISCONNECTION_COMPLETE" /\ e.handle = h /\ e.peer = p
  <2>1. "DISCONNECT" \in PacketType /\ "DISCONNECTION_COMPLETE" \in EventType /\ TRUE \in BOOLEAN
    BY DEF PacketType, EventType
  <2>2. d \in Task /\ e \in Task
    BY <1>1, <2>1, TaskType, ZenonT(60)
  <2> QED
    BY <2>1, <2>2 DEF Packet, Event
<1>4. \E q : Sends(s, t, q) /\ \A i \in DOMAIN q : q[i].peer = p
  <2>1. CASE ScoOf(s, p) = {}
    <3>1. s.tasks = s.tasks \o <<>> /\ <<>> \in Seq(Task)
      BY <1>0
    <3>2. Sends(s, t, <<>>)
      BY <1>0, <2>1, <3>1 DEF Sends, Queues, SameHost
    <3> QED
      BY <3>2
  <2>2. CASE ScoOf(s, p) # {}
    <3> DEFINE o == Packet("SCO_DISCONNECT", p, TRUE)
               v == RemoveSco(s, p)
    <3>1. Same(v, s) /\ v.page_ = s.page_ /\ v.acl = s.acl /\ v.tasks = s.tasks
          /\ v.awaiting = s.awaiting /\ v.told = s.told /\ v \in Controller
      <4>1. p # None
        BY NoneAssumption, <1>1, ZenonT(60)
      <4>2. Leaves(s, v, None)
        BY <1>0, <1>1, <4>1, ScoLeaves, ZenonT(60)
      <4>3. Same(v, s)
        BY <1>0, <1>1, ScoSame
      <4> QED
        BY <4>2, <4>3 DEF Leaves, Same
    <3>2. t = Send(v, <<o>>)
      BY <2>2 DEF DisconnectSco
    <3>3. o \in Task /\ o.type \in PacketType /\ o.peer = p
      <4>1. "SCO_DISCONNECT" \in PacketType /\ TRUE \in BOOLEAN
        BY DEF PacketType
      <4> QED
        BY <1>1, <4>1, TaskType, ZenonT(60) DEF Packet
    <3> HIDE DEF o, v, t
    <3>4. t.tasks = v.tasks \o <<o>> /\ t.page_ = v.page_ /\ t.acl = v.acl
          /\ t.awaiting = v.awaiting /\ t.told = v.told
      BY <3>1, <3>2, SMTT(30) DEF Send, Controller
    <3>5. Sends(s, t, <<o>>)
      BY <1>0, <3>1, <3>3, <3>4, SMTT(30) DEF Sends, Queues, SameHost
    <3> QED
      BY <3>3, <3>5, SMTT(60)
  <2> QED
    BY <2>1, <2>2
<1>5. Disconnect(s, h) = w
  BY DEF Disconnect
<1>6. PICK q : Sends(s, t, q) /\ \A i \in DOMAIN q : q[i].peer = p
  BY <1>4, ZenonT(60)
<1> HIDE DEF d, e
<1>7. t \in Controller /\ t.acl = s.acl /\ (Apart(s, c) => ScoApart(t, c))
  <2>1. t \in Controller /\ t.acl = s.acl
    BY <1>2, ZenonT(60) DEF Same
  <2>2. Apart(s, c) /\ ScoOf(s, p) # {} => ScoApart(t, c)
    <3>1. Apart(s, c) => p # c
      BY ZenonT(60) DEF Apart, AclApart
    <3>2. p # c => Leaves(s, RemoveSco(s, p), c) /\ RemoveSco(s, p) \in Controller
      BY <1>0, <1>1, ScoLeaves, ScoSame DEF Same
    <3>3. RemoveSco(s, p) \in Controller => DisconnectSco(s, p).sco = RemoveSco(s, p).sco
      BY ZenonT(60) DEF DisconnectSco, Send, Controller
    <3> QED
      BY <3>1, <3>2, <3>3 DEF Leaves, Apart, ScoApart
  <2> QED
    BY <2>1, <2>2, ZenonT(60) DEF Apart
<1> HIDE DEF t
<1>8. r \in Controller
  BY <1>2, <1>7, RemoveConnectionGood, <1>0, ZenonT(60) DEF Good, Same
<1>9. /\ r.page_ = s.page_ /\ r.tasks = t.tasks /\ r.sco = t.sco
      /\ r.awaiting = s.awaiting /\ r.told = s.told
      /\ Used(r.acl) = Used(s.acl) \ {h}
      /\ Apart(s, c) => AclApart(r, c)
  <2>1. /\ r.page_ = t.page_ /\ r.tasks = t.tasks /\ r.sco = t.sco
        /\ r.awaiting = t.awaiting /\ r.told = t.told
        /\ Used(r.acl) = Used(t.acl) \ {h}
        /\ AclApart(t, c) => AclApart(r, c)
    BY <1>7, RemoveConnectionFields
  <2> QED
    BY <1>6, <1>7, <2>1, ZenonT(60) DEF Sends, SameHost, Apart, AclApart
<1> HIDE DEF r
<1>10. /\ w.page_ = s.page_ /\ w.tasks = t.tasks \o <<d, e>> /\ w.sco = t.sco
       /\ w.awaiting = s.awaiting /\ w.told = s.told
       /\ Used(w.acl) = Used(s.acl) \ {h}
       /\ Apart(s, c) => AclApart(w, c)
  BY <1>8, <1>9 DEF Send, Controller, AclApart
<1> HIDE DEF w
<1> DEFINE ts == q \o <<d, e>>
<1>11. /\ q \in Seq(Task) /\ t.tasks = s.tasks \o q
       /\ \A i \in DOMAIN q : q[i].type \in PacketType /\ q[i].peer = p
  BY <1>6 DEF Sends, Queues
<1>12. ts \in Seq(Task) /\ w.tasks = s.tasks \o ts
  <2>1. <<d, e>> \in Seq(Task)
    BY <1>3
  <2> HIDE DEF w
  <2>2. (s.tasks \o q) \o <<d, e>> = s.tasks \o (q \o <<d, e>>)
    BY <1>0, <1>11, <2>1, QueueAssociative, ZenonT(60)
  <2>3. q \o <<d, e>> \in Seq(Task)
    BY <1>11, <2>1, SMTT(30)
  <2> QED
    BY <1>10, <1>11, <2>2, <2>3, ZenonT(60)
<1>13. /\ \A i \in DOMAIN ts : /\ ts[i].peer = p
                               /\ \/ ts[i].type \in PacketType
                                  \/ ts[i].type = "DISCONNECTION_COMPLETE" /\ ts[i].handle = h
       /\ \E i \in DOMAIN ts : ts[i].type = "DISCONNECTION_COMPLETE" /\ ts[i].handle = h
  <2>1. ts[Len(q) + 2] = e /\ Len(q) + 2 \in DOMAIN ts
    BY <1>3, <1>11
  <2>2. \A i \in DOMAIN ts : (i \in DOMAIN q /\ ts[i] = q[i]) \/ ts[i] = d \/ ts[i] = e
    BY <1>3, <1>11
  <2> HIDE DEF ts
  <2> QED
    BY <1>3, <1>11, <2>1, <2>2, SMTT(30)
<1> HIDE DEF ts
<1>14. Ends(s, w, ts, h)
  BY <1>0, <1>10, <1>12, <1>13, ZenonT(60) DEF Ends, Queues
<1>15. Apart(s, c) => Apart(w, c)
  <2>1. Apart(s, c) => p # c
    BY SMTT(30) DEF Apart, AclApart
  <2>2. Apart(s, c) => \A i \in DOMAIN w.tasks : w.tasks[i].peer # c
    BY <1>13, <1>14, <2>1, ApartTasks DEF Ends, Apart
  <2> QED
    BY <1>7, <1>10, <2>2, ZenonT(60) DEF Apart, ScoApart
<1> QED
  BY <1>5, <1>14, <1>15, EndsKeeps, SMTT(60) DEF Informs

\* DISCONNECT from the peer.
LEMMA IncomingDisconnectInforms ==
  ASSUME NEW s, Good(s), ~s.failed, NEW p \in Ctrl, NEW c, p # c
  PROVE  Informs(s, IncomingDisconnectPacket(s, p), c)
<1>0. s \in Controller /\ s.tasks \in Seq(Task)
  BY DEF Good, Controller
<1>1. CASE AclOf(s, p) = {}
  <2>1. IncomingDisconnectPacket(s, p) = s /\ Leaves(s, s, c)
    BY <1>1 DEF IncomingDisconnectPacket, Leaves
  <2> QED
    BY <1>0, <2>1, LeavesQuietly, QuietlyInforms
<1>2. CASE AclOf(s, p) # {}
  <2> DEFINE h == GetAclConnectionHandle(s, p)
             r == RemoveConnection(s, h)
             e == Event("DISCONNECTION_COMPLETE", p, TRUE, h)
             w == Send(r, <<e>>)
  <2>1. IncomingDisconnectPacket(s, p) = w
    BY <1>2 DEF IncomingDisconnectPacket
  <2>2. h \in Handles /\ s.acl[h] # None
    BY <1>2, AclHandle
  <2>3. e \in Task /\ e.type = "DISCONNECTION_COMPLETE" /\ e.handle = h /\ e.peer = p
    <3>1. "DISCONNECTION_COMPLETE" \in EventType /\ TRUE \in BOOLEAN
      BY DEF EventType
    <3> QED
      BY <2>2, <3>1, TaskType, ZenonT(60) DEF Event
  <2> HIDE DEF e, h
  <2>4. r \in Controller
    BY <2>2, RemoveConnectionGood DEF Good
  <2>5. /\ r.page_ = s.page_ /\ r.tasks = s.tasks /\ r.sco = s.sco
        /\ r.awaiting = s.awaiting /\ r.told = s.told
        /\ Used(r.acl) = Used(s.acl) \ {h}
        /\ AclApart(s, c) => AclApart(r, c)
    BY <1>0, <2>2, RemoveConnectionFields
  <2> HIDE DEF r
  <2>6. /\ w.page_ = s.page_ /\ w.tasks = s.tasks \o <<e>> /\ w.sco = s.sco
        /\ w.awaiting = s.awaiting /\ w.told = s.told
        /\ Used(w.acl) = Used(s.acl) \ {h}
        /\ AclApart(s, c) => AclApart(w, c)
    BY <2>4, <2>5 DEF Send, Controller, AclApart
  <2> HIDE DEF w
  <2> DEFINE ts == <<e>>
  <2>7. ts \in Seq(Task) /\ 1 \in DOMAIN ts /\ \A i \in DOMAIN ts : ts[i] = e
    BY <2>3
  <2>8. w.tasks = s.tasks \o ts
    BY <2>6
  <2> HIDE DEF ts
  <2>9. Ends(s, w, ts, h)
    BY <1>0, <2>3, <2>6, <2>7, <2>8, ZenonT(60) DEF Ends, Queues
  <2>10. Apart(s, c) => Apart(w, c)
    <3>1. Apart(s, c) => \A i \in DOMAIN w.tasks : w.tasks[i].peer # c
      BY <2>3, <2>7, <2>9, ApartTasks, SMTT(30) DEF Ends, Apart
    <3> QED
      BY <2>6, <3>1, ZenonT(60) DEF Apart, ScoApart
  <2> QED
    BY <2>1, <2>9, <2>10, EndsKeeps DEF Informs
<1> QED
  BY <1>1, <1>2, SMTT(30)

\* What an answer does, and to whom.
Replies(s, t, p, c) ==
  /\ \E ts, more : Answers(s, t, ts, p, more)
  /\ Apart(s, c) => Apart(t, c)

\* Create Connection Cancel answers with Connection Complete.
LEMMA CancelReplies ==
  ASSUME NEW s \in Controller, NEW p \in Ctrl, Pages(s, p), NEW c, p # c
  PROVE  Replies(s, CreateConnectionCancel(s, p), p, c) /\ CreateConnectionCancel(s, p).page_ = None
<1> DEFINE e == Event("CONNECTION_COMPLETE", p, FALSE, None)
           w == CreateConnectionCancel(s, p)
           ts == <<e>>
<1>1. e \in Task /\ Answer(e) /\ e.peer = p /\ e.handle = None
  <2>1. "CONNECTION_COMPLETE" \in EventType /\ FALSE \in BOOLEAN
    BY DEF EventType
  <2> QED
    BY <2>1, TaskType, ZenonT(60) DEF Event, Answer
<1>2. w = [Send(s, ts) EXCEPT !.page_ = None]
  BY DEF CreateConnectionCancel
<1> HIDE DEF e
<1>3. ts \in Seq(Task) /\ 1 \in DOMAIN ts /\ \A i \in DOMAIN ts : ts[i] = e
  BY <1>1
<1> HIDE DEF ts
<1>4. /\ w.page_ = None /\ w.tasks = s.tasks \o ts /\ w.sco = s.sco
      /\ w.awaiting = s.awaiting /\ w.told = s.told /\ w.acl = s.acl /\ s.tasks \in Seq(Task)
  BY <1>2 DEF Send, Controller
<1> HIDE DEF w
<1>5. Queues(s, w, ts)
  BY <1>3, <1>4, ZenonT(60) DEF Queues
<1>6. Answers(s, w, ts, p, {})
  BY <1>1, <1>3, <1>4, <1>5, ZenonT(60) DEF Answers
<1>7. Apart(s, c) => Apart(w, c)
  <2>1. Apart(s, c) => \A i \in DOMAIN w.tasks : w.tasks[i].peer # c
    BY <1>1, <1>3, <1>5, ApartTasks DEF Apart
  <2> QED
    BY <1>4, <2>1, SMTT(60) DEF Apart, AclApart, ScoApart
<1> QED
  BY <1>4, <1>6, <1>7 DEF Replies, w

\* Reject Connection Request queues RejectPeripheralConnection.
LEMMA RejectReplies ==
  ASSUME NEW s \in Controller, NEW p \in Ctrl, NEW c, p # c
  PROVE  Replies(s, RejectConnectionRequest(s, p), p, c)
<1> DEFINE e == Event("REJECT_PERIPHERAL", p, FALSE, None)
           w == RejectConnectionRequest(s, p)
           ts == <<e>>
<1>1. e \in Task /\ Answer(e) /\ e.peer = p /\ e.handle = None
  <2>1. "REJECT_PERIPHERAL" \in EventType /\ FALSE \in BOOLEAN
    BY DEF EventType
  <2> QED
    BY <2>1, TaskType, ZenonT(60) DEF Event, Answer
<1>2. w = [Send(s, ts) EXCEPT !.requests = @ \ {p}, !.awaiting = @ \cup {p}]
  BY DEF RejectConnectionRequest
<1> HIDE DEF e
<1>3. ts \in Seq(Task) /\ 1 \in DOMAIN ts /\ \A i \in DOMAIN ts : ts[i] = e
  BY <1>1
<1> HIDE DEF ts
<1>4. /\ w.page_ = s.page_ /\ w.tasks = s.tasks \o ts /\ w.sco = s.sco
      /\ w.awaiting = s.awaiting \cup {p} /\ w.told = s.told /\ w.acl = s.acl /\ s.tasks \in Seq(Task)
  BY <1>2 DEF Send, Controller
<1> HIDE DEF w
<1>5. Queues(s, w, ts)
  BY <1>3, <1>4, ZenonT(60) DEF Queues
<1>6. Answers(s, w, ts, p, {})
  BY <1>1, <1>3, <1>4, <1>5, SMTT(60) DEF Answers
<1>7. Apart(s, c) => Apart(w, c)
  <2>1. Apart(s, c) => \A i \in DOMAIN w.tasks : w.tasks[i].peer # c
    BY <1>1, <1>3, <1>5, ApartTasks, SMTT(30) DEF Apart
  <2> QED
    BY <1>4, <2>1, SMTT(30) DEF Apart, AclApart, ScoApart
<1> QED
  BY <1>6, <1>7 DEF Replies, w

\* Accept Connection Request adds the connection, or finds it.
LEMMA AcceptReplies ==
  ASSUME NEW s, Good(s), ~s.failed, NEW p \in Ctrl, NEW try \in BOOLEAN, ~AclFull(s), NEW c, p # c
  PROVE  LET w == AcceptConnectionRequest(s, p, try)
         IN  Informs(s, w, c) \/ (Replies(s, w, p, c) /\ ~Pages(w, p))
<1> DEFINE t == [s EXCEPT !.requests = @ \ {p}]
           role == IF try /\ s.page_scan_.allow_role_switch THEN "CENTRAL" ELSE "PERIPHERAL"
           h == Unused(s)
           e == Event("CONNECTION_COMPLETE", p, TRUE, h)
           d == Packet("PAGE_RESPONSE", p, try)
           ts == <<e, d>>
           q == IF Pages(s, p) THEN None ELSE s.page_
           v == AddConnection(t, p, role)
           w == AcceptConnectionRequest(s, p, try)
<1>0. s \in Controller /\ s.tasks \in Seq(Task)
  BY DEF Good, Controller
<1>1. /\ t \in Controller /\ t.acl = s.acl /\ t.lm_ = s.lm_ /\ t.tasks = s.tasks /\ t.sco = s.sco
      /\ t.page_ = s.page_ /\ t.failed = s.failed /\ t.policy = s.policy
      /\ t.awaiting = s.awaiting /\ t.told = s.told
  BY <1>0, SMTT(30) DEF Controller
<1>2. CASE AclOf(s, p) # {}
  <2>1. w = t
    BY <1>2 DEF AcceptConnectionRequest
  <2>2. Leaves(s, t, c)
    BY <1>1 DEF Leaves, ScoApart
  <2> QED
    BY <1>0, <2>1, <2>2, LeavesQuietly, QuietlyInforms
<1>3. CASE AclOf(s, p) = {}
  <2>1. w = [Send(v, ts) EXCEPT !.page_ = IF Pages(s, p) THEN None ELSE @, !.page_scan_ = None,
                                !.awaiting = @ \cup {p}]
    BY <1>3 DEF AcceptConnectionRequest
  <2>2. AclOf(t, p) = {} /\ Unused(t) = h /\ ~AclFull(t) /\ Good(t) /\ Named(t) = Named(s)
        /\ Used(t.acl) = Used(s.acl)
    BY <1>0, <1>1, <1>3 DEF AclOf, Unused, AclFull, Named, Used, Good
  <2>3. role \in Role
    BY DEF Role
  <2> HIDE DEF t, role
  <2>4. v \in Controller
    <3>1. None \in Page \cup {None}
      OBVIOUS
    <3> QED
      BY <1>1, <2>2, <2>3, <3>1, AddConnectionGood, ZenonT(60)
  <2>5. /\ v.page_ = s.page_ /\ v.tasks = s.tasks /\ v.sco = s.sco
        /\ v.awaiting = s.awaiting /\ v.told = s.told
        /\ Used(v.acl) = Used(s.acl) \cup {h}
        /\ h \in Handles /\ h \notin Named(s)
        /\ AclApart(t, c) => AclApart(v, c)
    BY <1>1, <2>2, <2>3, AddConnectionFields
  <2>6. e \in Task /\ d \in Task /\ d.type \in PacketType /\ d.peer = p
        /\ Answer(e) /\ e.type = "CONNECTION_COMPLETE" /\ e.handle = h /\ e.peer = p /\ e.ok
    <3>1. "CONNECTION_COMPLETE" \in EventType /\ TRUE \in BOOLEAN /\ "PAGE_RESPONSE" \in PacketType
          /\ h # None
      BY <2>5, NoneAssumption DEF EventType, PacketType
    <3> HIDE DEF h
    <3>2. e \in Task /\ d \in Task
      BY <2>5, <3>1, TaskType, ZenonT(60)
    <3> QED
      BY <3>1, <3>2, ZenonT(60) DEF Event, Packet, Answer
  <2> HIDE DEF v, h, e, d
  <2>7. /\ ts \in Seq(Task) /\ 1 \in DOMAIN ts /\ ts[1] = e
        /\ \A i \in DOMAIN ts : ts[i] = e \/ ts[i] = d
    BY <2>6
  <2> HIDE DEF ts
  <2>8. /\ w.page_ = q /\ w.tasks = s.tasks \o ts /\ w.sco = s.sco
        /\ w.awaiting = s.awaiting \cup {p} /\ w.told = s.told
        /\ Used(w.acl) = Used(s.acl) \cup {h}
        /\ AclApart(s, c) => AclApart(w, c)
    BY <1>1, <2>1, <2>4, <2>5, SMTT(60) DEF Send, Controller, AclApart
  <2> HIDE DEF w
  <2>9. Queues(s, w, ts)
    BY <1>0, <2>7, <2>8 DEF Queues
  <2>10. Answers(s, w, ts, p, {h})
    BY <2>5, <2>6, <2>7, <2>8, <2>9, ZenonT(60) DEF Answers
  <2>11. ~Pages(w, p)
    BY <2>8, ZenonT(60) DEF Pages
  <2>12. Apart(s, c) => Apart(w, c)
    <3>1. Apart(s, c) => \A i \in DOMAIN w.tasks : w.tasks[i].peer # c
      BY <2>6, <2>7, <2>9, ApartTasks DEF Apart
    <3> QED
      BY <2>8, <3>1, ZenonT(60) DEF Apart, ScoApart
  <2> QED
    BY <2>10, <2>11, <2>12 DEF Replies, w
<1> QED
  BY <1>2, <1>3, SMTT(60)

\* A handler that does nothing.
LEMMA SelfInforms ==
  ASSUME NEW s \in Controller, NEW c
  PROVE  Informs(s, s, c) /\ Leaves(s, s, c)
<1>1. Leaves(s, s, c)
  BY DEF Leaves
<1> QED
  BY <1>1, LeavesQuietly, QuietlyInforms

\* The page ends without a connection: PAGE_REJECT, or the page timeout.
LEMMA UnpageInforms ==
  ASSUME NEW s \in Controller, NEW p, Pages(s, p), NEW c
  PROVE  Informs(s, [s EXCEPT !.page_ = None, !.awaiting = @ \ {p}], c)
<1> DEFINE t == [s EXCEPT !.page_ = None, !.awaiting = @ \ {p}]
<1>1. /\ t.page_ = None /\ t.tasks = s.tasks /\ t.sco = s.sco /\ t.acl = s.acl
      /\ t.awaiting = s.awaiting \ {p} /\ t.told = s.told
  BY DEF Controller
<1> HIDE DEF t
<1>2. Unpages(s, t, p, {})
  BY <1>1, SMTT(30) DEF Unpages
<1>3. Apart(s, c) => Apart(t, c)
  BY <1>1 DEF Apart, AclApart, ScoApart
<1> QED
  BY <1>2, <1>3, UnpagesKeeps DEF Informs, t

\* A page that the peer rejects ends with a Connection Complete to the host.
LEMMA IncomingPageRejectInforms ==
  ASSUME NEW s \in Controller, NEW p \in Ctrl, NEW c
  PROVE  Informs(s, IncomingPageRejectPacket(s, p), c)
<1>1. CASE ~Pages(s, p)
  BY <1>1, SelfInforms DEF IncomingPageRejectPacket
<1>2. CASE Pages(s, p)
  BY <1>2, UnpageInforms, ZenonT(60) DEF IncomingPageRejectPacket
<1> QED
  BY <1>1, <1>2

\* The page ends with a connection.
LEMMA IncomingPageResponseInforms ==
  ASSUME NEW s, Good(s), ~s.failed, NEW p \in Ctrl, NEW try \in BOOLEAN, ~AclFull(s), NEW c, p # c
  PROVE  Informs(s, IncomingPageResponsePacket(s, p, try), c)
<1> DEFINE role == IF s.page_.allow_role_switch /\ try THEN "PERIPHERAL" ELSE "CENTRAL"
           h == Unused(s)
           v == AddConnection(s, p, role)
           w == IncomingPageResponsePacket(s, p, try)
<1>0. s \in Controller
  BY DEF Good
<1>1. CASE ~Pages(s, p)
  BY <1>0, <1>1, SelfInforms DEF IncomingPageResponsePacket
<1>2. CASE Pages(s, p)
  <2>1. w = [v EXCEPT !.page_ = None, !.awaiting = @ \ {p}, !.told = @ \cup {h}]
    BY <1>2 DEF IncomingPageResponsePacket
  <2>2. role \in Role
    BY DEF Role
  <2> HIDE DEF role
  <2>3. AclOf(s, p) = {}
    BY <1>2 DEF Good, Agree, Pages, AclOf
  <2>4. v \in Controller
    <3>1. None \in Page \cup {None}
      OBVIOUS
    <3> QED
      BY <2>2, <2>3, <3>1, AddConnectionGood, ZenonT(60)
  <2>5. /\ v.page_ = s.page_ /\ v.tasks = s.tasks /\ v.sco = s.sco
        /\ v.awaiting = s.awaiting /\ v.told = s.told
        /\ Used(v.acl) = Used(s.acl) \cup {h}
        /\ h \in Handles /\ h \notin Named(s)
        /\ AclApart(s, c) => AclApart(v, c)
    BY <1>0, <2>2, AddConnectionFields
  <2> HIDE DEF v, h
  <2>6. /\ w.page_ = None /\ w.tasks = s.tasks /\ w.sco = s.sco
        /\ w.awaiting = s.awaiting \ {p} /\ w.told = s.told \cup {h}
        /\ Used(w.acl) = Used(s.acl) \cup {h}
        /\ AclApart(s, c) => AclApart(w, c)
    BY <2>1, <2>4, <2>5, ZenonT(60) DEF Controller, AclApart
  <2> HIDE DEF w
  <2>7. Unpages(s, w, p, {h})
    BY <1>2, <2>5, <2>6, ZenonT(60) DEF Unpages
  <2>8. Apart(s, c) => Apart(w, c)
    BY <2>6 DEF Apart, ScoApart
  <2> QED
    BY <2>7, <2>8, UnpagesKeeps DEF Informs, w
<1> QED
  BY <1>1, <1>2

\* PAGE: a request for the host, or PAGE_REJECT at once.
LEMMA IncomingPageInforms ==
  ASSUME NEW s \in Controller, NEW p \in Ctrl, NEW allow \in BOOLEAN, NEW c, p # c
  PROVE  Informs(s, IncomingPagePacket(s, p, allow), c)
<1> DEFINE t == [s EXCEPT !.page_scan_ = [bd_addr |-> p, allow_role_switch |-> allow],
                          !.requests = @ \cup {p}]
           u == Send(s, <<Packet("PAGE_REJECT", p, FALSE)>>)
<1>1. Informs(s, s, c) /\ Leaves(s, s, c)
  BY SelfInforms
<1>2. Informs(s, u, c)
  <2>1. "PAGE_REJECT" \in PacketType /\ FALSE \in BOOLEAN
    BY DEF PacketType
  <2> QED
    BY <1>1, <2>1, SendOne, QuietlyInforms, ZenonT(60)
<1>3. Informs(s, t, c)
  <2>1. Leaves(s, t, c)
    BY DEF Leaves, Controller, ScoApart
  <2> QED
    BY <2>1, LeavesQuietly, QuietlyInforms
<1> QED
  BY <1>1, <1>2, <1>3 DEF IncomingPagePacket

\* The role switch packets.
LEMMA IncomingRoleSwitchInforms ==
  ASSUME NEW s, Good(s), NEW p \in Ctrl, NEW ok \in BOOLEAN, NEW c, p # c
  PROVE  Informs(s, IncomingRoleSwitchRequest(s, p), c) /\ Informs(s, IncomingRoleSwitchResponse(s, p, ok), c)
<1> DEFINE h == GetAclConnectionHandle(s, p)
           a == [s.acl[h] EXCEPT !.role = Other(s.acl[h].role)]
           f == [s EXCEPT !.acl = [s.acl EXCEPT ![h] = a]]
           sw == "ROLE_SWITCH_RESPONSE"
<1>0. s \in Controller /\ sw \in PacketType /\ TRUE \in BOOLEAN /\ FALSE \in BOOLEAN
  BY DEF Good, PacketType
<1>1. Informs(s, s, c) /\ Leaves(s, s, c)
  BY <1>0, SelfInforms
<1>2. CASE AclOf(s, p) = {}
  BY <1>1, <1>2 DEF IncomingRoleSwitchRequest, IncomingRoleSwitchResponse
<1>3. CASE AclOf(s, p) # {}
  <2>1. h \in Handles /\ s.acl[h] # None
    BY <1>3, AclHandle
  <2>2. a \in Acl /\ a.address = s.acl[h].address
    BY <1>0, <2>1 DEF Controller, Acl, Role, Other
  <2>3. FlipRole(s, h) = f
    BY <1>0, <2>1 DEF FlipRole, Controller
  <2>4. /\ Quietly(s, f, c) /\ Quietly(s, Send(f, <<Packet(sw, p, TRUE)>>), c)
        /\ Quietly(s, Send(s, <<Packet(sw, p, FALSE)>>), c)
    <3> HIDE DEF h, a
    <3> DEFINE g == f
    <3>1. g = [s EXCEPT !.acl = [s.acl EXCEPT ![h] = a]]
      OBVIOUS
    <3> HIDE DEF g
    <3>2. Quietly(s, g, c) /\ Quietly(s, Send(g, <<Packet(sw, p, TRUE)>>), c)
      BY <1>0, <2>1, <2>2, <3>1, ChangeQuietly, ZenonT(60)
    <3>3. Quietly(s, Send(s, <<Packet(sw, p, FALSE)>>), c)
      BY <1>0, <1>1, SendOne, ZenonT(60)
    <3> QED
      BY <3>2, <3>3 DEF g
  <2>5. Informs(s, f, c) /\ Informs(s, Send(f, <<Packet(sw, p, TRUE)>>), c)
        /\ Informs(s, Send(s, <<Packet(sw, p, FALSE)>>), c)
    BY <2>4, QuietlyInforms
  <2> HIDE DEF f
  <2> QED
    BY <1>1, <1>3, <2>3, <2>5, SMTT(30) DEF IncomingRoleSwitchRequest, IncomingRoleSwitchResponse
<1> QED
  BY <1>2, <1>3

\* The SCO packets.
LEMMA IncomingScoInforms ==
  ASSUME NEW s \in Controller, NEW p \in Ctrl, NEW ok \in BOOLEAN, NEW c, p # c
  PROVE  /\ Informs(s, IncomingScoConnectionRequest(s, p), c)
         /\ Informs(s, IncomingScoConnectionResponse(s, p, ok), c)
         /\ Informs(s, IncomingScoDisconnect(s, p), c)
<1>1. Informs(s, s, c) /\ Leaves(s, s, c)
  BY SelfInforms
<1>2. Leaves(s, AddSco(s, p, "SENT"), c) /\ Leaves(s, RemoveSco(s, p), c)
      /\ (ScoOf(s, p) # {} => Leaves(s, OpenSco(s, p), c))
  BY ScoLeaves
<1>3. Informs(s, RemoveSco(s, p), c) /\ (ScoOf(s, p) # {} => Informs(s, OpenSco(s, p), c))
  BY <1>2, LeavesQuietly, QuietlyInforms
<1>4. Informs(s, Send(s, <<Packet("SCO_CONNECTION_RESPONSE", p, FALSE)>>), c)
  <2>1. "SCO_CONNECTION_RESPONSE" \in PacketType /\ FALSE \in BOOLEAN
    BY DEF PacketType
  <2> QED
    BY <1>1, <2>1, SendOne, QuietlyInforms, ZenonT(60)
<1>5. Informs(s, [AddSco(s, p, "SENT") EXCEPT !.scoRequests = @ \cup {p}], c)
  <2> DEFINE v == [s.sco EXCEPT ![UnusedSco(s)] = [address |-> p, state |-> "SENT"]]
             t == [s EXCEPT !.sco = v]
             u == [t EXCEPT !.scoRequests = @ \cup {p}]
  <2>1. AddSco(s, p, "SENT") = t
    BY DEF AddSco, Controller
  <2> HIDE DEF v
  <2>2. /\ u.acl = t.acl /\ u.page_ = t.page_ /\ u.tasks = t.tasks /\ u.sco = t.sco
        /\ u.awaiting = t.awaiting /\ u.told = t.told
    BY DEF Controller
  <2>3. Leaves(s, t, c)
    BY <1>2, <2>1
  <2> HIDE DEF t
  <2>4. Leaves(s, u, c)
    BY <2>2, <2>3 DEF Leaves, ScoApart
  <2> QED
    BY <2>1, <2>4, LeavesQuietly, QuietlyInforms
<1>6. Informs(s, IncomingScoConnectionRequest(s, p), c)
  BY <1>4, <1>5 DEF IncomingScoConnectionRequest
<1>7. Informs(s, IncomingScoConnectionResponse(s, p, ok), c)
  BY <1>1, <1>3 DEF IncomingScoConnectionResponse
<1> QED
  BY <1>3, <1>6, <1>7, SMTT(30) DEF IncomingScoDisconnect

\* Every packet leaves the host informed.
LEMMA IncomingPacketInforms ==
  ASSUME NEW s, Good(s), ~s.failed, NEW p \in Ctrl, NEW task \in Task, task.type \in PacketType,
         task.type = "PAGE_RESPONSE" => ~AclFull(s), NEW c, p # c
  PROVE  Informs(s, IncomingPacket(s, p, task), c)
<1>1. task.ok \in BOOLEAN /\ s \in Controller
  BY DEF Task, Good
<1>2. CASE task.type = "PAGE"
  BY <1>1, <1>2, IncomingPageInforms DEF IncomingPacket
<1>3. CASE task.type = "PAGE_REJECT"
  BY <1>1, <1>3, IncomingPageRejectInforms DEF IncomingPacket
<1>4. CASE task.type = "PAGE_RESPONSE"
  BY <1>1, <1>4, IncomingPageResponseInforms DEF IncomingPacket
<1>5. CASE task.type = "DISCONNECT"
  BY <1>1, <1>5, IncomingDisconnectInforms DEF IncomingPacket
<1>6. CASE task.type = "ROLE_SWITCH_REQUEST"
  BY <1>1, <1>6, IncomingRoleSwitchInforms DEF IncomingPacket
<1>7. CASE task.type = "ROLE_SWITCH_RESPONSE"
  BY <1>1, <1>7, IncomingRoleSwitchInforms DEF IncomingPacket
<1>8. CASE task.type = "SCO_CONNECTION_REQUEST"
  BY <1>1, <1>8, IncomingScoInforms DEF IncomingPacket
<1>9. CASE task.type = "SCO_CONNECTION_RESPONSE"
  BY <1>1, <1>9, IncomingScoInforms DEF IncomingPacket
<1>10. CASE task.type = "SCO_DISCONNECT"
  BY <1>1, <1>10, IncomingScoInforms DEF IncomingPacket
<1> QED
  BY <1>2, <1>3, <1>4, <1>5, <1>6, <1>7, <1>8, <1>9, <1>10, ZenonT(60) DEF PacketType

\* A task is run: the first of the queue reaches the host or leaves.
Runs(s, t, c) ==
  /\ Awaits(s) => Awaits(t)
  /\ \A n \in Nat : Paged(s, TRUE, n) => Paged(t, TRUE, n - 1)
  /\ Told(s) => Told(t)
  /\ Apart(s, c) => Apart(t, c)

\* Taking a task from the queue, with what it tells the host.
LEMMA PopsRuns ==
  ASSUME NEW s \in Controller, NEW t, NEW x \in Task, Pops(s, t, x), t.acl = s.acl, t.sco = s.sco, NEW c
  PROVE  Runs(s, t, c)
<1>1. \A n \in Nat : /\ Awaits(s) => Awaits(t)
                     /\ Paged(s, TRUE, n) => Paged(t, TRUE, n - 1)
                     /\ Told(s) => Told(t)
  BY PopsKeeps, ZenonT(60)
<1>2. Apart(s, c) => Apart(t, c)
  <2>1. t.page_ = s.page_ /\ t.tasks = Tail(s.tasks) /\ s.tasks \in Seq(Task) /\ s.tasks # <<>>
    BY DEF Pops
  <2>2. \A i \in DOMAIN t.tasks : i + 1 \in DOMAIN s.tasks /\ t.tasks[i] = s.tasks[i + 1]
    BY <2>1, TailIndices
  <2> QED
    BY <2>1, <2>2 DEF Apart, AclApart, ScoApart
<1>3. (Awaits(s) => Awaits(t)) /\ (Told(s) => Told(t))
  <2>1. 0 \in Nat
    OBVIOUS
  <2> QED
    BY <1>1, <2>1, ZenonT(60)
<1> QED
  BY <1>1, <1>2, <1>3, ZenonT(60) DEF Runs

\* An event is sent to the host.
LEMMA DeferredEventRuns ==
  ASSUME NEW s \in Controller, s.tasks # <<>>, NEW x \in Task, x = Head(s.tasks), x.type \in EventType, NEW c
  PROVE  Runs(s, DeferredEvent(Popped(s), x), c)
<1> DEFINE p == x.peer
           q == Tail(s.tasks)
           u == [s EXCEPT !.tasks = q]
<1>1. q \in Seq(Task) /\ s.tasks \in Seq(Task) /\ Popped(s) = u
  BY DEF Controller, Popped
<1>2. p \in Ctrl
  BY SMTT(30) DEF Task
<1>3. CASE x.type = "CONNECTION_COMPLETE"
  <2> DEFINE T == IF x.ok THEN s.told \cup {x.handle} ELSE s.told
             t == [s EXCEPT !.tasks = q, !.awaiting = s.awaiting \ {p}, !.told = T]
  <2>1. DeferredEvent(u, x) = t
    BY <1>3 DEF DeferredEvent, Controller
  <2>2. T = IF x.ok THEN s.told \cup {x.handle} ELSE s.told
    OBVIOUS
  <2> HIDE DEF T, q, p
  <2>3. /\ t.tasks = q /\ t.page_ = s.page_ /\ t.acl = s.acl /\ t.sco = s.sco
        /\ t.awaiting = s.awaiting \ {p} /\ t.told = T
    BY DEF Controller
  <2> HIDE DEF t
  <2>4. Pops(s, t, x)
    BY <1>1, <1>3, <2>2, <2>3, ZenonT(60) DEF Pops, q, p, Answer
  <2> HIDE DEF u
  <2> QED
    BY <1>1, <2>1, <2>3, <2>4, PopsRuns, SMTT(30)
<1>4. CASE x.type = "DISCONNECTION_COMPLETE"
  <2> DEFINE T == s.told \ {x.handle}
             t == [s EXCEPT !.tasks = q, !.told = T]
  <2>1. DeferredEvent(u, x) = t
    BY <1>4 DEF DeferredEvent, Controller
  <2>2. T = s.told \ {x.handle}
    OBVIOUS
  <2> HIDE DEF T, q
  <2>3. /\ t.tasks = q /\ t.page_ = s.page_ /\ t.acl = s.acl /\ t.sco = s.sco
        /\ t.awaiting = s.awaiting /\ t.told = T
    BY DEF Controller
  <2> HIDE DEF t
  <2>4. Pops(s, t, x)
    BY <1>1, <1>4, <2>2, <2>3, SMTT(60) DEF Pops, q, Answer
  <2> HIDE DEF u
  <2> QED
    BY <1>1, <2>1, <2>3, <2>4, PopsRuns, SMTT(30)
<1>5. CASE x.type = "REJECT_PERIPHERAL"
  <2> DEFINE v == [s EXCEPT !.tasks = q, !.awaiting = s.awaiting \ {p}]
             ts == <<Packet("PAGE_REJECT", p, FALSE)>>
             t == DeferredEvent(u, x)
  <2>1. t = Send(v, ts)
    BY <1>5, ZenonT(60) DEF DeferredEvent, Controller, Send
  <2> HIDE DEF q, p, ts
  <2>2. /\ v.tasks = q /\ v.page_ = s.page_ /\ v.acl = s.acl /\ v.sco = s.sco
        /\ v.awaiting = s.awaiting \ {p} /\ v.told = s.told /\ v \in Controller
    BY <1>1, ZenonT(60) DEF Controller
  <2> HIDE DEF v, t
  <2>3. Pops(s, v, x)
    BY <1>1, <1>5, <2>2, SMTT(60) DEF Pops, q, p, Answer
  <2>4. Runs(s, v, c)
    BY <2>2, <2>3, PopsRuns, SMTT(60)
  <2>5. ASSUME p # c PROVE Informs(v, t, c)
    <3>1. "PAGE_REJECT" \in PacketType /\ FALSE \in BOOLEAN /\ Leaves(v, v, c)
      BY DEF PacketType, Leaves
    <3>2. Quietly(v, Send(v, <<Packet("PAGE_REJECT", p, FALSE)>>), c)
      BY <1>2, <2>2, <2>5, <3>1, SendOne, ZenonT(60) DEF p
    <3> QED
      BY <2>1, <3>2, QuietlyInforms, SMTT(30) DEF ts
  <2>6. CASE p # c
    <3>1. Informs(v, t, c)
      BY <2>5, <2>6
    <3>2. \A n : Keeps(v, t, TRUE, n)
      BY <3>1, ZenonT(60) DEF Informs
    <3> QED
      BY <1>1, <2>4, <3>1, <3>2, ZenonT(60) DEF Runs, Keeps, Informs, t
  <2>7. CASE p = c
    <3>1. Quietly(v, t, None)
      <4>1. "PAGE_REJECT" \in PacketType /\ FALSE \in BOOLEAN /\ Leaves(v, v, None)
        BY DEF PacketType, Leaves
      <4>2. p # None
        BY <1>2, NoneAssumption DEF p
      <4>3. Quietly(v, Send(v, <<Packet("PAGE_REJECT", p, FALSE)>>), None)
        BY <1>2, <2>2, <4>1, <4>2, SendOne, ZenonT(60) DEF p
      <4> QED
        BY <2>1, <4>3 DEF ts
    <3>2. Informs(v, t, None)
      BY <3>1, QuietlyInforms, SMTT(30)
    <3>3. \A n : Keeps(v, t, TRUE, n)
      BY <3>2, ZenonT(60) DEF Informs
    <3>4. ~Apart(s, c)
      <4>1. 1 \in DOMAIN s.tasks /\ s.tasks[1] = x
        BY <1>1, TailIndices, SMTT(60)
      <4> QED
        BY <2>7, <4>1 DEF Apart, p
    <3> QED
      BY <1>1, <2>4, <3>3, <3>4, ZenonT(60) DEF Runs, Keeps, t
  <2> QED
    BY <2>6, <2>7
<1> QED
  BY <1>3, <1>4, <1>5 DEF EventType

\* A packet leaves the queue.
LEMMA PoppedRuns ==
  ASSUME NEW s \in Controller, s.tasks # <<>>, NEW x \in Task, x = Head(s.tasks), x.type \in PacketType, NEW c
  PROVE  Runs(s, Popped(s), c)
<1> DEFINE q == Tail(s.tasks)
           t == [s EXCEPT !.tasks = q]
<1>1. q \in Seq(Task) /\ s.tasks \in Seq(Task) /\ Popped(s) = t
  BY DEF Controller, Popped
<1> HIDE DEF q
<1>2. /\ t.tasks = q /\ t.page_ = s.page_ /\ t.acl = s.acl /\ t.sco = s.sco
      /\ t.awaiting = s.awaiting /\ t.told = s.told
  BY DEF Controller
<1> HIDE DEF t
<1>3. ~Answer(x) /\ x.type # "CONNECTION_COMPLETE" /\ x.type # "DISCONNECTION_COMPLETE"
  BY DEF PacketType, Answer
<1>4. Pops(s, t, x)
  BY <1>1, <1>2, <1>3 DEF Pops, q
<1> QED
  BY <1>1, <1>2, <1>4, PopsRuns

\* Every packet of DisconnectAll is for a connected peer.
LEMMA PacketsApart ==
  ASSUME NEW table, NEW S, S \subseteq Handles, NEW c, \A h \in S : table[h].address # c, NEW type
  PROVE  \A i \in DOMAIN IterationOrder(S) : Packet(type, table[IterationOrder(S)[i]].address, TRUE).peer # c
<1> DEFINE hs == IterationOrder(S)
<1>1. hs \in [1..Cardinality(S) -> S]
  BY HandlesAssumption, FS_Subset, IterationOrderType
<1> HIDE DEF hs
<1>2. \A i \in DOMAIN hs : hs[i] \in S
  BY <1>1
<1>3. \A i \in DOMAIN hs : Packet(type, table[hs[i]].address, TRUE).peer # c
  BY <1>2 DEF Packet
<1> QED
  BY <1>3, ZenonT(60) DEF hs

\* After HCI Reset the host awaits nothing.
LEMMA ResetAwaits ==
  ASSUME NEW s \in Controller, NEW c
  PROVE  Awaits(Reset(s)) /\ (Apart(s, c) => Apart(Reset(s), c))
<1> DEFINE ss == [i \in DOMAIN IterationOrder(Used(s.sco)) |->
                    Packet("SCO_DISCONNECT", s.sco[IterationOrder(Used(s.sco))[i]].address, TRUE)]
           as == [i \in DOMAIN IterationOrder(Used(s.acl)) |->
                    Packet("DISCONNECT", s.acl[IterationOrder(Used(s.acl))[i]].address, TRUE)]
           u == DisconnectAll(s)
           t == Reset(s)
<1>1. Used(s.sco) \subseteq Handles /\ Used(s.acl) \subseteq Handles
  BY DEF Used
<1>2. ss \in Seq(Task) /\ as \in Seq(Task)
  <2>1. /\ \A h \in Used(s.sco) : s.sco[h].address \in Ctrl
        /\ \A h \in Used(s.acl) : s.acl[h].address \in Ctrl
    BY DEF Used, Controller, Sco, Acl
  <2>2. "SCO_DISCONNECT" \in PacketType /\ "DISCONNECT" \in PacketType
    BY DEF PacketType
  <2> QED
    BY <1>1, <2>1, <2>2, PacketsOfTable, ZenonT(60)
<1>3. u = Send(s, ss \o as)
  BY DEF DisconnectAll
<1>4. ASSUME Apart(s, c)
      PROVE  (\A i \in DOMAIN ss : ss[i].peer # c) /\ (\A i \in DOMAIN as : as[i].peer # c)
  <2>1. /\ \A h \in Used(s.sco) : s.sco[h].address # c
        /\ \A h \in Used(s.acl) : s.acl[h].address # c
    BY <1>4 DEF Apart, ScoApart, AclApart, Used
  <2>2. \A i \in DOMAIN IterationOrder(Used(s.sco)) :
          Packet("SCO_DISCONNECT", s.sco[IterationOrder(Used(s.sco))[i]].address, TRUE).peer # c
    BY <1>1, <2>1, PacketsApart, ZenonT(60)
  <2>3. \A i \in DOMAIN IterationOrder(Used(s.acl)) :
          Packet("DISCONNECT", s.acl[IterationOrder(Used(s.acl))[i]].address, TRUE).peer # c
    BY <1>1, <2>1, PacketsApart, ZenonT(60)
  <2> QED
    BY <2>2, <2>3, ZenonT(60)
<1> HIDE DEF ss, as
<1>5. u = [s EXCEPT !.tasks = s.tasks \o (ss \o as)] /\ s.tasks \in Seq(Task)
  BY <1>3 DEF Send, Controller
<1>6. t = [u EXCEPT
            !.acl = EmptyTable, !.sco = EmptyTable, !.lm_ = NoLinks, !.page_ = None, !.page_scan_ = None,
            !.page_scan_enable_ = FALSE, !.masked = FALSE, !.policy = FALSE,
            !.awaiting = {}, !.told = {}, !.requests = {}, !.scoRequests = {}]
  BY DEF Reset
<1> HIDE DEF t, u
<1>7. /\ t.acl = EmptyTable /\ t.sco = EmptyTable /\ t.page_ = None /\ t.awaiting = {}
      /\ t.tasks = s.tasks \o (ss \o as)
  BY <1>5, <1>6, ZenonT(60) DEF Controller
<1>8. ASSUME Apart(s, c) PROVE \A i \in DOMAIN t.tasks : t.tasks[i].peer # c
  <2> DEFINE r == ss \o as
  <2>1. r \in Seq(Task) /\ \A i \in DOMAIN r : r[i].peer # c
    <3>1. /\ \A j \in DOMAIN r : j \in DOMAIN ss \/ \E k \in DOMAIN as : j = Len(ss) + k
          /\ \A i \in DOMAIN ss : r[i] = ss[i]
          /\ \A k \in DOMAIN as : r[Len(ss) + k] = as[k]
      BY <1>2, AppendIndices, ZenonT(60)
    <3>2. r \in Seq(Task)
      BY <1>2, ConcatTasks, ZenonT(60)
    <3> HIDE DEF r
    <3> QED
      BY <1>4, <1>8, <3>1, <3>2, ZenonT(60)
  <2> HIDE DEF r
  <2>2. Queues(s, t, r)
    BY <1>5, <1>7, <2>1, ZenonT(60) DEF Queues, r
  <2>3. \A i \in DOMAIN s.tasks : s.tasks[i].peer # c
    BY <1>8 DEF Apart
  <2> QED
    BY <2>1, <2>2, <2>3, ApartTasks
<1>9. Awaits(t)
  BY <1>7 DEF Awaits
<1>10. AclApart(t, c) /\ ScoApart(t, c)
  BY <1>7 DEF AclApart, ScoApart, EmptyTable
<1> QED
  BY <1>7, <1>8, <1>9, <1>10, ZenonT(60) DEF Apart, t

\* The commands about roles and SCO connections.
LEMMA OtherCommandsInform ==
  ASSUME NEW s \in Controller, NEW p \in Ctrl, NEW c, p # c
  PROVE  /\ Informs(s, SwitchRole(s, p), c)
         /\ \A h \in AclOf(s, p), switch \in BOOLEAN : Informs(s, WriteLinkPolicySettings(s, h, switch), c)
         /\ ~ScoFull(s) => Informs(s, SetupSynchronousConnection(s, p), c)
         /\ Informs(s, DisconnectSco(s, p), c)
<1>0. TRUE \in BOOLEAN /\ FALSE \in BOOLEAN /\ "ROLE_SWITCH_REQUEST" \in PacketType
      /\ "SCO_CONNECTION_REQUEST" \in PacketType /\ "SCO_DISCONNECT" \in PacketType
  BY DEF PacketType
<1>1. Leaves(s, s, c)
  BY DEF Leaves
<1>2. Leaves(s, AddSco(s, p, "PENDING"), c) /\ Leaves(s, RemoveSco(s, p), c)
  BY ScoLeaves
<1>3. Informs(s, SwitchRole(s, p), c)
  BY <1>0, <1>1, SendOne, QuietlyInforms, ZenonT(60) DEF SwitchRole
<1>4. ASSUME NEW h \in AclOf(s, p), NEW switch \in BOOLEAN
      PROVE  Informs(s, WriteLinkPolicySettings(s, h, switch), c)
  <2> DEFINE a == [s.acl[h] EXCEPT !.switch = switch]
             t == [s EXCEPT !.acl = [s.acl EXCEPT ![h] = a]]
  <2>1. h \in Handles /\ s.acl[h] # None /\ s.acl[h] \in Acl
    BY DEF AclOf, Controller
  <2>2. a \in Acl /\ a.address = s.acl[h].address
    BY <2>1 DEF Acl
  <2>3. WriteLinkPolicySettings(s, h, switch) = t
    BY <2>1 DEF WriteLinkPolicySettings, Controller
  <2> HIDE DEF a
  <2>4. t = [s EXCEPT !.acl = [s.acl EXCEPT ![h] = a]]
    OBVIOUS
  <2> HIDE DEF t
  <2>5. Quietly(s, t, c)
    BY <2>1, <2>2, <2>4, ChangeQuietly
  <2> QED
    BY <2>3, <2>5, QuietlyInforms
<1>5. ASSUME ~ScoFull(s) PROVE Informs(s, SetupSynchronousConnection(s, p), c)
  <2>1. "PENDING" \in {"PENDING", "SENT", "OPENED"}
    OBVIOUS
  <2>2. AddSco(s, p, "PENDING") \in Controller
    BY <1>5, <2>1, ScoSame DEF Same
  <2> QED
    BY <1>0, <1>2, <2>2, SendOne, QuietlyInforms, ZenonT(60) DEF SetupSynchronousConnection
<1>6. Informs(s, DisconnectSco(s, p), c)
  <2>1. RemoveSco(s, p) \in Controller
    BY ScoSame DEF Same
  <2> QED
    BY <1>0, <1>2, <2>1, SendOne, QuietlyInforms, ZenonT(60) DEF DisconnectSco
<1> QED
  BY <1>3, <1>4, <1>5, <1>6

\* The answer to a SCO connection request.
LEMMA AnswerScoInforms ==
  ASSUME NEW s \in Controller, NEW p \in Ctrl, NEW c, p # c, NEW ok \in BOOLEAN
  PROVE  Informs(s, AnswerSynchronousConnection(s, p, ok), c)
<1> DEFINE t == [s EXCEPT !.scoRequests = @ \ {p}]
           u == IF ok THEN OpenSco(t, p) ELSE RemoveSco(t, p)
<1>1. t \in Controller /\ Leaves(s, t, c) /\ t.sco = s.sco
  BY SMTT(60) DEF Controller, Leaves, ScoApart
<1>2. CASE ~HasPendingScoConnection(s, p)
  BY <1>1, <1>2, LeavesQuietly, QuietlyInforms DEF AnswerSynchronousConnection
<1>3. CASE HasPendingScoConnection(s, p)
  <2>1. AnswerSynchronousConnection(s, p, ok) = Send(u, <<Packet("SCO_CONNECTION_RESPONSE", p, ok)>>)
    BY <1>3, SMTT(30) DEF AnswerSynchronousConnection
  <2>2. ScoOf(s, p) # {}
    BY <1>3 DEF HasPendingScoConnection
  <2>3. ScoOf(t, p) # {}
    BY <1>1, <2>2, ZenonT(60) DEF ScoOf
  <2> HIDE DEF t
  <2>4. u \in Controller /\ Leaves(t, u, c)
    BY <1>1, <2>3, ScoLeaves, ScoSame, SMTT(30) DEF Same
  <2> HIDE DEF u
  <2>5. Leaves(s, u, c)
    BY <1>1, <2>4 DEF Leaves
  <2>6. "SCO_CONNECTION_RESPONSE" \in PacketType
    BY ZenonT(60) DEF PacketType
  <2> QED
    BY <2>1, <2>4, <2>5, <2>6, SendOne, QuietlyInforms, SMTT(30)
<1> QED
  BY <1>2, <1>3

-----------------------------------------------------------------------------
(* The system.                                                             *)

\* What is known of controller c and its host while `tick` is the controller whose
\* Tick runs, with n tasks to go.
Known(s, c, tick, n) ==
  /\ Apart(s, c) /\ Awaits(s)
  /\ c \notin usage.resetters => Told(s)
  /\ c \notin usage.rejecters \cup usage.resetters =>
       /\ tick = c => Paged(s, TRUE, n)
       /\ tick # c => Paged(s, FALSE, 0)

\* The inductive invariant, beside IInv.
KInv == \A c \in Ctrl : Known(ctl[c], c, ticking, due)

\* It says what HostKnows says.
LEMMA KnownIsHostKnows ==
  ASSUME KInv
  PROVE  HostKnows
<1> SUFFICES ASSUME NEW c \in Ctrl
             PROVE  LET s == ctl[c] IN
      /\ \A p \in s.awaiting : Pages(s, p) \/ \E i \in DOMAIN s.tasks : Answer(s.tasks[i]) /\ s.tasks[i].peer = p
      /\ s.page_ # None /\ c \notin usage.rejecters \cup usage.resetters => s.page_.bd_addr \in s.awaiting
      /\ c \notin usage.resetters =>
           /\ \A h \in Used(s.acl) \ s.told : Queued(s, "CONNECTION_COMPLETE", h)
           /\ \A h \in s.told \ Used(s.acl) : Queued(s, "DISCONNECTION_COMPLETE", h)
  BY ZenonT(60) DEF HostKnows
<1> DEFINE s == ctl[c]
<1>1. Known(s, c, ticking, due)
  BY DEF KInv
<1> HIDE DEF s
<1>2. Awaits(s) /\ (c \notin usage.resetters => Told(s))
  BY <1>1, SMTT(30) DEF Known
<1>3. c \notin usage.rejecters \cup usage.resetters /\ s.page_ # None => s.page_.bd_addr \in s.awaiting
  BY <1>1 DEF Known, Paged
<1>4. \A p \in s.awaiting : Pages(s, p) \/ \E i \in DOMAIN s.tasks : Answer(s.tasks[i]) /\ s.tasks[i].peer = p
  BY <1>2, SMTT(30) DEF Awaits
<1>5. c \notin usage.resetters =>
           /\ \A h \in Used(s.acl) \ s.told : Queued(s, "CONNECTION_COMPLETE", h)
           /\ \A h \in s.told \ Used(s.acl) : Queued(s, "DISCONNECTION_COMPLETE", h)
  BY <1>2 DEF Told
<1> QED
  BY <1>3, <1>4, <1>5 DEF s

\* A handler that keeps its host informed.
LEMMA InformsKnown ==
  ASSUME NEW s, NEW t, NEW c, Informs(s, t, c), NEW tick, NEW n, Known(s, c, tick, n)
  PROVE  Known(t, c, tick, n)
<1>1. Keeps(s, t, TRUE, n) /\ Keeps(s, t, FALSE, 0) /\ (Apart(s, c) => Apart(t, c))
  BY ZenonT(60) DEF Informs
<1> QED
  BY <1>1, ZenonT(60) DEF Known, Keeps

\* A command that queues its answer, outside a Tick.
LEMMA RepliesKnown ==
  ASSUME NEW s, NEW t, NEW p, NEW c, Replies(s, t, p, c), NEW tick, tick # c, NEW n,
         c \in usage.rejecters \/ ~Pages(t, p), Known(s, c, tick, n)
  PROVE  Known(t, c, tick, n)
<1>1. PICK ts, more : Answers(s, t, ts, p, more)
  BY DEF Replies
<1>2. /\ Awaits(s) => Awaits(t)
      /\ Paged(s, FALSE, 0) /\ ~Pages(t, p) => Paged(t, FALSE, 0)
      /\ Told(s) => Told(t)
  BY <1>1, AnswersKeeps, ZenonT(60)
<1> QED
  BY <1>2, ZenonT(60) DEF Known, Replies

\* One controller changes.
LEMMA BecomesKInv ==
  ASSUME KInv, IInv, usage' = usage, NEW c \in Ctrl, NEW t, Becomes(c, t), Known(t, c, ticking, due)
  PROVE  KInv'
<1>1. \A e \in Ctrl : ctl'[e] = IF e = c THEN t ELSE ctl[e]
  BY DEF Becomes, IInv
<1>2. ticking' = ticking /\ due' = due
  BY DEF Becomes
<1>3. \A e \in Ctrl : Known(ctl'[e], e, ticking, due)
  BY <1>1 DEF KInv
<1> QED
  BY <1>2, <1>3, ZenonT(60) DEF KInv, Known

\* A new host knows that there is nothing.
LEMMA InitKInv == Init => KInv
<1> SUFFICES ASSUME Init, NEW c \in Ctrl PROVE Known(ctl[c], c, ticking, due)
  BY ZenonT(60) DEF KInv
<1> DEFINE s == ctl[c]
<1>1. /\ s.page_ = None /\ s.acl = EmptyTable /\ s.sco = EmptyTable /\ s.tasks = <<>>
      /\ s.awaiting = {} /\ s.told = {}
  BY DEF Init
<1> HIDE DEF s
<1>2. /\ \A h \in Handles : s.acl[h] = None /\ s.sco[h] = None
      /\ DOMAIN s.tasks = {} /\ Used(s.acl) = {}
  BY <1>1, SMTT(60) DEF EmptyTable, Used
<1>3. Apart(s, c) /\ Awaits(s)
  BY <1>1, <1>2, ZenonT(60) DEF Apart, AclApart, ScoApart, Awaits
<1>4. Told(s) /\ Paged(s, TRUE, due) /\ Paged(s, FALSE, 0)
  BY <1>1, <1>2 DEF Told, Paged, Queued
<1> QED
  BY <1>3, <1>4, ZenonT(60) DEF Known, s

\* Commands of the host.
LEMMA HostCommandKInv ==
  ASSUME KInv, IInv, usage' = usage, NEW c \in Ctrl, HostCommand(c)
  PROVE  KInv'
<1> DEFINE s == ctl[c]
<1>1. Good(s) /\ ~s.failed /\ s \in Controller /\ ticking # c /\ Known(s, c, ticking, due)
  BY NoneAssumption, ZenonT(60) DEF IInv, HostCommand, Commands, Alive, KInv
<1>2. PICK p \in Ctrl \ {c} :
        \/ /\ p \notin s.awaiting /\ s.page_ = None
           /\ \E allow \in BOOLEAN : Becomes(c, CreateConnection(s, p, allow))
        \/ Pages(s, p) /\ Becomes(c, CreateConnectionCancel(s, p))
        \/ ~AclFull(s) /\ \E try \in BOOLEAN : Becomes(c, AcceptConnectionRequest(s, p, try))
        \/ c \in usage.rejecters /\ Becomes(c, RejectConnectionRequest(s, p))
        \/ \E h \in AclOf(s, p) : Becomes(c, Disconnect(s, h))
        \/ Becomes(c, SwitchRole(s, p))
        \/ \E h \in AclOf(s, p), switch \in BOOLEAN : Becomes(c, WriteLinkPolicySettings(s, h, switch))
        \/ ~ScoFull(s) /\ Becomes(c, SetupSynchronousConnection(s, p))
        \/ \E ok \in BOOLEAN : Becomes(c, AnswerSynchronousConnection(s, p, ok))
        \/ Becomes(c, DisconnectSco(s, p))
  BY ZenonT(60) DEF HostCommand
<1> HIDE DEF s
<1>3. \A h \in AclOf(s, p) : h \in Handles /\ s.acl[h] # None
  BY DEF AclOf
<1>a. p \in Ctrl /\ p # c
  OBVIOUS
<1>b. \A t : Informs(s, t, c) => Known(t, c, ticking, due)
  BY <1>1, InformsKnown, ZenonT(60)
<1>c. \A t : Replies(s, t, p, c) /\ (c \in usage.rejecters \/ ~Pages(t, p)) => Known(t, c, ticking, due)
  BY <1>1, RepliesKnown
<1>4. PICK t : Becomes(c, t) /\ Known(t, c, ticking, due)
  <2>1. CASE /\ p \notin s.awaiting /\ s.page_ = None
             /\ \E allow \in BOOLEAN : Becomes(c, CreateConnection(s, p, allow))
    <3>1. PICK allow \in BOOLEAN : Becomes(c, CreateConnection(s, p, allow))
      BY <2>1
    <3> DEFINE t == CreateConnection(s, p, allow)
    <3>2. Keeps(s, t, FALSE, 0)
      BY <1>1, <1>a, <2>1, CreateKeeps, ZenonT(60)
    <3>3. Apart(s, c) => Apart(t, c)
      <4>1. /\ t.page_ = [bd_addr |-> p, allow_role_switch |-> allow]
            /\ t.tasks = s.tasks /\ t.acl = s.acl /\ t.sco = s.sco
        BY <1>1, SMTT(30) DEF CreateConnection, Controller
      <4>2. t.page_.bd_addr = p
        BY <4>1
      <4> HIDE DEF t
      <4> QED
        BY <1>a, <4>1, <4>2 DEF Apart, AclApart, ScoApart
    <3> HIDE DEF t
    <3>4. Known(t, c, ticking, due)
      BY <1>1, <3>2, <3>3, ZenonT(60) DEF Known, Keeps
    <3> QED
      BY <3>1, <3>4, SMTT(30) DEF t
  <2>2. CASE Pages(s, p) /\ Becomes(c, CreateConnectionCancel(s, p))
    <3>1. Replies(s, CreateConnectionCancel(s, p), p, c) /\ CreateConnectionCancel(s, p).page_ = None
      BY <1>1, <1>a, <2>2, CancelReplies
    <3>2. ~Pages(CreateConnectionCancel(s, p), p)
      BY <3>1, ZenonT(60) DEF Pages
    <3> QED
      BY <1>c, <2>2, <3>1, <3>2, ZenonT(60)
  <2>3. CASE ~AclFull(s) /\ \E try \in BOOLEAN : Becomes(c, AcceptConnectionRequest(s, p, try))
    <3>1. PICK try \in BOOLEAN : Becomes(c, AcceptConnectionRequest(s, p, try))
      BY <2>3
    <3> DEFINE w == AcceptConnectionRequest(s, p, try)
    <3>2. Informs(s, w, c) \/ (Replies(s, w, p, c) /\ ~Pages(w, p))
      BY <1>1, <1>a, <2>3, AcceptReplies, ZenonT(60)
    <3> HIDE DEF w
    <3> QED
      BY <1>b, <1>c, <3>1, <3>2, SMTT(30) DEF w
  <2>4. CASE c \in usage.rejecters /\ Becomes(c, RejectConnectionRequest(s, p))
    BY <1>1, <1>a, <1>c, <2>4, RejectReplies, ZenonT(60)
  <2>5. CASE \E h \in AclOf(s, p) : Becomes(c, Disconnect(s, h))
    BY <1>1, <1>3, <1>b, <2>5, DisconnectInforms, ZenonT(60)
  <2>6. CASE Becomes(c, SwitchRole(s, p))
    BY <1>1, <1>a, <1>b, <2>6, OtherCommandsInform, ZenonT(60)
  <2>7. CASE \E h \in AclOf(s, p), switch \in BOOLEAN : Becomes(c, WriteLinkPolicySettings(s, h, switch))
    BY <1>1, <1>a, <1>b, <2>7, OtherCommandsInform, ZenonT(60)
  <2>8. CASE ~ScoFull(s) /\ Becomes(c, SetupSynchronousConnection(s, p))
    BY <1>1, <1>a, <1>b, <2>8, OtherCommandsInform, ZenonT(60)
  <2>9. CASE \E ok \in BOOLEAN : Becomes(c, AnswerSynchronousConnection(s, p, ok))
    BY <1>1, <1>a, <1>b, <2>9, AnswerScoInforms, ZenonT(60)
  <2>10. CASE Becomes(c, DisconnectSco(s, p))
    BY <1>1, <1>a, <1>b, <2>10, OtherCommandsInform, SMTT(60)
  <2> QED
    BY <1>2, <2>1, <2>2, <2>3, <2>4, <2>5, <2>6, <2>7, <2>8, <2>9, <2>10, ZenonT(60)
<1> QED
  BY <1>4, BecomesKInv DEF s

\* HCI Reset, Write Scan Enable, and the end of a connection that expired.
LEMMA OtherCommandsKInv ==
  ASSUME KInv, IInv, usage' = usage, NEW c \in Ctrl,
         ResetCommand(c) \/ WriteScanEnable(c) \/ CheckExpiringConnection(c)
  PROVE  KInv'
<1> DEFINE s == ctl[c]
<1>1. Good(s) /\ ~s.failed /\ s \in Controller /\ Known(s, c, ticking, due)
  BY DEF IInv, ResetCommand, WriteScanEnable, CheckExpiringConnection, Commands, Alive, KInv
<1>2. CASE ResetCommand(c)
  <2> DEFINE t == Reset(s)
  <2>1. Becomes(c, t) /\ c \in usage.resetters
    BY <1>2 DEF ResetCommand
  <2>2. Awaits(t) /\ (Apart(s, c) => Apart(t, c))
    BY <1>1, ResetAwaits
  <2> HIDE DEF s, t
  <2>3. Known(t, c, ticking, due)
    BY <1>1, <2>1, <2>2, ZenonT(60) DEF Known
  <2> QED
    BY <2>1, <2>3, BecomesKInv, ZenonT(60)
<1>3. CASE WriteScanEnable(c)
  <2> DEFINE t == [s EXCEPT !.page_scan_enable_ = TRUE]
  <2>1. Becomes(c, t)
    BY <1>3 DEF WriteScanEnable
  <2>2. Leaves(s, t, c)
    <3> HIDE DEF s
    <3> QED
      BY <1>1 DEF Leaves, Controller, ScoApart
  <2> HIDE DEF t, s
  <2>3. Known(t, c, ticking, due)
    BY <1>1, <2>2, LeavesQuietly, QuietlyInforms, InformsKnown, ZenonT(60)
  <2> QED
    BY <2>1, <2>3, BecomesKInv
<1>4. CASE CheckExpiringConnection(c)
  <2>1. PICK h \in Handles : s.acl[h] # None /\ Becomes(c, Disconnect(s, h))
    BY <1>4, SMTT(30) DEF CheckExpiringConnection, Used
  <2>2. Known(Disconnect(s, h), c, ticking, due)
    BY <1>1, <2>1, DisconnectInforms, InformsKnown
  <2> QED
    BY <2>1, <2>2, BecomesKInv, ZenonT(60)
<1> QED
  BY <1>2, <1>3, <1>4

\* A Tick will run every answer that is queued.
LEMMA StartTickKInv ==
  ASSUME KInv, IInv, usage' = usage, NEW c \in Ctrl, StartTick(c)
  PROVE  KInv'
<1> SUFFICES ASSUME NEW e \in Ctrl PROVE Known(ctl[e], e, ticking, due)'
  BY DEF KInv
<1>1. ticking = None /\ ticking' = c /\ due' = Len(ctl[c].tasks) /\ ctl' = ctl /\ e # None
  BY NoneAssumption DEF StartTick
<1> DEFINE s == ctl[e]
<1>2. Known(s, e, None, due) /\ s.tasks \in Seq(Task)
  BY <1>1, ZenonT(60) DEF KInv, IInv, Controller
<1>3. ASSUME Paged(s, FALSE, 0), e = c PROVE Paged(s, TRUE, due')
  <2>1. due' = Len(s.tasks)
    BY <1>1, <1>3
  <2> HIDE DEF s
  <2>2. \A i \in DOMAIN s.tasks : i <= Len(s.tasks)
    BY <1>2
  <2> QED
    BY <1>3, <2>1, <2>2 DEF Paged
<1> HIDE DEF s
<1>4. Known(s, e, c, due')
  BY <1>1, <1>2, <1>3, ZenonT(60) DEF Known
<1> QED
  BY <1>1, <1>4, ZenonT(60) DEF Known, s

\* One task of a Tick.
LEMMA RunTaskKInv ==
  ASSUME KInv, IInv, usage' = usage, NEW c \in Ctrl, RunTask(c)
  PROVE  KInv'
<1> DEFINE s == ctl[c]
           task == Head(s.tasks)
           d == task.peer
<1>1. /\ ticking = c /\ ticking' = c /\ due \in Nat /\ due > 0 /\ due' = due - 1
      /\ due <= Len(s.tasks) /\ c # None
  BY NoneAssumption, ZenonT(60) DEF IInv, RunTask
<1>2. s \in Controller /\ s.tasks \in Seq(Task) /\ Known(s, c, c, due)
  BY <1>1, SMTT(30) DEF IInv, Controller, KInv
<1>3. s.tasks # <<>> /\ task \in Task /\ 1 \in DOMAIN s.tasks /\ s.tasks[1] = task
  <2> DEFINE q == s.tasks
  <2>1. q \in Seq(Task) /\ due <= Len(q)
    BY <1>1, <1>2
  <2> HIDE DEF q
  <2>2. q # <<>> /\ Head(q) \in Task /\ 1 \in DOMAIN q /\ q[1] = Head(q)
    BY <1>1, <2>1, SMTT(60)
  <2> QED
    BY <2>2 DEF q
<1>4. d \in Ctrl /\ d # c
  <2>1. Apart(s, c)
    BY <1>2, ZenonT(60) DEF Known
  <2> QED
    BY <1>3, <2>1, SMTT(60) DEF Task, Apart
<1>5. \A e \in Ctrl : Good(ctl[e]) /\ ~ctl[e].failed
  BY DEF IInv, RunTask, Alive
<1>6. \A e \in Ctrl : e # c => Known(ctl[e], e, c, due')
  BY <1>1, ZenonT(60) DEF KInv, Known
<1>7. \A t : Runs(s, t, c) => Known(t, c, c, due')
  BY <1>1, <1>2, ZenonT(60) DEF Runs, Known
<1>8. SUFFICES \A e \in Ctrl : Known(ctl'[e], e, c, due')
  BY <1>1, ZenonT(60) DEF KInv, Known
<1>9. CASE task.type \in EventType /\ ctl' = [ctl EXCEPT ![c] = DeferredEvent(Popped(s), task)]
  <2> DEFINE t == DeferredEvent(Popped(s), task)
  <2>1. Runs(s, t, c)
    BY <1>2, <1>3, <1>9, DeferredEventRuns, SMTT(30)
  <2>2. ctl' = [ctl EXCEPT ![c] = t]
    BY <1>9
  <2> HIDE DEF t, task, s
  <2>3. \A e \in Ctrl : ctl'[e] = IF e = c THEN t ELSE ctl[e]
    BY <2>2, SMTT(60) DEF IInv
  <2> QED
    BY <1>6, <1>7, <2>1, <2>3, ZenonT(60)
<1>10. CASE /\ task.type \in PacketType
            /\ task.type = "PAGE_RESPONSE" => ~AclFull(ctl[d])
            /\ task.type = "SCO_CONNECTION_REQUEST" => ~ScoFull(ctl[d])
            /\ ctl' = [ctl EXCEPT ![c] = Popped(s), ![d] = IncomingPacket(ctl[d], c, task)]
  <2> DEFINE t == IncomingPacket(ctl[d], c, task)
             u == Popped(s)
  <2>1. Informs(ctl[d], t, d)
    BY <1>3, <1>4, <1>5, <1>10, IncomingPacketInforms, ZenonT(60)
  <2>2. Runs(s, u, c)
    BY <1>2, <1>3, <1>10, PoppedRuns, ZenonT(60)
  <2>3. ctl' = [ctl EXCEPT ![c] = u, ![d] = t]
    BY <1>10
  <2> HIDE DEF t, d, task, u, s
  <2>4. \A e \in Ctrl : ctl'[e] = IF e = d THEN t ELSE IF e = c THEN u ELSE ctl[e]
    BY <1>4, <2>3 DEF IInv
  <2>5. Known(t, d, c, due')
    BY <1>4, <1>6, <2>1, InformsKnown, SMTT(30)
  <2> QED
    BY <1>6, <1>7, <2>2, <2>4, <2>5, ZenonT(60)
<1> QED
  BY <1>9, <1>10, ZenonT(60) DEF RunTask

\* The end of a Tick: no answer is left in the queue.
LEMMA PagingKInv ==
  ASSUME KInv, IInv, usage' = usage, NEW c \in Ctrl, Paging(c)
  PROVE  KInv'
<1> DEFINE s == ctl[c]
<1>1. s \in Controller /\ Known(s, c, c, 0) /\ ticking = c /\ ticking' = None /\ due' = 0 /\ due = 0 /\ c # None
  BY NoneAssumption DEF IInv, Paging, KInv
<1>2. \A e \in Ctrl : e # c => Known(ctl[e], e, None, 0)
  BY <1>1, NoneAssumption, ZenonT(60) DEF KInv, Known
<1>3. \A t : t.tasks \in Seq(Task) /\ Known(t, c, c, 0) => Known(t, c, None, 0)
  <2> SUFFICES ASSUME NEW t, t.tasks \in Seq(Task), Paged(t, TRUE, 0) PROVE Paged(t, FALSE, 0)
    BY <1>1, ZenonT(60) DEF Known
  <2>1. \A i \in DOMAIN t.tasks : ~(i <= 0)
    OBVIOUS
  <2> QED
    BY <2>1 DEF Paged
<1>4. SUFFICES ASSUME NEW t, t.tasks \in Seq(Task), Known(t, c, c, 0), ctl' = [ctl EXCEPT ![c] = t]
               PROVE  KInv'
  <2> SUFFICES \E t : t.tasks \in Seq(Task) /\ Known(t, c, c, 0) /\ ctl' = [ctl EXCEPT ![c] = t]
    BY ZenonT(60)
  <2>1. CASE ctl' = ctl
    <3>1. ctl' = [ctl EXCEPT ![c] = s] /\ s.tasks \in Seq(Task)
      BY <1>1, <2>1 DEF IInv, Controller
    <3> QED
      BY <1>1, <3>1, ZenonT(60)
  <2>2. CASE ctl' # ctl
    <3>1. s.page_ # None
      BY <2>2, ZenonT(60) DEF Paging
    <3> DEFINE p == s.page_.bd_addr
               allow == s.page_.allow_role_switch
    <3>2. s.page_ \in Page /\ p \in Ctrl /\ allow \in BOOLEAN /\ p # c
      BY <1>1, <3>1, ZenonT(60) DEF Controller, Page, Known, Apart
    <3>3. CASE ctl' = [ctl EXCEPT ![c].page_ = None, ![c].awaiting = @ \ {s.page_.bd_addr}]
      <4> DEFINE t == [s EXCEPT !.page_ = None, !.awaiting = @ \ {p}]
      <4>1. ctl' = [ctl EXCEPT ![c] = t]
        BY <3>3, ZenonT(60) DEF IInv
      <4>2. Pages(s, p)
        BY <3>1 DEF Pages
      <4> HIDE DEF s, p
      <4>3. Informs(s, t, c)
        BY <1>1, <4>2, UnpageInforms, ZenonT(60)
      <4>4. t.tasks \in Seq(Task)
        BY <1>1 DEF Controller
      <4> HIDE DEF t
      <4> QED
        BY <1>1, <4>1, <4>3, <4>4, InformsKnown, ZenonT(60) DEF s
    <3>4. CASE ctl' = [ctl EXCEPT ![c] = Send(s, <<Packet("PAGE", s.page_.bd_addr, s.page_.allow_role_switch)>>)]
      <4> DEFINE t == Send(s, <<Packet("PAGE", p, allow)>>)
      <4>1. ctl' = [ctl EXCEPT ![c] = t]
        BY <3>4, SMTT(30)
      <4> HIDE DEF s, p, allow
      <4>2. Informs(s, t, c) /\ t.tasks \in Seq(Task)
        <5>1. Leaves(s, s, c) /\ "PAGE" \in PacketType
          BY DEF Leaves, PacketType
        <5>2. Informs(s, t, c)
          BY <1>1, <3>2, <5>1, SendOne, QuietlyInforms, ZenonT(60)
        <5>3. <<Packet("PAGE", p, allow)>> \in Seq(Task)
          BY <3>2, <5>1, TaskType, OneOrTwo
        <5>4. t \in Controller
          BY <1>1, <5>3, SendSame, ZenonT(60) DEF Same
        <5> QED
          BY <5>2, <5>4, SMTT(30) DEF Controller
      <4> HIDE DEF t
      <4> QED
        BY <1>1, <4>1, <4>2, InformsKnown, ZenonT(60) DEF s
    <3> QED
      BY <2>2, <3>3, <3>4, ZenonT(60) DEF Paging
  <2> QED
    BY <2>1, <2>2
<1>5. Known(t, c, None, 0)
  BY <1>3, <1>4
<1>6. \A e \in Ctrl : ctl'[e] = IF e = c THEN t ELSE ctl[e]
  BY <1>4 DEF IInv
<1>7. \A e \in Ctrl : Known(ctl'[e], e, None, 0)
  BY <1>2, <1>5, <1>6
<1> QED
  BY <1>1, <1>7, ZenonT(60) DEF KInv, Known

\* Every step keeps the invariant.
LEMMA NextKInv == IInv /\ KInv /\ [Next]_vars => KInv'
<1> SUFFICES ASSUME IInv, KInv, [Next]_vars PROVE KInv'
  OBVIOUS
<1>1. CASE UNCHANGED vars
  BY <1>1, ZenonT(60) DEF KInv, Known, vars
<1>2. CASE Next
  <2>1. PICK c \in Ctrl :
             \/ HostCommand(c) \/ ResetCommand(c) \/ WriteScanEnable(c)
             \/ StartTick(c) \/ RunTask(c) \/ CheckExpiringConnection(c) \/ Paging(c)
    BY <1>2 DEF Next
  <2>2. usage' = usage
    BY <1>2 DEF Next
  <2> QED
    BY <2>1, <2>2, HostCommandKInv, OtherCommandsKInv, StartTickKInv, RunTaskKInv, PagingKInv, ZenonT(60)
<1> QED
  BY <1>1, <1>2

\* No Connection Complete is lost and no connection goes unreported, through pages,
\* rejections, cancellations, disconnections, supervision timeouts and packets that
\* cross: a host that awaits a Connection Complete still has its peer paged or the
\* event deferred (CreateConnection, SendConnectionRequest, MakePeripheralConnection,
\* RejectPeripheralConnection, CheckExpiringConnection), and a connection that began
\* or ended without its host knowing has its event in the queue, for any number of
\* controllers and handles.
THEOREM HostAlwaysKnows == Spec => []HostKnows
<1>1. KInv => HostKnows
  BY KnownIsHostKnows, ZenonT(60)
<1> QED
  BY <1>1, InitInv, NextInv, InitKInv, NextKInv, PTL DEF Spec

-----------------------------------------------------------------------------
(* The ASSERTs, for hosts that use no SCO connections.                     *)

\* A link for every controller but this one.
EnoughSlots ==
  IsFiniteSet(Ctrl) /\ IsFiniteSet(Slots) /\ Cardinality(Ctrl) <= Cardinality(Slots) + 1

\* No SCO connection exists or is asked for.
Silent(s) ==
  /\ Used(s.sco) = {} /\ s.scoRequests = {}
  /\ \A i \in DOMAIN s.tasks : s.tasks[i].type # "SCO_CONNECTION_REQUEST"

\* No ASSERT fails, and it stays so.
Safe(t) == t.failed = FALSE /\ Silent(t)

\* With a link for every peer there is room for a peer that is not connected.
LEMMA FreeSlot ==
  ASSUME NEW s, Good(s), ~s.failed, NEW c \in Ctrl, AclApart(s, c), NEW p \in Ctrl, p # c,
         AclOf(s, p) = {}, EnoughSlots
  PROVE  SlotsOf(s, None) # {}
<1> SUFFICES ASSUME SlotsOf(s, None) = {} PROVE FALSE
  OBVIOUS
<1> DEFINE T == (Ctrl \ {c}) \ {p}
<1>1. s.lm_ \in [Slots -> Ctrl \cup {None}] /\ Agree(s.acl, s.lm_, s.page_)
  BY SMTT(30) DEF Good, Controller
<1>2. ASSUME NEW i \in Slots PROVE s.lm_[i] \in T
  <2>1. s.lm_[i] \in Ctrl
    BY <1>1, ZenonT(60) DEF SlotsOf
  <2>2. PICK h \in Handles : s.acl[h] # None /\ s.acl[h].address = s.lm_[i]
    BY <1>1, <2>1, ZenonT(60) DEF Agree
  <2> QED
    BY <2>1, <2>2, SMTT(60) DEF AclApart, AclOf
<1>3. s.lm_ \in [Slots -> T]
  BY <1>1, <1>2, SMTT(30)
<1>4. IsFiniteSet(T) /\ Cardinality(T) = Cardinality(Ctrl) - 2
  <2>1. IsFiniteSet(Ctrl \ {c}) /\ Cardinality(Ctrl \ {c}) = Cardinality(Ctrl) - 1
    BY FS_RemoveElement DEF EnoughSlots
  <2>2. p \in Ctrl \ {c}
    OBVIOUS
  <2>3. IsFiniteSet(T) /\ Cardinality(T) = Cardinality(Ctrl \ {c}) - 1
    BY <2>1, <2>2, FS_RemoveElement, SMTT(30)
  <2>4. Cardinality(Ctrl) \in Nat
    BY FS_CardinalityType DEF EnoughSlots
  <2> DEFINE n == Cardinality(Ctrl)
             m == Cardinality(Ctrl \ {c})
             k == Cardinality(T)
  <2>5. n \in Nat /\ m = n - 1 /\ k = m - 1
    BY <2>1, <2>3, <2>4, SMTT(30)
  <2> HIDE DEF n, m, k
  <2>6. k = n - 2
    BY <2>5
  <2> QED
    BY <2>3, <2>6 DEF n, k
<1>5. Cardinality(T) < Cardinality(Slots)
  <2>1. Cardinality(Ctrl) \in Nat /\ Cardinality(Slots) \in Nat /\ Cardinality(Ctrl) <= Cardinality(Slots) + 1
    BY FS_CardinalityType, SMTT(30) DEF EnoughSlots
  <2> DEFINE n == Cardinality(Ctrl)
             m == Cardinality(Slots)
             k == Cardinality(T)
  <2>2. n \in Nat /\ m \in Nat /\ n <= m + 1 /\ k = n - 2
    BY <1>4, <2>1
  <2> HIDE DEF n, m, k
  <2>3. k < m
    BY <2>2, SMTT(60)
  <2> QED
    BY <2>3 DEF m, k
<1>6. \E i, j \in Slots : i # j /\ s.lm_[i] = s.lm_[j]
  <2> HIDE DEF T
  <2> QED
    BY <1>3, <1>4, <1>5, FS_PigeonHole, SMTT(30) DEF EnoughSlots
<1> QED
  BY <1>1, <1>2, <1>6, NoneAssumption, SMTT(30) DEF Agree

\* A handler that has not to do with SCO connections.
LEMMA QueuesSafe ==
  ASSUME NEW s, Safe(s), NEW t, t.sco = s.sco, t.scoRequests = s.scoRequests, t.failed = s.failed,
         NEW ts, Queues(s, t, ts), \A i \in DOMAIN ts : ts[i].type # "SCO_CONNECTION_REQUEST"
  PROVE  Safe(t)
  BY QueuesReads DEF Safe, Silent

\* A step that touches neither SCO state, nor tasks, nor the ASSERTs is safe.
LEMMA StaysSafe ==
  ASSUME NEW s, Safe(s), NEW t, t.sco = s.sco, t.scoRequests = s.scoRequests, t.failed = s.failed,
         t.tasks = s.tasks
  PROVE  Safe(t)
  BY DEF Safe, Silent

\* Sending anything but a SCO request is safe,
LEMMA SendSafe ==
  ASSUME NEW s \in Controller, Safe(s), NEW ts \in Seq(Task),
         \A i \in DOMAIN ts : ts[i].type # "SCO_CONNECTION_REQUEST"
  PROVE  Safe(Send(s, ts))
<1> DEFINE t == Send(s, ts)
<1>1. /\ t.sco = s.sco /\ t.scoRequests = s.scoRequests /\ t.failed = s.failed
      /\ t.tasks = s.tasks \o ts /\ s.tasks \in Seq(Task)
  BY DEF Send, Controller
<1> HIDE DEF t
<1>2. Queues(s, t, ts)
  BY <1>1, SMTT(30) DEF Queues
<1>3. Safe(t)
  BY <1>1, <1>2, QueuesSafe
<1> QED
  BY <1>3 DEF t

\* as is one packet or event,
LEMMA SendOneSafe ==
  ASSUME NEW s \in Controller, Safe(s), NEW x \in Task, x.type # "SCO_CONNECTION_REQUEST"
  PROVE  Safe(Send(s, <<x>>))
<1> DEFINE ts == <<x>>
<1>1. ts \in Seq(Task) /\ \A i \in DOMAIN ts : ts[i].type # "SCO_CONNECTION_REQUEST"
  BY OneOrTwo
<1> HIDE DEF ts
<1>2. Safe(Send(s, ts))
  BY <1>1, SendSafe
<1> QED
  BY <1>2 DEF ts

\* and two of them.
LEMMA SendTwoSafe ==
  ASSUME NEW s \in Controller, Safe(s), NEW x \in Task, x.type # "SCO_CONNECTION_REQUEST",
         NEW y \in Task, y.type # "SCO_CONNECTION_REQUEST"
  PROVE  Safe(Send(s, <<x, y>>))
<1> DEFINE ts == <<x, y>>
<1>1. ts \in Seq(Task) /\ \A i \in DOMAIN ts : ts[i].type # "SCO_CONNECTION_REQUEST"
  BY OneOrTwo
<1> HIDE DEF ts
<1>2. Safe(Send(s, ts))
  BY <1>1, SendSafe
<1> QED
  BY <1>2 DEF ts

\* The link of a new connection is added.
LEMMA AddConnectionSafe ==
  ASSUME NEW s, Good(s), Safe(s), NEW c \in Ctrl, AclApart(s, c), NEW p \in Ctrl, p # c,
         AclOf(s, p) = {}, EnoughSlots, NEW role
  PROVE  Safe(AddConnection(s, p, role))
<1> DEFINE h == Unused(s)
           a == [address |-> p, role |-> role, switch |-> s.policy]
           i == Position(s, None)
           t == AddConnection(s, p, role)
<1>1. s \in Controller /\ ~s.failed
  BY DEF Good, Safe
<1>2. SlotsOf(s, None) # {}
  BY <1>1, FreeSlot
<1> HIDE DEF h, a, i
<1>3. t = [[s EXCEPT !.lm_[i] = p] EXCEPT !.acl[h] = a]
  BY <1>2, ZenonT(60) DEF AddConnection, AddLink, h, a, i
<1> HIDE DEF t
<1>4. t.sco = s.sco /\ t.scoRequests = s.scoRequests /\ t.failed = s.failed /\ t.tasks = s.tasks
  BY <1>1, <1>3, SMTT(30) DEF Controller
<1>5. Safe(t)
  BY <1>4, StaysSafe
<1> QED
  BY <1>5 DEF t

\* The link of a connection is removed, and no SCO connection is left.
LEMMA RemoveConnectionSafe ==
  ASSUME NEW s, Good(s), Safe(s), NEW h \in Handles, s.acl[h] # None
  PROVE  Safe(RemoveConnection(s, h))
<1> DEFINE p == s.acl[h].address
           i == Position(s, p)
           t == RemoveConnection(s, h)
<1>1. s \in Controller /\ s.failed = FALSE /\ Agree(s.acl, s.lm_, s.page_)
  BY SMTT(60) DEF Good, Safe
<1>2. p \in Ctrl
  BY <1>1, SMTT(30) DEF Controller, Acl
<1>3. SlotsOf(s, p) # {}
  BY <1>1, <1>2, SMTT(30) DEF Agree, SlotsOf
<1>4. ScoOf(s, p) = {}
  BY DEF Safe, Silent, Used, ScoOf
<1>5. t = [[s EXCEPT !.lm_[i] = None] EXCEPT !.acl[h] = None, !.failed = @ \/ ScoOf(s, p) # {}]
  BY <1>3, ZenonT(60) DEF RemoveConnection, RemoveLink
<1> HIDE DEF t, i, p
<1>6. t.sco = s.sco /\ t.scoRequests = s.scoRequests /\ t.failed = s.failed /\ t.tasks = s.tasks
  BY <1>1, <1>4, <1>5, SMTT(30) DEF Controller
<1>7. Safe(t)
  BY <1>6, StaysSafe
<1> QED
  BY <1>7 DEF t

\* Create Connection, its cancellation, and Reject.
LEMMA CreateSafe ==
  ASSUME NEW s \in Controller, Safe(s), NEW p \in Ctrl, NEW allow
  PROVE  /\ Safe(CreateConnection(s, p, allow))
         /\ Safe(CreateConnectionCancel(s, p))
         /\ Safe(RejectConnectionRequest(s, p))
<1> DEFINE r == [bd_addr |-> p, allow_role_switch |-> allow]
           x == Event("CONNECTION_COMPLETE", p, FALSE, None)
           y == Event("REJECT_PERIPHERAL", p, FALSE, None)
<1>1. Safe(CreateConnection(s, p, allow))
  <2> DEFINE t == [s EXCEPT !.page_ = r, !.awaiting = @ \cup {p}]
  <2>1. CreateConnection(s, p, allow) = t
    BY DEF CreateConnection
  <2> HIDE DEF r
  <2>2. t.sco = s.sco /\ t.scoRequests = s.scoRequests /\ t.failed = s.failed /\ t.tasks = s.tasks
    BY DEF Controller
  <2> HIDE DEF t
  <2> QED
    BY <2>1, <2>2, StaysSafe
<1>2. x \in Task /\ x.type # "SCO_CONNECTION_REQUEST" /\ y \in Task /\ y.type # "SCO_CONNECTION_REQUEST"
  BY TaskType, ZenonT(60) DEF EventType, Event
<1>3. ASSUME NEW z \in Task, z.type # "SCO_CONNECTION_REQUEST"
      PROVE  Safe(Send(s, <<z>>)) /\ Send(s, <<z>>) \in Controller
  BY <1>3, SendOneSafe, SendSame, OneOrTwo, ZenonT(60) DEF Same
<1>4. Safe(CreateConnectionCancel(s, p))
  <2> DEFINE u == Send(s, <<x>>)
             t == [u EXCEPT !.page_ = None]
  <2>1. CreateConnectionCancel(s, p) = t
    BY DEF CreateConnectionCancel
  <2> HIDE DEF x
  <2>2. Safe(u) /\ u \in Controller
    BY <1>2, <1>3
  <2> HIDE DEF u
  <2>3. t.sco = u.sco /\ t.scoRequests = u.scoRequests /\ t.failed = u.failed /\ t.tasks = u.tasks
    BY <2>2, SMTT(30) DEF Controller
  <2> HIDE DEF t
  <2> QED
    BY <2>1, <2>2, <2>3, StaysSafe
<1>5. Safe(RejectConnectionRequest(s, p))
  <2> DEFINE u == Send(s, <<y>>)
             t == [u EXCEPT !.requests = @ \ {p}, !.awaiting = @ \cup {p}]
  <2>1. RejectConnectionRequest(s, p) = t
    BY DEF RejectConnectionRequest
  <2> HIDE DEF y
  <2>2. Safe(u) /\ u \in Controller
    BY <1>2, <1>3
  <2> HIDE DEF u
  <2>3. t.sco = u.sco /\ t.scoRequests = u.scoRequests /\ t.failed = u.failed /\ t.tasks = u.tasks
    BY <2>2 DEF Controller
  <2> HIDE DEF t
  <2> QED
    BY <2>1, <2>2, <2>3, StaysSafe
<1> QED
  BY <1>1, <1>4, <1>5, SMTT(30)

\* Accept Connection Request: there is room for the link.
LEMMA AcceptSafe ==
  ASSUME NEW s, Good(s), Safe(s), NEW c \in Ctrl, AclApart(s, c), NEW p \in Ctrl, p # c,
         ~AclFull(s), EnoughSlots, NEW try \in BOOLEAN
  PROVE  Safe(AcceptConnectionRequest(s, p, try))
<1> DEFINE t == [s EXCEPT !.requests = @ \ {p}]
           role == IF try /\ s.page_scan_.allow_role_switch THEN "CENTRAL" ELSE "PERIPHERAL"
           v == AddConnection(t, p, role)
           x == Event("CONNECTION_COMPLETE", p, TRUE, Unused(s))
           y == Packet("PAGE_RESPONSE", p, try)
           u == Send(v, <<x, y>>)
           g == IF Pages(s, p) THEN None ELSE u.page_
           w == [u EXCEPT !.page_ = g, !.page_scan_ = None, !.awaiting = @ \cup {p}]
<1>0. s \in Controller /\ ~s.failed
  BY DEF Good, Safe
<1>1. /\ t.sco = s.sco /\ t.scoRequests = s.scoRequests /\ t.failed = s.failed /\ t.tasks = s.tasks
      /\ t.acl = s.acl /\ t.lm_ = s.lm_ /\ t.page_ = s.page_ /\ t \in Controller
  BY <1>0, SMTT(30) DEF Controller
<1>2. CASE AclOf(s, p) # {}
  <2>1. AcceptConnectionRequest(s, p, try) = t
    BY <1>2 DEF AcceptConnectionRequest
  <2> HIDE DEF t
  <2> QED
    BY <1>1, <2>1, StaysSafe
<1>3. CASE AclOf(s, p) = {}
  <2>1. AcceptConnectionRequest(s, p, try) = w
    BY <1>3 DEF AcceptConnectionRequest
  <2>2. role \in Role
    BY DEF Role
  <2> HIDE DEF t, role
  <2>3. Good(t) /\ Safe(t) /\ AclApart(t, c) /\ AclOf(t, p) = {} /\ ~AclFull(t) /\ ~t.failed
        /\ Unused(s) \in Handles
    <3>1. Safe(t)
      BY <1>1, StaysSafe
    <3>2. Good(t)
      BY <1>1, ZenonT(60) DEF Good
    <3>3. AclApart(t, c) /\ AclOf(t, p) = {} /\ ~AclFull(t)
      BY <1>1, <1>3, SMTT(30) DEF AclApart, AclOf, AclFull, Used, Named
    <3>4. Unused(s) \in Handles
      BY DEF Unused, AclFull, Used
    <3> QED
      BY <1>0, <1>1, <3>1, <3>2, <3>3, <3>4, ZenonT(60)
  <2>4. Safe(v)
    BY <2>3, AddConnectionSafe
  <2>5. v \in Controller
    <3>1. None \in Page \cup {None}
      OBVIOUS
    <3> QED
      BY <2>2, <2>3, <3>1, AddConnectionGood, ZenonT(60)
  <2>6. x \in Task /\ x.type # "SCO_CONNECTION_REQUEST" /\ y \in Task /\ y.type # "SCO_CONNECTION_REQUEST"
    <3>1. Unused(s) # None
      BY <2>3, NoneAssumption
    <3>2. x \in Task /\ y \in Task
      BY <2>3, <3>1, TaskType, ZenonT(60) DEF PacketType, EventType
    <3>3. x.type = "CONNECTION_COMPLETE" /\ y.type = "PAGE_RESPONSE"
      BY DEF Event, Packet
    <3> QED
      BY <3>2, <3>3, ZenonT(60)
  <2> HIDE DEF v, x, y
  <2>7. Safe(u) /\ u \in Controller
    BY <2>4, <2>5, <2>6, SendTwoSafe, SendSame, OneOrTwo, ZenonT(60) DEF Same
  <2> HIDE DEF u, g
  <2>8. w.sco = u.sco /\ w.scoRequests = u.scoRequests /\ w.failed = u.failed /\ w.tasks = u.tasks
    BY <2>7 DEF Controller
  <2> HIDE DEF w
  <2> QED
    BY <2>1, <2>7, <2>8, StaysSafe, SMTT(30)
<1> QED
  BY <1>2, <1>3

\* Disconnect, here and at the peer.
LEMMA DisconnectSafe ==
  ASSUME NEW s, Good(s), Safe(s)
  PROVE  /\ \A h \in Handles : s.acl[h] # None => Safe(Disconnect(s, h))
         /\ \A p \in Ctrl : Safe(IncomingDisconnectPacket(s, p))
<1>0. s \in Controller /\ ~s.failed
  BY DEF Good, Safe
<1>1. ASSUME NEW h \in Handles, s.acl[h] # None PROVE Safe(Disconnect(s, h))
  <2> DEFINE p == s.acl[h].address
             x == Packet("DISCONNECT", p, TRUE)
             y == Event("DISCONNECTION_COMPLETE", p, TRUE, h)
             u == RemoveConnection(s, h)
  <2>1. ScoOf(s, p) = {}
    BY DEF Safe, Silent, Used, ScoOf
  <2>2. Disconnect(s, h) = Send(u, <<x, y>>)
    BY <2>1, SMTT(60) DEF Disconnect
  <2>3. Safe(u) /\ u \in Controller
    BY <1>0, <1>1, RemoveConnectionSafe, RemoveConnectionGood, SMTT(60) DEF Good
  <2>4. p \in Ctrl
    BY <1>0, <1>1, AddressType
  <2> HIDE DEF p
  <2>5. x \in Task /\ y \in Task
    BY <2>4, TaskType, ZenonT(60) DEF PacketType, EventType
  <2>6. x.type = "DISCONNECT" /\ y.type = "DISCONNECTION_COMPLETE"
    BY DEF Event, Packet
  <2> HIDE DEF x, y, u
  <2> QED
    BY <2>2, <2>3, <2>5, <2>6, SendTwoSafe, ZenonT(60)
<1>2. ASSUME NEW p \in Ctrl PROVE Safe(IncomingDisconnectPacket(s, p))
  <2>1. CASE AclOf(s, p) = {}
    BY <2>1 DEF IncomingDisconnectPacket
  <2>2. CASE AclOf(s, p) # {}
    <3> DEFINE h == GetAclConnectionHandle(s, p)
               y == Event("DISCONNECTION_COMPLETE", p, TRUE, h)
               u == RemoveConnection(s, h)
    <3>1. IncomingDisconnectPacket(s, p) = Send(u, <<y>>)
      BY <2>2 DEF IncomingDisconnectPacket
    <3>2. h \in Handles /\ s.acl[h] # None
      BY <2>2, AclHandle, ZenonT(60)
    <3> HIDE DEF h
    <3>3. Safe(u) /\ u \in Controller
      BY <1>0, <3>2, RemoveConnectionSafe, RemoveConnectionGood, SMTT(30) DEF Good
    <3>4. y \in Task
      BY <3>2, TaskType, ZenonT(60) DEF EventType
    <3>5. y.type = "DISCONNECTION_COMPLETE"
      BY DEF Event
    <3> HIDE DEF y, u
    <3> QED
      BY <3>1, <3>3, <3>4, <3>5, SendOneSafe, ZenonT(60)
  <2> QED
    BY <2>1, <2>2
<1> QED
  BY <1>1, <1>2

\* The end of a page by the peer's answer: there is room for the link.
LEMMA PageAnswerSafe ==
  ASSUME NEW s, Good(s), Safe(s), NEW c \in Ctrl, AclApart(s, c), NEW p \in Ctrl, p # c,
         EnoughSlots, NEW try \in BOOLEAN
  PROVE  /\ Safe(IncomingPageRejectPacket(s, p))
         /\ ~AclFull(s) => Safe(IncomingPageResponsePacket(s, p, try))
<1>0. s \in Controller /\ ~s.failed
  BY DEF Good, Safe
<1>1. CASE ~Pages(s, p)
  BY <1>1 DEF IncomingPageRejectPacket, IncomingPageResponsePacket
<1>2. CASE Pages(s, p)
  <2>1. Safe(IncomingPageRejectPacket(s, p))
    <3> DEFINE t == [s EXCEPT !.page_ = None, !.awaiting = @ \ {p}]
    <3>1. IncomingPageRejectPacket(s, p) = t
      BY <1>2 DEF IncomingPageRejectPacket
    <3>2. t.sco = s.sco /\ t.scoRequests = s.scoRequests /\ t.failed = s.failed /\ t.tasks = s.tasks
      BY <1>0 DEF Controller
    <3> HIDE DEF t
    <3> QED
      BY <3>1, <3>2, StaysSafe
  <2>2. ASSUME ~AclFull(s) PROVE Safe(IncomingPageResponsePacket(s, p, try))
    <3> DEFINE role == IF s.page_.allow_role_switch /\ try THEN "PERIPHERAL" ELSE "CENTRAL"
               h == Unused(s)
               u == AddConnection(s, p, role)
               t == [u EXCEPT !.page_ = None, !.awaiting = @ \ {p}, !.told = @ \cup {h}]
    <3>1. IncomingPageResponsePacket(s, p, try) = t
      BY <1>2, ZenonT(60) DEF IncomingPageResponsePacket
    <3>2. AclOf(s, p) = {} /\ role \in Role
      BY <1>0, <1>2, SMTT(30) DEF Good, Agree, Pages, AclOf, Role
    <3> HIDE DEF role, h
    <3>3. Safe(u)
      BY <3>2, AddConnectionSafe
    <3>4. u \in Controller
      <4>1. None \in Page \cup {None}
        OBVIOUS
      <4> QED
        BY <1>0, <2>2, <3>2, <4>1, AddConnectionGood, ZenonT(60)
    <3> HIDE DEF u
    <3>5. t.sco = u.sco /\ t.scoRequests = u.scoRequests /\ t.failed = u.failed /\ t.tasks = u.tasks
      BY <3>4, SMTT(30) DEF Controller
    <3> HIDE DEF t
    <3> QED
      BY <3>1, <3>3, <3>5, StaysSafe, SMTT(30)
  <2> QED
    BY <2>1, <2>2, SMTT(30)
<1> QED
  BY <1>1, <1>2

\* A page, and the role switch packets.
LEMMA PageAndSwitchSafe ==
  ASSUME NEW s, Good(s), Safe(s), NEW p \in Ctrl, NEW ok \in BOOLEAN
  PROVE  /\ Safe(IncomingPagePacket(s, p, ok))
         /\ Safe(IncomingRoleSwitchRequest(s, p))
         /\ Safe(IncomingRoleSwitchResponse(s, p, ok))
<1>0. s \in Controller /\ ~s.failed
  BY DEF Good, Safe
<1>1. ASSUME NEW u \in Controller, Safe(u), NEW type \in PacketType, type # "SCO_CONNECTION_REQUEST", NEW b \in BOOLEAN
      PROVE  Safe(Send(u, <<Packet(type, p, b)>>))
  <2> DEFINE x == Packet(type, p, b)
  <2>1. x \in Task /\ x.type # "SCO_CONNECTION_REQUEST"
    BY <1>1, TaskType, SMTT(30) DEF Packet
  <2> HIDE DEF x
  <2>2. Safe(Send(u, <<x>>))
    BY <1>1, <2>1, SendOneSafe, SMTT(30)
  <2> QED
    BY <2>2, SMTT(30) DEF x
<1>2. Safe(IncomingPagePacket(s, p, ok))
  <2> DEFINE r == [bd_addr |-> p, allow_role_switch |-> ok]
             t == [s EXCEPT !.page_scan_ = r, !.requests = @ \cup {p}]
             u == Send(s, <<Packet("PAGE_REJECT", p, FALSE)>>)
  <2>1. IncomingPagePacket(s, p, ok) \in {s, t, u}
    BY DEF IncomingPagePacket
  <2>2. Safe(u)
    BY <1>0, <1>1, ZenonT(60) DEF PacketType
  <2> HIDE DEF r, u
  <2>3. t.sco = s.sco /\ t.scoRequests = s.scoRequests /\ t.failed = s.failed /\ t.tasks = s.tasks
    BY <1>0 DEF Controller
  <2> HIDE DEF t
  <2>4. Safe(t)
    BY <2>3, StaysSafe, SMTT(30)
  <2> QED
    BY <2>1, <2>2, <2>4
<1>3. Safe(IncomingRoleSwitchRequest(s, p)) /\ Safe(IncomingRoleSwitchResponse(s, p, ok))
  <2>1. CASE AclOf(s, p) = {}
    BY <2>1 DEF IncomingRoleSwitchRequest, IncomingRoleSwitchResponse
  <2>2. CASE AclOf(s, p) # {}
    <3> DEFINE h == GetAclConnectionHandle(s, p)
               t == FlipRole(s, h)
    <3>1. h \in Handles /\ s.acl[h] # None
      BY <2>2, AclHandle
    <3>2. Safe(Send(s, <<Packet("ROLE_SWITCH_RESPONSE", p, FALSE)>>))
      BY <1>0, <1>1, ZenonT(60) DEF PacketType
    <3>3. t \in Controller
      BY <3>1, FlipRoleFine DEF Fine, Good
    <3>4. t.sco = s.sco /\ t.scoRequests = s.scoRequests /\ t.failed = s.failed /\ t.tasks = s.tasks
      <4> HIDE DEF h
      <4> QED
        BY <1>0, SMTT(30) DEF FlipRole, Controller
    <3>5. IncomingRoleSwitchRequest(s, p) \in {Send(s, <<Packet("ROLE_SWITCH_RESPONSE", p, FALSE)>>),
                                               Send(t, <<Packet("ROLE_SWITCH_RESPONSE", p, TRUE)>>)}
      BY <2>2 DEF IncomingRoleSwitchRequest
    <3>6. IncomingRoleSwitchResponse(s, p, ok) \in {s, t}
      BY <2>2 DEF IncomingRoleSwitchResponse
    <3> HIDE DEF t
    <3>7. Safe(t)
      BY <3>4, StaysSafe
    <3>8. Safe(Send(t, <<Packet("ROLE_SWITCH_RESPONSE", p, TRUE)>>))
      BY <1>1, <3>3, <3>7, ZenonT(60) DEF PacketType
    <3> QED
      BY <3>2, <3>5, <3>6, <3>7, <3>8, ZenonT(60)
  <2> QED
    BY <2>1, <2>2, SMTT(30)
<1> QED
  BY <1>2, <1>3

\* Every packet, where no SCO connection is asked for.
LEMMA IncomingPacketSafe ==
  ASSUME NEW s, Good(s), Safe(s), NEW c \in Ctrl, AclApart(s, c), NEW p \in Ctrl, p # c, EnoughSlots,
         NEW task \in Task, task.type \in PacketType, task.type # "SCO_CONNECTION_REQUEST",
         task.type = "PAGE_RESPONSE" => ~AclFull(s)
  PROVE  Safe(IncomingPacket(s, p, task))
<1>1. task.ok \in BOOLEAN
  BY DEF Task
<1>2. ScoOf(s, p) = {}
  BY DEF Safe, Silent, Used, ScoOf
<1>3. CASE task.type = "PAGE"
  BY <1>1, <1>3, PageAndSwitchSafe DEF IncomingPacket
<1>4. CASE task.type = "PAGE_REJECT"
  BY <1>1, <1>4, PageAnswerSafe DEF IncomingPacket
<1>5. CASE task.type = "PAGE_RESPONSE"
  BY <1>1, <1>5, PageAnswerSafe DEF IncomingPacket
<1>6. CASE task.type = "DISCONNECT"
  BY <1>1, <1>6, DisconnectSafe DEF IncomingPacket
<1>7. CASE task.type = "ROLE_SWITCH_REQUEST"
  BY <1>1, <1>7, PageAndSwitchSafe DEF IncomingPacket
<1>8. CASE task.type = "ROLE_SWITCH_RESPONSE"
  BY <1>1, <1>8, PageAndSwitchSafe, SMTT(30) DEF IncomingPacket
<1>9. CASE task.type = "SCO_CONNECTION_RESPONSE"
  BY <1>2, <1>9 DEF IncomingPacket, IncomingScoConnectionResponse
<1>10. CASE task.type = "SCO_DISCONNECT"
  BY <1>2, <1>10 DEF IncomingPacket, IncomingScoDisconnect, RemoveSco
<1> QED
  BY <1>3, <1>4, <1>5, <1>6, <1>7, <1>8, <1>9, <1>10, ZenonT(60) DEF PacketType

\* HCI Reset, and the tasks of a queue that loses its first one.
LEMMA ResetSafe ==
  ASSUME NEW s \in Controller, Safe(s)
  PROVE  Safe(Reset(s))
<1> DEFINE as == [i \in DOMAIN IterationOrder(Used(s.acl)) |->
                    Packet("DISCONNECT", s.acl[IterationOrder(Used(s.acl))[i]].address, TRUE)]
           ss == [i \in DOMAIN IterationOrder(Used(s.sco)) |->
                    Packet("SCO_DISCONNECT", s.sco[IterationOrder(Used(s.sco))[i]].address, TRUE)]
           u == DisconnectAll(s)
           t == Reset(s)
<1>1. ss \in Seq(Task) /\ as \in Seq(Task)
  <2>1. /\ Used(s.sco) \subseteq Handles /\ \A h \in Used(s.sco) : s.sco[h].address \in Ctrl
        /\ Used(s.acl) \subseteq Handles /\ \A h \in Used(s.acl) : s.acl[h].address \in Ctrl
    BY DEF Used, Controller, Sco, Acl
  <2>2. "SCO_DISCONNECT" \in PacketType /\ "DISCONNECT" \in PacketType
    BY DEF PacketType
  <2> QED
    BY <2>1, <2>2, PacketsOfTable, ZenonT(60)
<1>2. /\ \A i \in DOMAIN ss : ss[i].type = "SCO_DISCONNECT"
      /\ \A i \in DOMAIN as : as[i].type = "DISCONNECT"
  BY ZenonT(60) DEF Packet
<1>3. u = Send(s, ss \o as)
  BY DEF DisconnectAll
<1> HIDE DEF ss, as
<1> DEFINE r == ss \o as
<1>4. r \in Seq(Task) /\ \A i \in DOMAIN r : r[i].type # "SCO_CONNECTION_REQUEST"
  <2>1. /\ \A j \in DOMAIN r : j \in DOMAIN ss \/ \E k \in DOMAIN as : j = Len(ss) + k
        /\ \A i \in DOMAIN ss : r[i] = ss[i]
        /\ \A k \in DOMAIN as : r[Len(ss) + k] = as[k]
    BY <1>1, AppendIndices, ZenonT(60)
  <2>2. r \in Seq(Task)
    BY <1>1, ConcatTasks, ZenonT(60)
  <2> HIDE DEF r
  <2> QED
    BY <1>2, <2>1, <2>2, ZenonT(60)
<1> HIDE DEF r
<1>5. Safe(u) /\ u \in Controller
  <2>1. u = Send(s, r)
    BY <1>3 DEF r
  <2> HIDE DEF u
  <2> QED
    BY <1>4, <2>1, SendSafe, SendSame, ZenonT(60) DEF Same
<1>6. t = [u EXCEPT
            !.acl = EmptyTable, !.sco = EmptyTable, !.lm_ = NoLinks, !.page_ = None, !.page_scan_ = None,
            !.page_scan_enable_ = FALSE, !.masked = FALSE, !.policy = FALSE,
            !.awaiting = {}, !.told = {}, !.requests = {}, !.scoRequests = {}]
  BY DEF Reset
<1> HIDE DEF t, u
<1>7. t.sco = EmptyTable /\ t.scoRequests = {} /\ t.failed = u.failed /\ t.tasks = u.tasks
  BY <1>5, <1>6 DEF Controller
<1>8. Used(EmptyTable) = {}
  BY DEF Used, EmptyTable
<1>9. Safe(t)
  BY <1>5, <1>7, <1>8, ZenonT(60) DEF Safe, Silent
<1> QED
  BY <1>9 DEF t

\* The task that a Tick runs is no SCO request, and without it the controller is
\* safe as it was.
LEMMA PoppedSafe ==
  ASSUME NEW s \in Controller, Safe(s), s.tasks # <<>>
  PROVE  /\ Safe(Popped(s)) /\ Popped(s) \in Controller
         /\ Head(s.tasks).type # "SCO_CONNECTION_REQUEST"
<1> DEFINE q == Tail(s.tasks)
           t == [s EXCEPT !.tasks = q]
<1>1. q \in Seq(Task) /\ s.tasks \in Seq(Task) /\ Popped(s) = t
  BY DEF Controller, Popped
<1>2. /\ \A i \in DOMAIN q : i + 1 \in DOMAIN s.tasks /\ q[i] = s.tasks[i + 1]
      /\ 1 \in DOMAIN s.tasks /\ s.tasks[1] = Head(s.tasks)
  BY <1>1, TailIndices
<1> HIDE DEF q
<1>3. /\ t.tasks = q /\ t.sco = s.sco /\ t.scoRequests = s.scoRequests /\ t.failed = s.failed
      /\ t \in Controller
  BY <1>1, ZenonT(60) DEF Controller
<1> HIDE DEF t
<1> QED
  BY <1>1, <1>2, <1>3, SMTT(30) DEF Safe, Silent

\* An event for the host.
LEMMA DeferredEventSafe ==
  ASSUME NEW s \in Controller, Safe(s), NEW task \in Task, task.type \in EventType
  PROVE  Safe(DeferredEvent(s, task))
<1> DEFINE p == task.peer
<1>1. p \in Ctrl
  BY DEF Task
<1>2. CASE task.type = "CONNECTION_COMPLETE"
  <2> DEFINE T == IF task.ok THEN s.told \cup {task.handle} ELSE s.told
             t == [s EXCEPT !.awaiting = s.awaiting \ {p}, !.told = T]
  <2>1. DeferredEvent(s, task) = t
    BY <1>2 DEF DeferredEvent, Controller
  <2> HIDE DEF T, p
  <2>2. t.sco = s.sco /\ t.scoRequests = s.scoRequests /\ t.failed = s.failed /\ t.tasks = s.tasks
    BY DEF Controller
  <2> HIDE DEF t
  <2> QED
    BY <2>1, <2>2, StaysSafe
<1>3. CASE task.type = "DISCONNECTION_COMPLETE"
  <2> DEFINE t == [s EXCEPT !.told = @ \ {task.handle}]
  <2>1. DeferredEvent(s, task) = t
    BY <1>3 DEF DeferredEvent
  <2>2. t.sco = s.sco /\ t.scoRequests = s.scoRequests /\ t.failed = s.failed /\ t.tasks = s.tasks
    BY DEF Controller
  <2> HIDE DEF t
  <2> QED
    BY <2>1, <2>2, StaysSafe
<1>4. CASE task.type = "REJECT_PERIPHERAL"
  <2> DEFINE x == Packet("PAGE_REJECT", p, FALSE)
             u == Send(s, <<x>>)
             t == [u EXCEPT !.awaiting = @ \ {p}]
  <2>1. DeferredEvent(s, task) = t
    BY <1>4 DEF DeferredEvent
  <2> HIDE DEF p
  <2>2. x \in Task
    BY <1>1, TaskType, ZenonT(60) DEF PacketType
  <2>3. x.type = "PAGE_REJECT"
    BY DEF Packet
  <2> HIDE DEF x
  <2>4. Safe(u) /\ u \in Controller
    BY <2>2, <2>3, SendOneSafe, SendSame, OneOrTwo, ZenonT(60) DEF Same
  <2> HIDE DEF u
  <2>5. t.sco = u.sco /\ t.scoRequests = u.scoRequests /\ t.failed = u.failed /\ t.tasks = u.tasks
    BY <2>4, SMTT(30) DEF Controller
  <2> HIDE DEF t
  <2> QED
    BY <2>1, <2>4, <2>5, StaysSafe, SMTT(30)
<1> QED
  BY <1>2, <1>3, <1>4, SMTT(30) DEF EventType

-----------------------------------------------------------------------------
(* The system.                                                             *)

\* The inductive invariant, beside IInv and KInv.
AInv == EnoughSlots /\ usage.speakers = {} => \A c \in Ctrl : Safe(ctl[c])

\* One controller changes.
LEMMA BecomesAInv ==
  ASSUME AInv, IInv, usage' = usage, NEW c \in Ctrl, NEW t, ctl' = [ctl EXCEPT ![c] = t],
         EnoughSlots /\ usage.speakers = {} => Safe(t)
  PROVE  AInv'
<1>1. \A e \in Ctrl : ctl'[e] = IF e = c THEN t ELSE ctl[e]
  BY DEF IInv
<1> QED
  BY <1>1, SMTT(30) DEF AInv, EnoughSlots

\* Commands of the host: those about SCO connections are never enabled.
LEMMA HostCommandAInv ==
  ASSUME AInv, KInv, IInv, usage' = usage, NEW c \in Ctrl, HostCommand(c)
  PROVE  AInv'
<1> SUFFICES ASSUME EnoughSlots, usage.speakers = {} PROVE AInv'
  BY DEF AInv, EnoughSlots
<1> DEFINE s == ctl[c]
<1>1. Good(s) /\ s \in Controller /\ AclApart(s, c) /\ Safe(s)
  BY ZenonT(60) DEF IInv, KInv, Known, Apart, AInv
<1>2. PICK p \in Ctrl \ {c} :
        \/ \E allow \in BOOLEAN : Becomes(c, CreateConnection(s, p, allow))
        \/ Becomes(c, CreateConnectionCancel(s, p))
        \/ ~AclFull(s) /\ \E try \in BOOLEAN : Becomes(c, AcceptConnectionRequest(s, p, try))
        \/ Becomes(c, RejectConnectionRequest(s, p))
        \/ \E h \in AclOf(s, p) : Becomes(c, Disconnect(s, h))
        \/ Becomes(c, SwitchRole(s, p))
        \/ \E h \in AclOf(s, p), switch \in BOOLEAN : Becomes(c, WriteLinkPolicySettings(s, h, switch))
        \/ c \in usage.speakers
        \/ p \in s.scoRequests
        \/ \E h \in ScoOf(s, p) : TRUE
  BY ZenonT(60) DEF HostCommand
<1> HIDE DEF s
<1>3. \A h \in AclOf(s, p) : h \in Handles /\ s.acl[h] # None
  BY DEF AclOf
<1>4. p \in Ctrl /\ p # c
  BY ZenonT(60)
<1>5. c \notin usage.speakers /\ p \notin s.scoRequests /\ ScoOf(s, p) = {}
  BY <1>1 DEF Safe, Silent, Used, ScoOf
<1>6. PICK t : Becomes(c, t) /\ Safe(t)
  <2>1. CASE \E allow \in BOOLEAN : Becomes(c, CreateConnection(s, p, allow))
    BY <1>1, <1>4, <2>1, CreateSafe, ZenonT(60)
  <2>2. CASE Becomes(c, CreateConnectionCancel(s, p)) \/ Becomes(c, RejectConnectionRequest(s, p))
    BY <1>1, <1>4, <2>2, CreateSafe, ZenonT(60)
  <2>3. CASE ~AclFull(s) /\ \E try \in BOOLEAN : Becomes(c, AcceptConnectionRequest(s, p, try))
    BY <1>1, <1>4, <2>3, AcceptSafe, ZenonT(60)
  <2>4. CASE \E h \in AclOf(s, p) : Becomes(c, Disconnect(s, h))
    BY <1>1, <1>3, <2>4, DisconnectSafe, ZenonT(60)
  <2>5. CASE Becomes(c, SwitchRole(s, p))
    <3> DEFINE x == Packet("ROLE_SWITCH_REQUEST", p, TRUE)
    <3>1. x \in Task
      BY <1>4, TaskType, ZenonT(60) DEF PacketType
    <3>2. x.type = "ROLE_SWITCH_REQUEST" /\ SwitchRole(s, p) = Send(s, <<x>>)
      BY ZenonT(60) DEF Packet, SwitchRole
    <3> HIDE DEF x
    <3> QED
      BY <1>1, <2>5, <3>1, <3>2, SendOneSafe, SMTT(60)
  <2>6. CASE \E h \in AclOf(s, p), switch \in BOOLEAN : Becomes(c, WriteLinkPolicySettings(s, h, switch))
    <3>1. PICK h \in AclOf(s, p), switch \in BOOLEAN : Becomes(c, WriteLinkPolicySettings(s, h, switch))
      BY <2>6
    <3> DEFINE t == WriteLinkPolicySettings(s, h, switch)
    <3>2. t.sco = s.sco /\ t.scoRequests = s.scoRequests /\ t.failed = s.failed /\ t.tasks = s.tasks
      BY <1>1 DEF WriteLinkPolicySettings, Controller
    <3> HIDE DEF t
    <3> QED
      BY <1>1, <3>1, <3>2, StaysSafe, ZenonT(60) DEF t
  <2> QED
    BY <1>2, <1>5, <2>1, <2>2, <2>3, <2>4, <2>5, <2>6, ZenonT(60)
<1> QED
  BY <1>6, BecomesAInv, ZenonT(60) DEF Becomes

\* HCI Reset, Write Scan Enable, and the end of a connection that expired.
LEMMA OtherCommandsAInv ==
  ASSUME AInv, IInv, usage' = usage, NEW c \in Ctrl,
         ResetCommand(c) \/ WriteScanEnable(c) \/ CheckExpiringConnection(c)
  PROVE  AInv'
<1> SUFFICES ASSUME EnoughSlots, usage.speakers = {} PROVE AInv'
  BY SMTT(60) DEF AInv, EnoughSlots
<1> DEFINE s == ctl[c]
<1>1. Good(s) /\ s \in Controller /\ Safe(s)
  BY DEF IInv, AInv
<1>2. CASE ResetCommand(c)
  <2>1. ctl' = [ctl EXCEPT ![c] = Reset(s)]
    BY <1>2, ZenonT(60) DEF ResetCommand, Becomes
  <2>2. Safe(Reset(s))
    BY <1>1, ResetSafe
  <2> QED
    BY <2>1, <2>2, BecomesAInv, ZenonT(60)
<1>3. CASE WriteScanEnable(c)
  <2> DEFINE t == [s EXCEPT !.page_scan_enable_ = TRUE]
  <2>1. ctl' = [ctl EXCEPT ![c] = t]
    BY <1>3, ZenonT(60) DEF WriteScanEnable, Becomes
  <2>2. Safe(t)
    <3> HIDE DEF s
    <3>1. t.sco = s.sco /\ t.scoRequests = s.scoRequests /\ t.failed = s.failed /\ t.tasks = s.tasks
      BY <1>1 DEF Controller
    <3> HIDE DEF t
    <3> QED
      BY <1>1, <3>1, StaysSafe, SMTT(30)
  <2> HIDE DEF t
  <2> QED
    BY <2>1, <2>2, BecomesAInv, ZenonT(60)
<1>4. CASE CheckExpiringConnection(c)
  <2>1. PICK h \in Handles : s.acl[h] # None /\ ctl' = [ctl EXCEPT ![c] = Disconnect(s, h)]
    BY <1>4, ZenonT(60) DEF CheckExpiringConnection, Used, Becomes
  <2>2. Safe(Disconnect(s, h))
    BY <1>1, <2>1, DisconnectSafe
  <2> QED
    BY <2>1, <2>2, BecomesAInv, ZenonT(60)
<1> QED
  BY <1>2, <1>3, <1>4, ZenonT(60)

\* One task of a Tick.
LEMMA RunTaskAInv ==
  ASSUME AInv, KInv, IInv, usage' = usage, NEW c \in Ctrl, RunTask(c)
  PROVE  AInv'
<1> SUFFICES ASSUME EnoughSlots, usage.speakers = {} PROVE \A e \in Ctrl : Safe(ctl'[e])
  BY ZenonT(60) DEF AInv, EnoughSlots
<1> DEFINE s == ctl[c]
           task == Head(s.tasks)
           d == task.peer
<1>1. due \in Nat /\ due > 0 /\ due <= Len(s.tasks)
  BY NoneAssumption DEF IInv, RunTask
<1>2. s \in Controller /\ s.tasks \in Seq(Task) /\ Apart(s, c)
  BY ZenonT(60) DEF IInv, Controller, KInv, Known
<1>3. s.tasks # <<>> /\ task \in Task /\ 1 \in DOMAIN s.tasks /\ s.tasks[1] = task
  <2> DEFINE q == s.tasks
  <2>1. q \in Seq(Task) /\ due <= Len(q)
    BY <1>1, <1>2
  <2> HIDE DEF q
  <2>2. q # <<>> /\ Head(q) \in Task /\ 1 \in DOMAIN q /\ q[1] = Head(q)
    BY <1>1, <2>1, SMTT(60)
  <2> QED
    BY <2>2 DEF q
<1>4. d \in Ctrl /\ d # c
  BY <1>2, <1>3 DEF Task, Apart
<1>5. \A e \in Ctrl : Good(ctl[e]) /\ AclApart(ctl[e], e) /\ Safe(ctl[e])
  BY ZenonT(60) DEF IInv, KInv, Known, Apart, AInv
<1>6. Safe(Popped(s)) /\ Popped(s) \in Controller /\ task.type # "SCO_CONNECTION_REQUEST"
  BY <1>2, <1>3, <1>5, PoppedSafe, ZenonT(60)
<1>7. CASE task.type \in EventType /\ ctl' = [ctl EXCEPT ![c] = DeferredEvent(Popped(s), task)]
  <2> DEFINE t == DeferredEvent(Popped(s), task)
  <2>1. Safe(t)
    BY <1>3, <1>6, <1>7, DeferredEventSafe, ZenonT(60)
  <2>2. ctl' = [ctl EXCEPT ![c] = t]
    BY <1>7
  <2> HIDE DEF t, task, s
  <2>3. \A e \in Ctrl : ctl'[e] = IF e = c THEN t ELSE ctl[e]
    BY <2>2, ZenonT(60) DEF IInv
  <2> QED
    BY <1>5, <2>1, <2>3, ZenonT(60)
<1>8. CASE /\ task.type \in PacketType
           /\ task.type = "PAGE_RESPONSE" => ~AclFull(ctl[d])
           /\ task.type = "SCO_CONNECTION_REQUEST" => ~ScoFull(ctl[d])
           /\ ctl' = [ctl EXCEPT ![c] = Popped(s), ![d] = IncomingPacket(ctl[d], c, task)]
  <2> DEFINE t == IncomingPacket(ctl[d], c, task)
             u == Popped(s)
  <2>1. Safe(t)
    BY <1>3, <1>4, <1>5, <1>6, <1>8, IncomingPacketSafe, ZenonT(60)
  <2>2. ctl' = [ctl EXCEPT ![c] = u, ![d] = t]
    BY <1>8, ZenonT(60)
  <2> HIDE DEF t, d, task, u, s
  <2>3. \A e \in Ctrl : ctl'[e] = IF e = d THEN t ELSE IF e = c THEN u ELSE ctl[e]
    BY <1>4, <2>2 DEF IInv
  <2> QED
    BY <1>5, <1>6, <2>1, <2>3, SMTT(30) DEF u
<1> QED
  BY <1>7, <1>8, ZenonT(60) DEF RunTask

\* The end of a Tick.
LEMMA PagingAInv ==
  ASSUME AInv, IInv, usage' = usage, NEW c \in Ctrl, Paging(c)
  PROVE  AInv'
<1> SUFFICES ASSUME EnoughSlots, usage.speakers = {} PROVE AInv'
  BY ZenonT(60) DEF AInv, EnoughSlots
<1> DEFINE s == ctl[c]
<1>1. s \in Controller /\ Safe(s)
  BY DEF IInv, AInv
<1>2. CASE ctl' = ctl
  BY <1>2, ZenonT(60) DEF AInv, EnoughSlots
<1>3. CASE ctl' # ctl
  <2>1. s.page_ # None
    BY <1>3, ZenonT(60) DEF Paging
  <2> DEFINE p == s.page_.bd_addr
             allow == s.page_.allow_role_switch
  <2>2. p \in Ctrl /\ allow \in BOOLEAN
    BY <1>1, <2>1 DEF Controller, Page
  <2>3. CASE ctl' = [ctl EXCEPT ![c].page_ = None, ![c].awaiting = @ \ {s.page_.bd_addr}]
    <3> DEFINE t == [s EXCEPT !.page_ = None, !.awaiting = @ \ {p}]
    <3>1. ctl' = [ctl EXCEPT ![c] = t]
      BY <2>3, ZenonT(60) DEF IInv
    <3>2. Safe(t)
      <4> HIDE DEF s, p
      <4>1. t.sco = s.sco /\ t.scoRequests = s.scoRequests /\ t.failed = s.failed /\ t.tasks = s.tasks
        BY <1>1, ZenonT(60) DEF Controller
      <4> HIDE DEF t
      <4> QED
        BY <1>1, <4>1, StaysSafe, SMTT(30)
    <3> HIDE DEF t
    <3> QED
      BY <3>1, <3>2, BecomesAInv, ZenonT(60)
  <2>4. CASE ctl' = [ctl EXCEPT ![c] = Send(s, <<Packet("PAGE", s.page_.bd_addr, s.page_.allow_role_switch)>>)]
    <3> DEFINE x == Packet("PAGE", p, allow)
               t == Send(s, <<x>>)
    <3>1. ctl' = [ctl EXCEPT ![c] = t]
      BY <2>4, ZenonT(60)
    <3> HIDE DEF s, p, allow
    <3>2. x \in Task
      BY <2>2, TaskType, ZenonT(60) DEF PacketType
    <3>3. x.type = "PAGE"
      BY DEF Packet
    <3> HIDE DEF x
    <3>4. Safe(t)
      BY <1>1, <3>2, <3>3, SendOneSafe, SMTT(30)
    <3> HIDE DEF t
    <3> QED
      BY <3>1, <3>4, BecomesAInv, ZenonT(60)
  <2> QED
    BY <1>3, <2>3, <2>4, ZenonT(60) DEF Paging
<1> QED
  BY <1>2, <1>3

\* Every step keeps the invariant.
LEMMA NextAInv == IInv /\ KInv /\ AInv /\ [Next]_vars => AInv'
<1> SUFFICES ASSUME IInv, KInv, AInv, [Next]_vars PROVE AInv'
  OBVIOUS
<1>1. CASE UNCHANGED vars
  BY <1>1 DEF AInv, vars, EnoughSlots
<1>2. CASE Next
  <2>1. PICK c \in Ctrl :
             \/ HostCommand(c) \/ ResetCommand(c) \/ WriteScanEnable(c)
             \/ StartTick(c) \/ RunTask(c) \/ CheckExpiringConnection(c) \/ Paging(c)
    BY <1>2 DEF Next
  <2>2. usage' = usage
    BY <1>2, SMTT(30) DEF Next
  <2>3. CASE StartTick(c)
    BY <2>2, <2>3, SMTT(60) DEF AInv, StartTick, EnoughSlots
  <2> QED
    BY <2>1, <2>2, <2>3, HostCommandAInv, OtherCommandsAInv, RunTaskAInv, PagingAInv, ZenonT(60)
<1> QED
  BY <1>1, <1>2

\* A new controller has no SCO connection.
LEMMA InitAInv == Init => AInv
<1> SUFFICES ASSUME Init, NEW c \in Ctrl PROVE Safe(ctl[c])
  BY DEF AInv
<1>1. ctl[c].sco = EmptyTable /\ ctl[c].scoRequests = {} /\ ctl[c].tasks = <<>> /\ ctl[c].failed = FALSE
  BY ZenonT(60) DEF Init
<1>2. Used(EmptyTable) = {}
  BY DEF Used, EmptyTable
<1> QED
  BY <1>1, <1>2 DEF Safe, Silent

\* No ASSERT of the link layer controller fails, whatever the hosts do, when the
\* link manager has a place for every peer and the hosts open no SCO connection: a
\* link is added where there is room and removed once.  With SCO connections that
\* cross, the run bredr_sco shows one that fails.
THEOREM AssertsAlwaysHold == Spec => [](EnoughSlots /\ usage.speakers = {} => AssertsHold)
<1>1. AInv => (EnoughSlots /\ usage.speakers = {} => AssertsHold)
  BY DEF AInv, AssertsHold, Alive, Safe
<1> QED
  BY <1>1, InitInv, NextInv, InitKInv, NextKInv, InitAInv, NextAInv, PTL DEF Spec
=============================================================================
