------------------------ MODULE LeLinkMatch_proofs ------------------------
(* Machine-checked proof that a central's connection has its peripheral    *)
(* counterpart.  The invariant speaks of the order of the queued packets:  *)
(* which of them may not follow which, and which is followed by the        *)
(* DISCONNECT that answers it.                                             *)
EXTENDS LeLink_proofs

-----------------------------------------------------------------------------
(* The order of the packets in a queue.                                    *)

\* No r stands behind a p in the queue; behind each p stands an r.
NoneAfter(q, p, r) ==
  \A i \in DOMAIN q : q[i] = p => \A j \in DOMAIN q : j > i => q[j] # r
Followed(q, p, r) ==
  \A i \in DOMAIN q : q[i] = p => \E j \in DOMAIN q : j > i /\ q[j] = r

\* Where the elements of a concatenation are.
LEMMA AppendIndices ==
  ASSUME NEW q \in Seq(Task), NEW ts \in Seq(Task)
  PROVE  /\ \A i \in DOMAIN q : i \in DOMAIN (q \o ts) /\ (q \o ts)[i] = q[i]
         /\ \A k \in DOMAIN ts : /\ Len(q) + k \in DOMAIN (q \o ts)
                                 /\ (q \o ts)[Len(q) + k] = ts[k]
                                 /\ \A i \in DOMAIN q : Len(q) + k > i
         /\ \A j \in DOMAIN (q \o ts) : j \in DOMAIN q \/ \E k \in DOMAIN ts : j = Len(q) + k
         /\ \A k, l \in DOMAIN ts : Len(q) + k > Len(q) + l => k > l
<1>1. ASSUME NEW j \in DOMAIN (q \o ts), j \notin DOMAIN q
      PROVE  j - Len(q) \in DOMAIN ts /\ j = Len(q) + (j - Len(q))
  BY <1>1
<1> QED
  BY <1>1

\* Where the elements of a tail are.
LEMMA TailIndices ==
  ASSUME NEW q \in Seq(Task), q # <<>>
  PROVE  /\ \A i \in DOMAIN Tail(q) : i \in Nat /\ i + 1 \in DOMAIN q /\ Tail(q)[i] = q[i + 1]
         /\ \A i \in DOMAIN q : i = 1 \/ (i - 1 \in DOMAIN Tail(q) /\ Tail(q)[i - 1] = q[i])
         /\ 1 \in DOMAIN q /\ q[1] = Head(q)
  OBVIOUS

\* No p is followed by a q in a concatenation when none is in either part
\* and no p of the first part meets a q of the second.
LEMMA NoneAfterAppend ==
  ASSUME NEW q \in Seq(Task), NEW ts \in Seq(Task), NEW p, NEW r,
         NoneAfter(q, p, r), NoneAfter(ts, p, r), Holds(q, p) => ~Holds(ts, r)
  PROVE  NoneAfter(q \o ts, p, r)
<1> SUFFICES ASSUME NEW i \in DOMAIN (q \o ts), (q \o ts)[i] = p,
                    NEW j \in DOMAIN (q \o ts), j > i, (q \o ts)[j] = r
             PROVE  FALSE
  BY DEF NoneAfter
<1>1. CASE i \in DOMAIN q /\ j \in DOMAIN q
  BY <1>1, AppendIndices DEF NoneAfter
<1>2. CASE i \in DOMAIN q /\ j \notin DOMAIN q
  <2>1. PICK k \in DOMAIN ts : j = Len(q) + k
    BY <1>2, AppendIndices
  <2>2. ts[k] = r /\ q[i] = p
    BY <1>2, <2>1, AppendIndices
  <2> QED
    BY <1>2, <2>2 DEF Holds
<1>3. CASE i \notin DOMAIN q
  <2>1. PICK k \in DOMAIN ts : i = Len(q) + k
    BY <1>3, AppendIndices
  <2>2. j \notin DOMAIN q
    BY <2>1, AppendIndices
  <2>3. PICK l \in DOMAIN ts : j = Len(q) + l
    BY <2>2, AppendIndices
  <2>4. ts[k] = p /\ ts[l] = r /\ l > k
    BY <2>1, <2>3, AppendIndices
  <2> QED
    BY <2>4 DEF NoneAfter
<1> QED
  BY <1>1, <1>2, <1>3

\* Sending the head of a queue puts nothing after anything.
LEMMA NoneAfterTail ==
  ASSUME NEW q \in Seq(Task), q # <<>>, NEW p, NEW r, NoneAfter(q, p, r)
  PROVE  /\ NoneAfter(Tail(q), p, r)
         /\ Head(q) = p => ~Holds(Tail(q), r)
<1>1. NoneAfter(Tail(q), p, r)
  <2> SUFFICES ASSUME NEW i \in DOMAIN Tail(q), Tail(q)[i] = p,
                      NEW j \in DOMAIN Tail(q), j > i, Tail(q)[j] = r
               PROVE  FALSE
    BY DEF NoneAfter
  <2>1. i + 1 \in DOMAIN q /\ q[i + 1] = p /\ j + 1 \in DOMAIN q /\ q[j + 1] = r /\ j + 1 > i + 1
    BY TailIndices
  <2> QED
    BY <2>1 DEF NoneAfter
<1>2. ASSUME Head(q) = p, NEW j \in DOMAIN Tail(q), Tail(q)[j] = r PROVE FALSE
  <2>1. 1 \in DOMAIN q /\ q[1] = p /\ j + 1 \in DOMAIN q /\ q[j + 1] = r /\ j + 1 > 1
    BY <1>2, TailIndices
  <2> QED
    BY <2>1 DEF NoneAfter
<1> QED
  BY <1>1, <1>2 DEF Holds

\* What is followed in a queue stays followed when more is deferred, if the
\* new tasks hold no p, or the q comes with them.
LEMMA FollowedAppend ==
  ASSUME NEW q \in Seq(Task), NEW ts \in Seq(Task), NEW p, NEW r,
         ~Holds(ts, p), Followed(q, p, r) \/ Holds(ts, r)
  PROVE  Followed(q \o ts, p, r)
<1> SUFFICES ASSUME NEW i \in DOMAIN (q \o ts), (q \o ts)[i] = p
             PROVE  \E j \in DOMAIN (q \o ts) : j > i /\ (q \o ts)[j] = r
  BY DEF Followed
<1>1. i \in DOMAIN q /\ q[i] = p
  BY AppendIndices DEF Holds
<1>2. CASE Followed(q, p, r)
  BY <1>1, <1>2, AppendIndices DEF Followed
<1>3. CASE Holds(ts, r)
  <2>1. PICK k \in DOMAIN ts : ts[k] = r
    BY <1>3 DEF Holds
  <2>2. Len(q) + k \in DOMAIN (q \o ts) /\ (q \o ts)[Len(q) + k] = r /\ Len(q) + k > i
    BY <1>1, <2>1, AppendIndices
  <2> QED
    BY <2>2
<1> QED
  BY <1>2, <1>3

\* ... and when the head is sent.
LEMMA FollowedTail ==
  ASSUME NEW q \in Seq(Task), q # <<>>, NEW p, NEW r, Followed(q, p, r)
  PROVE  /\ Followed(Tail(q), p, r)
         /\ Head(q) = p => Holds(Tail(q), r)
<1>1. ASSUME NEW i \in DOMAIN Tail(q), Tail(q)[i] = p
      PROVE  \E j \in DOMAIN Tail(q) : j > i /\ Tail(q)[j] = r
  <2>1. i \in Nat /\ i + 1 \in DOMAIN q /\ q[i + 1] = p
    BY <1>1, TailIndices
  <2>2. PICK j \in DOMAIN q : j > i + 1 /\ q[j] = r
    BY <2>1 DEF Followed
  <2>3. j # 1 /\ j - 1 > i /\ j \in Nat
    BY <2>1, <2>2
  <2>4. j - 1 \in DOMAIN Tail(q) /\ Tail(q)[j - 1] = r
    BY <2>2, <2>3, TailIndices
  <2> QED
    BY <2>3, <2>4
<1>2. ASSUME Head(q) = p PROVE Holds(Tail(q), r)
  <2>1. PICK j \in DOMAIN q : j > 1 /\ q[j] = r
    BY <1>2, TailIndices DEF Followed
  <2>2. j - 1 \in DOMAIN Tail(q) /\ Tail(q)[j - 1] = r
    BY <2>1, TailIndices
  <2> QED
    BY <2>2 DEF Holds
<1> QED
  BY <1>1, <1>2 DEF Followed

\* A tail holds nothing new.
LEMMA HoldsOfTail ==
  ASSUME NEW q \in Seq(Task), q # <<>>, NEW p, Holds(Tail(q), p)
  PROVE  Holds(q, p)
  BY TailIndices DEF Holds

-----------------------------------------------------------------------------
(* The two ends of a connection, seen from the queues.                     *)

Linked(s, p) == {h \in Connected(s) : s.connections[h].address = p}

\* c initiates, in state a; d advertises, in state b.  c has at most one
\* connection to d, and while it has one d has its end of it or has sent the
\* DISCONNECT for it.  LE_CONNECT and LE_CONNECT_COMPLETE are each under way
\* at most once, never both, only while c waits for d and has no connection
\* to it, and no DISCONNECT of c is behind or beside them.
Match(a, b, c, d) ==
  LET connect == Pdu("LE_CONNECT", c, d)
      complete == Pdu("LE_CONNECT_COMPLETE", d, c)
      ended == Pdu("DISCONNECT", c, d)
      lost == Pdu("DISCONNECT", d, c)
      waiting == a.initiator.pending_connect_request = d /\ Linked(a, d) = {}
  IN  /\ \A g, h \in Linked(a, d) : g = h
      /\ Linked(a, d) # {} => /\ Linked(b, c) # {} \/ Holds(b.tasks, lost)
                              /\ ~Holds(a.tasks, ended)
      /\ Holds(a.tasks, connect) => waiting
      /\ NoneAfter(a.tasks, connect, connect) /\ NoneAfter(a.tasks, connect, ended)
      /\ Holds(b.tasks, complete) => /\ waiting
                                     /\ ~Holds(a.tasks, connect) /\ ~Holds(a.tasks, ended)
      /\ NoneAfter(b.tasks, complete, complete)
      /\ Linked(b, c) # {} \/ Followed(b.tasks, complete, lost)

\* The advertiser's end changes: it keeps a connection to c or says that it is
\* gone, or c has none and no LE_CONNECT_COMPLETE is under way.
LEMMA MatchPeripheralQuiet ==
  ASSUME NEW a, NEW b, NEW c, NEW d, Match(a, b, c, d), NEW t, NEW ts, Sound(b),
         ts \in Seq(Task), t.tasks = b.tasks \o ts,
         ~Holds(ts, Pdu("LE_CONNECT_COMPLETE", d, c)),
         \/ Linked(t, c) # {} \/ Linked(b, c) = {} \/ Holds(ts, Pdu("DISCONNECT", d, c))
         \/ Linked(a, d) = {} /\ ~Holds(b.tasks, Pdu("LE_CONNECT_COMPLETE", d, c))
  PROVE  Match(a, t, c, d)
<1> DEFINE connect == Pdu("LE_CONNECT", c, d)
           complete == Pdu("LE_CONNECT_COMPLETE", d, c)
           ended == Pdu("DISCONNECT", c, d)
           lost == Pdu("DISCONNECT", d, c)
<1>0. b.tasks \in Seq(Task)
  BY DEF Sound, Controller
<1>1. Holds(t.tasks, complete) <=> Holds(b.tasks, complete)
  BY <1>0, HoldsAppend
<1>2. Holds(b.tasks, lost) \/ Holds(ts, lost) => Holds(t.tasks, lost)
  BY <1>0, HoldsAppend
<1>3. NoneAfter(t.tasks, complete, complete)
  <2>1. NoneAfter(ts, complete, complete) /\ NoneAfter(b.tasks, complete, complete)
    BY DEF NoneAfter, Holds, Match
  <2> HIDE DEF complete
  <2> QED
    BY <1>0, <2>1, NoneAfterAppend DEF complete
<1>4. Linked(t, c) # {} \/ Followed(t.tasks, complete, lost)
  <2>1. CASE Linked(t, c) # {}
    BY <2>1
  <2>2. CASE Linked(b, c) = {} \/ Holds(ts, lost)
    <3>1. Followed(b.tasks, complete, lost) \/ Holds(ts, lost)
      BY <2>2 DEF Match
    <3> QED
      BY <1>0, <3>1, FollowedAppend
  <2>3. CASE ~Holds(b.tasks, complete)
    BY <1>1, <2>3 DEF Holds, Followed
  <2> QED
    BY <2>1, <2>2, <2>3
<1> HIDE DEF connect, complete, ended, lost
<1>5. Match(a, b, c, d) <=>
        /\ \A g, h \in Linked(a, d) : g = h
        /\ Linked(a, d) # {} => /\ Linked(b, c) # {} \/ Holds(b.tasks, lost)
                                /\ ~Holds(a.tasks, ended)
        /\ Holds(a.tasks, connect) => a.initiator.pending_connect_request = d /\ Linked(a, d) = {}
        /\ NoneAfter(a.tasks, connect, connect) /\ NoneAfter(a.tasks, connect, ended)
        /\ Holds(b.tasks, complete) => /\ a.initiator.pending_connect_request = d /\ Linked(a, d) = {}
                                       /\ ~Holds(a.tasks, connect) /\ ~Holds(a.tasks, ended)
        /\ NoneAfter(b.tasks, complete, complete)
        /\ Linked(b, c) # {} \/ Followed(b.tasks, complete, lost)
  BY DEF Match, connect, complete, ended, lost
<1>6. Linked(a, d) # {} => Linked(t, c) # {} \/ Holds(t.tasks, lost)
  BY <1>2, <1>5 DEF lost
<1> QED
  BY <1>1, <1>3, <1>4, <1>5, <1>6, SMTT(30) DEF Match, connect, complete, ended, lost

\* The initiator's end changes without a new connection to d: it may lose the
\* one it has, and says so only then.
LEMMA MatchCentralQuiet ==
  ASSUME NEW a, NEW b, NEW c, NEW d, Match(a, b, c, d), NEW t, NEW ts, Sound(a),
         ts \in Seq(Task), t.tasks = a.tasks \o ts,
         ~Holds(ts, Pdu("LE_CONNECT", c, d)),
         Linked(t, d) \subseteq Linked(a, d),
         Holds(ts, Pdu("DISCONNECT", c, d)) => Linked(t, d) = {} /\ Linked(a, d) # {},
         a.initiator.pending_connect_request = d => t.initiator.pending_connect_request = d
  PROVE  Match(t, b, c, d)
<1> DEFINE connect == Pdu("LE_CONNECT", c, d)
           complete == Pdu("LE_CONNECT_COMPLETE", d, c)
           ended == Pdu("DISCONNECT", c, d)
           lost == Pdu("DISCONNECT", d, c)
<1>0. a.tasks \in Seq(Task)
  BY DEF Sound, Controller
<1>1. Holds(t.tasks, connect) <=> Holds(a.tasks, connect)
  BY <1>0, HoldsAppend
<1>2. Holds(t.tasks, ended) <=> Holds(a.tasks, ended) \/ Holds(ts, ended)
  BY <1>0, HoldsAppend
<1>3. NoneAfter(ts, connect, connect) /\ NoneAfter(ts, connect, ended)
  BY DEF NoneAfter, Holds
<1> HIDE DEF connect, complete, ended, lost
<1>5. /\ \A g, h \in Linked(a, d) : g = h
      /\ Linked(a, d) # {} => /\ Linked(b, c) # {} \/ Holds(b.tasks, lost)
                              /\ ~Holds(a.tasks, ended)
      /\ Holds(a.tasks, connect) => a.initiator.pending_connect_request = d /\ Linked(a, d) = {}
      /\ NoneAfter(a.tasks, connect, connect) /\ NoneAfter(a.tasks, connect, ended)
      /\ Holds(b.tasks, complete) => /\ a.initiator.pending_connect_request = d /\ Linked(a, d) = {}
                                     /\ ~Holds(a.tasks, connect) /\ ~Holds(a.tasks, ended)
      /\ NoneAfter(b.tasks, complete, complete)
      /\ Linked(b, c) # {} \/ Followed(b.tasks, complete, lost)
  BY DEF Match, connect, complete, ended, lost
<1>6. ~Holds(ts, connect) /\ (Holds(ts, ended) => Linked(t, d) = {} /\ Linked(a, d) # {})
  BY DEF connect, ended
<1>7. NoneAfter(t.tasks, connect, connect) /\ NoneAfter(t.tasks, connect, ended)
  BY <1>0, <1>3, <1>5, <1>6, NoneAfterAppend, SMTT(30)
<1> QED
  BY <1>1, <1>2, <1>5, <1>6, <1>7, SMTT(60) DEF Match, connect, complete, ended, lost

\* The initiator answers an advertisement of d with LE_CONNECT.
LEMMA MatchConnects ==
  ASSUME NEW a, NEW b, NEW c, NEW d \in Ctrl, Match(a, b, c, d), NEW t, NEW ts, Sound(a),
         ts = <<Pdu("LE_CONNECT", c, d)>>, ts \in Seq(Task), t.tasks = a.tasks \o ts,
         Linked(t, d) = Linked(a, d), Linked(a, d) = {},
         a.initiator.pending_connect_request = None,
         t.initiator.pending_connect_request = d
  PROVE  Match(t, b, c, d)
<1> DEFINE connect == Pdu("LE_CONNECT", c, d)
           complete == Pdu("LE_CONNECT_COMPLETE", d, c)
           ended == Pdu("DISCONNECT", c, d)
           lost == Pdu("DISCONNECT", d, c)
<1>0. a.tasks \in Seq(Task) /\ None # d
  BY NoneAssumption DEF Sound, Controller
<1>1. ~Holds(ts, ended)
  BY DEF Holds, Pdu
<1>2. NoneAfter(ts, connect, connect) /\ NoneAfter(ts, connect, ended)
  BY DEF NoneAfter
<1> HIDE DEF connect, complete, ended, lost
<1>3. ~Holds(a.tasks, connect) /\ ~Holds(b.tasks, complete)
  BY <1>0 DEF Match, connect, complete
<1>4. /\ NoneAfter(a.tasks, connect, connect) /\ NoneAfter(a.tasks, connect, ended)
      /\ NoneAfter(b.tasks, complete, complete)
      /\ Linked(b, c) # {} \/ Followed(b.tasks, complete, lost)
  BY DEF Match, connect, complete, ended, lost
<1>5. NoneAfter(t.tasks, connect, connect) /\ NoneAfter(t.tasks, connect, ended)
  BY <1>0, <1>2, <1>3, <1>4, NoneAfterAppend, ZenonT(60)
<1> QED
  BY <1>3, <1>4, <1>5 DEF Match, connect, complete, ended, lost

\* What the initiator a has become, as t, after it sent the first packet of its
\* queue to the advertiser b.
CentralPopped(a, b, t, c, d) ==
  /\ Match(t, b, c, d)
  /\ Head(a.tasks) = Pdu("LE_CONNECT", c, d) =>
       /\ t.initiator.pending_connect_request = d /\ Linked(t, d) = {}
       /\ ~Holds(t.tasks, Pdu("LE_CONNECT", c, d))
       /\ ~Holds(t.tasks, Pdu("DISCONNECT", c, d))
       /\ ~Holds(b.tasks, Pdu("LE_CONNECT_COMPLETE", d, c))
  /\ Head(a.tasks) = Pdu("DISCONNECT", c, d) =>
       /\ Linked(t, d) = {}
       /\ ~Holds(b.tasks, Pdu("LE_CONNECT_COMPLETE", d, c))

\* The initiator sends the first packet of its queue.
LEMMA MatchCentralPops ==
  ASSUME NEW a, NEW b, NEW c, NEW d, Match(a, b, c, d), NEW t, Sound(a), a.tasks # <<>>,
         t.tasks = Tail(a.tasks), Linked(t, d) = Linked(a, d), t.initiator = a.initiator
  PROVE  CentralPopped(a, b, t, c, d)
<1> DEFINE connect == Pdu("LE_CONNECT", c, d)
           complete == Pdu("LE_CONNECT_COMPLETE", d, c)
           ended == Pdu("DISCONNECT", c, d)
           lost == Pdu("DISCONNECT", d, c)
<1>0. a.tasks \in Seq(Task)
  BY DEF Sound, Controller
<1>1. \A p : (Holds(t.tasks, p) => Holds(a.tasks, p))
  BY <1>0, HoldsOfTail
<1>2. Holds(a.tasks, Head(a.tasks))
  BY <1>0, TailIndices DEF Holds
<1> HIDE DEF connect, complete, ended, lost
<1>3. /\ \A g, h \in Linked(a, d) : g = h
      /\ Linked(a, d) # {} => /\ Linked(b, c) # {} \/ Holds(b.tasks, lost)
                              /\ ~Holds(a.tasks, ended)
      /\ Holds(a.tasks, connect) => a.initiator.pending_connect_request = d /\ Linked(a, d) = {}
      /\ NoneAfter(a.tasks, connect, connect) /\ NoneAfter(a.tasks, connect, ended)
      /\ Holds(b.tasks, complete) => /\ a.initiator.pending_connect_request = d /\ Linked(a, d) = {}
                                     /\ ~Holds(a.tasks, connect) /\ ~Holds(a.tasks, ended)
      /\ NoneAfter(b.tasks, complete, complete)
      /\ Linked(b, c) # {} \/ Followed(b.tasks, complete, lost)
  BY DEF Match, connect, complete, ended, lost
<1>4. /\ NoneAfter(t.tasks, connect, connect) /\ NoneAfter(t.tasks, connect, ended)
      /\ Head(a.tasks) = connect => ~Holds(t.tasks, connect) /\ ~Holds(t.tasks, ended)
  BY <1>0, <1>3, NoneAfterTail, SMTT(60)
<1>5. Match(t, b, c, d)
  BY <1>1, <1>3, <1>4 DEF Match, connect, complete, ended, lost
<1> QED
  BY <1>2, <1>3, <1>4, <1>5 DEF CentralPopped, connect, complete, ended, lost

\* The advertiser accepts the LE_CONNECT it just received.
LEMMA MatchAccepts ==
  ASSUME NEW a, NEW b, NEW c, NEW d, Match(a, b, c, d), NEW t, NEW ts, Sound(b),
         ts = <<Pdu("LE_CONNECT_COMPLETE", d, c)>>, ts \in Seq(Task), t.tasks = b.tasks \o ts,
         Linked(t, c) # {},
         a.initiator.pending_connect_request = d, Linked(a, d) = {},
         ~Holds(a.tasks, Pdu("LE_CONNECT", c, d)), ~Holds(a.tasks, Pdu("DISCONNECT", c, d)),
         ~Holds(b.tasks, Pdu("LE_CONNECT_COMPLETE", d, c))
  PROVE  Match(a, t, c, d)
<1> DEFINE complete == Pdu("LE_CONNECT_COMPLETE", d, c)
<1>0. b.tasks \in Seq(Task)
  BY DEF Sound, Controller
<1>1. NoneAfter(ts, complete, complete)
  BY DEF NoneAfter
<1>2. NoneAfter(b.tasks, complete, complete)
  BY DEF Match
<1> HIDE DEF complete
<1>3. NoneAfter(t.tasks, complete, complete)
  BY <1>0, <1>1, <1>2, NoneAfterAppend, ZenonT(60) DEF complete
<1> QED
  BY <1>3 DEF Match, complete

\* The advertiser sends a packet that is neither the answer to LE_CONNECT nor
\* a DISCONNECT to c.
LEMMA MatchPeripheralPops ==
  ASSUME NEW a, NEW b, NEW c, NEW d, Match(a, b, c, d), NEW t, Sound(b), b.tasks # <<>>,
         t.tasks = Tail(b.tasks), Linked(t, c) = Linked(b, c),
         Head(b.tasks) # Pdu("DISCONNECT", d, c) \/ Linked(a, d) = {}
  PROVE  Match(a, t, c, d)
<1> DEFINE complete == Pdu("LE_CONNECT_COMPLETE", d, c)
           lost == Pdu("DISCONNECT", d, c)
<1>0. b.tasks \in Seq(Task)
  BY DEF Sound, Controller
<1>1. \A p : (Holds(t.tasks, p) => Holds(b.tasks, p))
  BY <1>0, HoldsOfTail
<1>2. Holds(b.tasks, lost) => Holds(t.tasks, lost) \/ Linked(a, d) = {}
  BY <1>0, HoldsTail
<1> HIDE DEF complete, lost
<1>3. /\ NoneAfter(b.tasks, complete, complete)
      /\ Linked(b, c) # {} \/ Followed(b.tasks, complete, lost)
  BY DEF Match, complete, lost
<1>4. /\ NoneAfter(t.tasks, complete, complete)
      /\ Linked(t, c) # {} \/ Followed(t.tasks, complete, lost)
  BY <1>0, <1>3, NoneAfterTail, FollowedTail, SMTT(60)
<1> QED
  BY <1>1, <1>2, <1>4, SMTT(30) DEF Match, complete, lost

\* The initiator receives the LE_CONNECT_COMPLETE the advertiser sent.
LEMMA MatchCompletes ==
  ASSUME NEW a, NEW b, NEW c, NEW d, Match(a, b, c, d), NEW t, NEW u, NEW h, Sound(b), b.tasks # <<>>,
         t.tasks = Tail(b.tasks), Linked(t, c) = Linked(b, c),
         Head(b.tasks) = Pdu("LE_CONNECT_COMPLETE", d, c),
         u.tasks = a.tasks, Linked(u, d) = Linked(a, d) \cup {h}
  PROVE  Match(u, t, c, d)
<1> DEFINE connect == Pdu("LE_CONNECT", c, d)
           complete == Pdu("LE_CONNECT_COMPLETE", d, c)
           ended == Pdu("DISCONNECT", c, d)
           lost == Pdu("DISCONNECT", d, c)
<1>0. b.tasks \in Seq(Task)
  BY DEF Sound, Controller
<1>1. Holds(b.tasks, complete)
  BY <1>0, TailIndices, SMTT(30) DEF Holds
<1> HIDE DEF connect, complete, ended, lost
<1>3. /\ Linked(a, d) = {} /\ ~Holds(a.tasks, connect) /\ ~Holds(a.tasks, ended)
      /\ NoneAfter(a.tasks, connect, connect) /\ NoneAfter(a.tasks, connect, ended)
      /\ NoneAfter(b.tasks, complete, complete)
      /\ Linked(b, c) # {} \/ Followed(b.tasks, complete, lost)
  BY <1>1 DEF Match, connect, complete, ended, lost
<1>4. Head(b.tasks) = complete
  BY DEF complete
<1>5. /\ NoneAfter(t.tasks, complete, complete) /\ ~Holds(t.tasks, complete)
      /\ Linked(t, c) # {} \/ (Followed(t.tasks, complete, lost) /\ Holds(t.tasks, lost))
  BY <1>0, <1>3, <1>4, NoneAfterTail, FollowedTail, SMTT(30)
<1>6. Linked(u, d) = {h}
  BY <1>3
<1> QED
  BY <1>3, <1>5, <1>6, SMTT(60) DEF Match, connect, complete, ended, lost

-----------------------------------------------------------------------------
(* Who initiates.                                                          *)

\* I: the controllers whose host creates connections.
WellSent(p, c, I) ==
  /\ IsPdu(p) => p.src = c
  /\ p.kind = "LE_CONNECT" => c \in I
  /\ p.kind = "LE_CONNECT_COMPLETE" => c \notin I /\ p.dst \in I

\* The connections of an initiator are central ones, those of the others
\* peripheral ones; only an initiator waits, and sends LE_CONNECT; only the
\* others send LE_CONNECT_COMPLETE.
Placed(s, c, I) ==
  /\ \A h \in Connected(s) :
       /\ s.connections[h].own_address = c
       /\ s.connections[h].role = IF c \in I THEN "CENTRAL" ELSE "PERIPHERAL"
  /\ \A i \in DOMAIN s.tasks : WellSent(s.tasks[i], c, I)
  /\ c \notin I => /\ s.initiator.pending_connect_request = None
                   /\ s.initiator.initiating_address = None
                   /\ ~s.initiator.connect_enable

\* New tasks a device may send keep its queue well sent.
LEMMA PlacedAppend ==
  ASSUME NEW s, NEW c, NEW I, Sound(s), Placed(s, c, I), NEW ts \in Seq(Task),
         \A i \in DOMAIN ts : WellSent(ts[i], c, I)
  PROVE  \A i \in DOMAIN (s.tasks \o ts) : WellSent((s.tasks \o ts)[i], c, I)
<1>0. s.tasks \in Seq(Task)
  BY DEF Sound, Controller
<1>1. ASSUME NEW i \in DOMAIN (s.tasks \o ts) PROVE WellSent((s.tasks \o ts)[i], c, I)
  <2>1. CASE i \in DOMAIN s.tasks
    BY <1>0, <2>1, AppendIndices DEF Placed
  <2>2. CASE i \notin DOMAIN s.tasks
    BY <1>0, <2>2, AppendIndices
  <2> QED
    BY <2>1, <2>2
<1> QED
  BY <1>1

\* Placed is kept when no connection is added,
LEMMA PlacedQuiet ==
  ASSUME NEW s, NEW t, NEW c, NEW I, NEW ts, NEW gone, Sound(s), Placed(s, c, I),
         Quiet(s, t, ts, gone), \A i \in DOMAIN ts : WellSent(ts[i], c, I),
         c \notin I => t.initiator = s.initiator
  PROVE  Placed(t, c, I)
<1>1. \A i \in DOMAIN t.tasks : WellSent(t.tasks[i], c, I)
  BY PlacedAppend DEF Quiet
<1>2. \A h \in Connected(t) :
       /\ t.connections[h].own_address = c
       /\ t.connections[h].role = IF c \in I THEN "CENTRAL" ELSE "PERIPHERAL"
  BY DEF Quiet, SameLink, Placed
<1>3. c \notin I => /\ t.initiator.pending_connect_request = None
                    /\ t.initiator.initiating_address = None
                    /\ ~t.initiator.connect_enable
  BY DEF Placed
<1> QED
  BY <1>1, <1>2, <1>3 DEF Placed

\* when one of the right role is added,
LEMMA PlacedGrows ==
  ASSUME NEW s, NEW t, NEW c, NEW I, NEW ts, NEW h, NEW a, NEW role, Sound(s), Placed(s, c, I),
         Grows(s, t, ts, h, a, c, role), \A i \in DOMAIN ts : WellSent(ts[i], c, I),
         role = IF c \in I THEN "CENTRAL" ELSE "PERIPHERAL",
         c \notin I => t.initiator = s.initiator
  PROVE  Placed(t, c, I)
<1>1. \A i \in DOMAIN t.tasks : WellSent(t.tasks[i], c, I)
  BY PlacedAppend DEF Grows
<1>2. \A g \in Connected(t) :
       /\ t.connections[g].own_address = c
       /\ t.connections[g].role = IF c \in I THEN "CENTRAL" ELSE "PERIPHERAL"
  BY ZenonT(60) DEF Grows, SameLink, Placed
<1>3. c \notin I => /\ t.initiator.pending_connect_request = None
                    /\ t.initiator.initiating_address = None
                    /\ ~t.initiator.connect_enable
  BY DEF Placed
<1> QED
  BY <1>1, <1>2, <1>3 DEF Placed

\* and by what a controller does by itself.
LEMMA PlacedOwnStep ==
  ASSUME NEW s, NEW t, NEW c, NEW I, Sound(s), Placed(s, c, I), OwnStep(s, t, c)
  PROVE  Placed(t, c, I)
<1>1. ASSUME NEW ts, Quiet(s, t, ts, {}),
             \A i \in DOMAIN ts :
               /\ ts[i].kind \in {"ADV", "PING_REQUEST"}
               /\ ts[i].src = c \/ \E h \in Connected(s) :
                                      ts[i].src = s.connections[h].own_address
      PROVE  Placed(t, c, I)
  <2>1. \A i \in DOMAIN ts : WellSent(ts[i], c, I)
    BY <1>1 DEF WellSent, Placed
  <2> QED
    BY <1>1, <2>1, PlacedQuiet DEF OwnStep
<1>2. ASSUME NEW h \in Connected(s), Quiet(s, t, <<EndOf(s, h), DisconnectionComplete(h)>>, {h})
      PROVE  Placed(t, c, I)
  <2> DEFINE ts == <<EndOf(s, h), DisconnectionComplete(h)>>
  <2>0. WellSent(EndOf(s, h), c, I) /\ WellSent(DisconnectionComplete(h), c, I)
    BY DEF WellSent, Placed, EndOf, Pdu, DisconnectionComplete, IsPdu, PduKind, LinkedPdu
  <2>1. \A i \in DOMAIN ts : WellSent(ts[i], c, I)
    BY <2>0
  <2>2. Quiet(s, t, ts, {h})
    BY <1>2
  <2> HIDE DEF ts
  <2> QED
    BY <2>1, <2>2, PlacedQuiet, SMTT(30) DEF OwnStep
<1> QED
  BY <1>1, <1>2, ZenonT(60) DEF OwnStep

\* Every DISCONNECT of the loss of the transport and of HCI Reset.
LEMMA PlacedDisconnectAll ==
  ASSUME NEW s, NEW c, NEW I, Sound(s), Placed(s, c, I)
  PROVE  Placed(DisconnectAll(s), c, I) /\ Placed(ResetController(s), c, I)
<1>1. PICK ts : /\ Quiet(s, DisconnectAll(s), ts, {})
                /\ DisconnectAll(s).initiator = s.initiator
                /\ \A i \in DOMAIN ts : \E h \in Connected(s) : ts[i] = EndOf(s, h)
  BY DisconnectAllQuiet
<1>2. \A h \in Connected(s) : WellSent(EndOf(s, h), c, I)
  BY DEF WellSent, Placed, EndOf, Pdu, IsPdu, PduKind, LinkedPdu
<1>3. \A i \in DOMAIN ts : WellSent(ts[i], c, I)
  BY <1>1, <1>2
<1>4. Placed(DisconnectAll(s), c, I)
  BY <1>1, <1>3, PlacedQuiet
<1>5. /\ ResetController(s).tasks = DisconnectAll(s).tasks
      /\ Connected(ResetController(s)) = {}
      /\ ResetController(s).initiator = Initiator0
  BY ResetFields
<1>6. /\ Initiator0.pending_connect_request = None /\ Initiator0.initiating_address = None
      /\ ~Initiator0.connect_enable
  BY DEF Initiator0
<1>7. Placed(ResetController(s), c, I)
  BY <1>4, <1>5, <1>6, ZenonT(60) DEF Placed
<1> QED
  BY <1>4, <1>7

\* What a controller d makes of the packet p of e, when at most one controller
\* initiates: it keeps its connections and at most answers a ping ...
Calm(s, t, d) ==
  /\ t.initiator = s.initiator
  /\ \E ts : /\ Quiet(s, t, ts, {})
             /\ \A i \in DOMAIN ts : ts[i].kind = "PING_RESPONSE" /\ ts[i].src = d

\* ... or loses its connection to e ...
Loses(s, t, e) ==
  /\ t.initiator = s.initiator
  /\ \E h \in Linked(s, e) : Quiet(s, t, <<DisconnectionComplete(h)>>, {h})

\* ... or accepts e's LE_CONNECT ...
Accepts(s, t, d, e) ==
  /\ t.initiator = s.initiator
  /\ \E h : Grows(s, t, <<Pdu("LE_CONNECT_COMPLETE", d, e)>>, h, e, d, "PERIPHERAL")

\* ... or answers e's advertisement with LE_CONNECT ...
Connects(s, t, d, e) ==
  /\ s.initiator.connect_enable /\ s.initiator.pending_connect_request = None
  /\ s.initiator.listed \/ s.initiator.peer = e
  /\ t.initiator.pending_connect_request = e /\ t.initiator.initiating_address = d
  /\ t.initiator.connect_enable = s.initiator.connect_enable
  /\ t.initiator.listed = s.initiator.listed /\ t.initiator.peer = s.initiator.peer
  /\ Quiet(s, t, <<Pdu("LE_CONNECT", d, e)>>, {})

\* ... or completes its connection to e.
Completes(s, t, d, e) ==
  /\ s.initiator.pending_connect_request = e \/ s.initiator.initiating_address = d
  /\ t.initiator.pending_connect_request = None
  /\ ~t.initiator.connect_enable
  /\ t.initiator.initiating_address # d
  /\ \E h : Grows(s, t, <<>>, h, e, d, "CENTRAL")

\* A controller that does not get the packet stays as it is.
LEMMA CalmSelf ==
  ASSUME NEW s, Sound(s), NEW d
  PROVE  Calm(s, s, d)
<1>1. Quiet(s, s, <<>>, {}) /\ DOMAIN <<>> = {}
  BY DEF Quiet, SameLink, Sound, Controller
<1> QED
  BY <1>1, ZenonT(60) DEF Calm

\* IncomingPacket does one of the five things, and says why.
LEMMA Received ==
  ASSUME NEW s, NEW d \in Ctrl, NEW e \in Ctrl, NEW I, \A x, y \in I : x = y,
         Sound(s), Placed(s, d, I),
         NEW p \in Task, IsPdu(p), WellSent(p, e, I), e # d,
         CanHandle(s, d, p), NEW h \in Lookup(s, p), NEW t, t = IncomingPacket(s, d, p, h)
  PROVE  \/ /\ Calm(s, t, d)
            /\ p = Pdu("DISCONNECT", e, d) => Linked(s, e) = {}
            /\ p.kind = "LE_CONNECT_COMPLETE" /\ d \in I =>
                 s.initiator.pending_connect_request # e
         \/ p = Pdu("DISCONNECT", e, d) /\ Loses(s, t, e)
         \/ d \notin I /\ p = Pdu("LE_CONNECT", e, d) /\ Accepts(s, t, d, e)
         \/ d \in I /\ p.kind = "ADV" /\ Connects(s, t, d, e)
         \/ d \in I /\ p = Pdu("LE_CONNECT_COMPLETE", e, d) /\ Completes(s, t, d, e)
<1>0. p.src = e /\ s.tasks \in Seq(Task) /\ s.tasks \o <<>> = s.tasks /\ <<>> \in Seq(Task)
  BY DEF WellSent, Sound, Controller
<1>a. Calm(s, s, d)
  <2>1. Quiet(s, s, <<>>, {})
    BY <1>0 DEF Quiet, SameLink
  <2>2. DOMAIN <<>> = {}
    OBVIOUS
  <2> QED
    BY <2>1, <2>2 DEF Calm
<1>b. p.kind \in PduKind \ {"ADV"} => p = Pdu(p.kind, e, p.dst) /\ p.dst \in Ctrl
  BY <1>0 DEF Task, PduKind, LinkedPdu, Pdu, CreateConnectionCancelled
<1>c. s.initiator \in Initiator
  BY ZenonT(60) DEF Sound, Controller
<1>1. CASE p.kind = "ADV"
  <2>1. t = IncomingLeLegacyAdvertisingPdu(s, d, p) /\ p # Pdu("DISCONNECT", e, d)
    BY <1>1 DEF IncomingPacket, Pdu
  <2>2. CASE ~WouldConnect(s, d, p)
    BY <1>1, <1>a, <2>1, <2>2, ZenonT(60) DEF IncomingLeLegacyAdvertisingPdu
  <2>3. CASE WouldConnect(s, d, p)
    <3>1. /\ Quiet(s, t, <<Pdu("LE_CONNECT", d, p.src)>>, {})
          /\ t.initiator.pending_connect_request = p.src
          /\ t.initiator.initiating_address = d
          /\ t.initiator.connect_enable = s.initiator.connect_enable
          /\ t.initiator.listed = s.initiator.listed /\ t.initiator.peer = s.initiator.peer
      BY <1>1, <2>1, <2>3, IncomingAdvQuiet, SMTT(60)
    <3>2. Connects(s, t, d, e)
      BY <1>0, <2>3, <3>1, ZenonT(60) DEF Connects, WouldConnect
    <3>3. d \in I
      BY <2>3 DEF WouldConnect, Placed
    <3> QED
      BY <1>1, <3>2, <3>3, ZenonT(60)
  <2> QED
    BY <2>2, <2>3
<1>2. CASE p.kind = "LE_CONNECT"
  <2>1. t = IncomingLeConnectPacket(s, d, p) /\ p # Pdu("DISCONNECT", e, d)
    BY <1>2 DEF IncomingPacket, Pdu
  <2>2. CASE ~AcceptsConnect(s, d, p)
    BY <1>2, <1>a, <2>1, <2>2 DEF IncomingLeConnectPacket
  <2>3. CASE AcceptsConnect(s, d, p)
    <3>0. p.dst = d /\ p = Pdu("LE_CONNECT", e, d)
      BY <1>2, <1>b, <2>3 DEF AcceptsConnect, PduKind
    <3>1. /\ \E g : Grows(s, t, <<Pdu("LE_CONNECT_COMPLETE", d, e)>>, g, e, d, "PERIPHERAL")
          /\ t.initiator = [s.initiator EXCEPT !.initiating_address = IF @ = d THEN None ELSE @]
      BY <1>0, <1>2, <2>1, <2>3, <3>0, IncomingConnectGrows, SMTT(60)
    <3>2. d \notin I
      BY <1>2 DEF WellSent
    <3>3. t.initiator = s.initiator
      BY <1>c, <3>1, <3>2, SMTT(60) DEF Placed, Initiator
    <3> QED
      BY <3>0, <3>1, <3>2, <3>3, ZenonT(60) DEF Accepts
  <2> QED
    BY <2>2, <2>3
<1>3. CASE p.kind = "LE_CONNECT_COMPLETE"
  <2>1. t = IncomingLeConnectCompletePacket(s, p) /\ p # Pdu("DISCONNECT", e, d)
    BY <1>3, SMTT(60) DEF IncomingPacket, Pdu
  <2>2. CASE IgnoresConnectComplete(s, p)
    <3>1. t = s
      BY <2>1, <2>2, ZenonT(60) DEF IncomingLeConnectCompletePacket
    <3>2. s.initiator.pending_connect_request # e
      BY <1>0, <2>2, ZenonT(60) DEF IgnoresConnectComplete
    <3> QED
      BY <1>a, <2>1, <3>1, <3>2
  <2>3. CASE ~IgnoresConnectComplete(s, p)
    <3>0. d \in I
      BY <1>0, <1>3, <1>b, <2>3, NoneAssumption, ZenonT(60) DEF IgnoresConnectComplete, Placed, PduKind
    <3>1. p.dst = d /\ p = Pdu("LE_CONNECT_COMPLETE", e, d)
      BY <1>3, <1>b, <3>0, ZenonT(60) DEF WellSent, PduKind
    <3>2. /\ \E g : Grows(s, t, <<>>, g, e, d, "CENTRAL")
          /\ t.initiator.pending_connect_request = None
          /\ ~t.initiator.connect_enable
          /\ t.initiator.initiating_address
               = IF s.initiator.initiating_address = d THEN None
                 ELSE s.initiator.initiating_address
      BY <1>0, <1>3, <2>1, <2>3, <3>1, IncomingCompleteGrows, SMTT(60)
    <3>3. t.initiator.initiating_address # d
      BY <3>2, NoneAssumption, ZenonT(60)
    <3>4. Completes(s, t, d, e)
      BY <1>0, <2>3, <3>1, <3>2, <3>3, ZenonT(60) DEF Completes, IgnoresConnectComplete
    <3> QED
      BY <3>0, <3>1, <3>4, ZenonT(60)
  <2> QED
    BY <2>2, <2>3
<1>4. CASE p.kind \in LinkedPdu /\ h # None
  <2>1. h \in Connected(s) /\ t = IncomingLinkedPacket(s, h, p)
        /\ s.connections[h].address = e /\ s.connections[h].own_address = p.dst
    BY <1>0, <1>4, ZenonT(60) DEF Lookup, GetLeAclConnectionHandles, IncomingPacket, LinkedPdu
  <2>2. p.dst = d /\ p = Pdu(p.kind, e, d) /\ h \in Linked(s, e)
    BY <1>4, <1>b, <2>1 DEF Placed, PduKind, LinkedPdu, Linked
  <2>3. /\ t.initiator = s.initiator
        /\ \/ Quiet(s, t, <<>>, {})
           \/ Quiet(s, t, <<Pdu("PING_RESPONSE", d, e)>>, {})
           \/ p.kind = "DISCONNECT" /\ Quiet(s, t, <<DisconnectionComplete(h)>>, {h})
    BY <1>0, <1>4, <2>1, <2>2, IncomingLinkedQuiet, ZenonT(60)
  <2>4. CASE p.kind = "DISCONNECT"
    <3>1. Quiet(s, t, <<DisconnectionComplete(h)>>, {h})
      <4>1. t = SendTasks(RemoveLink(s, h), <<DisconnectionComplete(h)>>)
        BY <2>1, <2>4, ZenonT(60) DEF IncomingLinkedPacket
      <4>2. /\ Sound(RemoveLink(s, h)) /\ <<DisconnectionComplete(h)>> \in Seq(Task)
            /\ h \notin Connected(RemoveLink(s, h)) /\ h \in Handles
        BY <2>1, RemoveLinkSound, ConnectionType, TaskType
      <4>3. h \notin Connected(t)
        BY <4>1, <4>2, SendTasksQuiet, ZenonT(60) DEF Quiet
      <4> QED
        BY <2>1, <2>3, <4>3 DEF Quiet
    <3> QED
      BY <2>2, <2>3, <2>4, <3>1, ZenonT(60) DEF Loses
  <2>5. CASE p.kind # "DISCONNECT"
    <3>1. p # Pdu("DISCONNECT", e, d) /\ p.kind # "LE_CONNECT_COMPLETE"
      BY <1>4, <2>5, SMTT(60) DEF Pdu, LinkedPdu
    <3>2. DOMAIN <<>> = {}
      OBVIOUS
    <3>3. \A i \in DOMAIN <<Pdu("PING_RESPONSE", d, e)>> :
            /\ <<Pdu("PING_RESPONSE", d, e)>>[i].kind = "PING_RESPONSE"
            /\ <<Pdu("PING_RESPONSE", d, e)>>[i].src = d
      BY SMTT(60) DEF Pdu
    <3>4. \E ts : /\ Quiet(s, t, ts, {})
                  /\ \A i \in DOMAIN ts : ts[i].kind = "PING_RESPONSE" /\ ts[i].src = d
      BY <2>3, <2>5, <3>2, <3>3, ZenonT(60)
    <3> QED
      BY <2>3, <3>1, <3>4, ZenonT(60) DEF Calm
  <2> QED
    BY <2>4, <2>5
<1>5. CASE p.kind \in LinkedPdu /\ h = None
  <2>1. t = s
    BY <1>5 DEF IncomingPacket, LinkedPdu
  <2>2. p.dst = d => Linked(s, e) = {}
    <3> SUFFICES ASSUME p.dst = d, NEW g \in Linked(s, e) PROVE FALSE
      BY ZenonT(60)
    <3>1. g \in GetLeAclConnectionHandles(s, p.dst, p.src) /\ g \in Handles
      BY <1>0, ZenonT(60) DEF Linked, Placed, GetLeAclConnectionHandles, Connected
    <3>2. h \in Handles
      BY <1>5, <3>1, ZenonT(60) DEF Lookup, GetLeAclConnectionHandles, Connected
    <3> QED
      BY <1>5, <3>2, NoneAssumption, ZenonT(60)
  <2>3. p = Pdu("DISCONNECT", e, d) => Linked(s, e) = {}
    BY <2>2 DEF Pdu
  <2>4. p.kind # "LE_CONNECT_COMPLETE"
    BY <1>5 DEF LinkedPdu
  <2> QED
    BY <1>a, <2>1, <2>3, <2>4, SMTT(30)
<1> QED
  BY <1>1, <1>2, <1>3, <1>4, <1>5, ZenonT(60) DEF IsPdu, PduKind

\* The connections to p after some are removed,
LEMMA LinkedQuiet ==
  ASSUME NEW s, NEW t, NEW ts, NEW gone, Quiet(s, t, ts, gone), NEW p
  PROVE  Linked(t, p) = Linked(s, p) \ gone
  BY DEF Quiet, SameLink, Linked

\* after none is,
LEMMA LinkedKept ==
  ASSUME NEW s, NEW t, NEW ts, Quiet(s, t, ts, {}), NEW p
  PROVE  Linked(t, p) = Linked(s, p)
  BY DEF Quiet, SameLink, Linked

\* and after one is added.
LEMMA LinkedGrows ==
  ASSUME NEW s, NEW t, NEW ts, NEW h, NEW a, NEW b, NEW role, Grows(s, t, ts, h, a, b, role), NEW p
  PROVE  /\ p = a => Linked(t, p) = Linked(s, p) \cup {h}
         /\ p # a => Linked(t, p) = Linked(s, p)
  BY DEF Grows, SameLink, Linked

\* While the initiator is enabled it has no connection to the peer it looks
\* for, and it waits for an answer only while it is enabled.
Waits(a) ==
  /\ a.initiator.pending_connect_request # None => a.initiator.connect_enable
  /\ a.initiator.connect_enable =>
       \A h \in Connected(a) :
         ~a.initiator.listed /\ a.connections[h].address # a.initiator.peer

\* An initiator that loses connections waits as before.
LEMMA WaitsQuiet ==
  ASSUME NEW s, NEW t, NEW ts, NEW gone, Waits(s), Quiet(s, t, ts, gone), t.initiator = s.initiator
  PROVE  Waits(t)
  BY DEF Waits, Quiet, SameLink

\* What the initiator does by itself.
LEMMA MatchCentralOwn ==
  ASSUME NEW a, NEW b, NEW c \in Ctrl, NEW d \in Ctrl, NEW I, Sound(a), Placed(a, c, I),
         Waits(a), Match(a, b, c, d), NEW t, OwnStep(a, t, c)
  PROVE  Waits(t) /\ Match(t, b, c, d)
<1>1. ASSUME NEW ts, Quiet(a, t, ts, {}),
             \A i \in DOMAIN ts : ts[i].kind \in {"ADV", "PING_REQUEST"}
      PROVE  Waits(t) /\ Match(t, b, c, d)
  <2>1. ~Holds(ts, Pdu("LE_CONNECT", c, d)) /\ ~Holds(ts, Pdu("DISCONNECT", c, d))
    BY <1>1, SMTT(60) DEF Holds, Pdu
  <2>2. Linked(t, d) = Linked(a, d)
    BY <1>1, LinkedKept, ZenonT(60)
  <2>3. ts \in Seq(Task) /\ t.tasks = a.tasks \o ts /\ t.initiator = a.initiator
    BY <1>1, ZenonT(60) DEF Quiet, OwnStep
  <2>4. Match(t, b, c, d)
    BY <2>1, <2>2, <2>3, MatchCentralQuiet, ZenonT(60)
  <2> QED
    BY <1>1, <2>3, <2>4, WaitsQuiet, ZenonT(60)
<1>2. ASSUME NEW h \in Connected(a), Quiet(a, t, <<EndOf(a, h), DisconnectionComplete(h)>>, {h})
      PROVE  Waits(t) /\ Match(t, b, c, d)
  <2> DEFINE ts == <<EndOf(a, h), DisconnectionComplete(h)>>
  <2>1. ~Holds(ts, Pdu("LE_CONNECT", c, d))
    BY SMTT(60) DEF Holds, Pdu, EndOf, DisconnectionComplete
  <2>2. Holds(ts, Pdu("DISCONNECT", c, d)) => h \in Linked(a, d)
    BY DEF Holds, Pdu, EndOf, DisconnectionComplete, Linked
  <2>3. Quiet(a, t, ts, {h})
    BY <1>2
  <2> HIDE DEF ts
  <2>4. Linked(t, d) = Linked(a, d) \ {h}
    BY <2>3, LinkedQuiet, SMTT(60)
  <2>5. \A g, k \in Linked(a, d) : g = k
    BY DEF Match
  <2>6. Holds(ts, Pdu("DISCONNECT", c, d)) => Linked(t, d) = {} /\ Linked(a, d) # {}
    BY <2>2, <2>4, <2>5, ZenonT(60)
  <2>7. ts \in Seq(Task) /\ t.tasks = a.tasks \o ts /\ t.initiator = a.initiator
    BY <2>3, ZenonT(60) DEF Quiet, OwnStep
  <2>8. Match(t, b, c, d)
    BY <2>1, <2>4, <2>6, <2>7, MatchCentralQuiet, SMTT(30)
  <2> QED
    BY <2>3, <2>7, <2>8, WaitsQuiet, ZenonT(60)
<1> QED
  BY <1>1, <1>2, ZenonT(60) DEF OwnStep

\* What the advertiser does by itself.
LEMMA MatchPeripheralOwn ==
  ASSUME NEW a, NEW b, NEW c \in Ctrl, NEW d \in Ctrl, NEW I, Sound(b), Placed(b, d, I),
         Match(a, b, c, d), NEW t, OwnStep(b, t, d)
  PROVE  Match(a, t, c, d)
<1>1. ASSUME NEW ts, Quiet(b, t, ts, {}),
             \A i \in DOMAIN ts : ts[i].kind \in {"ADV", "PING_REQUEST"}
      PROVE  Match(a, t, c, d)
  <2>1. ~Holds(ts, Pdu("LE_CONNECT_COMPLETE", d, c))
    BY <1>1, SMTT(60) DEF Holds, Pdu
  <2>2. Linked(t, c) = Linked(b, c)
    BY <1>1, LinkedKept, ZenonT(60)
  <2>3. ts \in Seq(Task) /\ t.tasks = b.tasks \o ts
    BY <1>1, ZenonT(60) DEF Quiet
  <2> QED
    BY <2>1, <2>2, <2>3, MatchPeripheralQuiet, ZenonT(60)
<1>2. ASSUME NEW h \in Connected(b), Quiet(b, t, <<EndOf(b, h), DisconnectionComplete(h)>>, {h})
      PROVE  Match(a, t, c, d)
  <2> DEFINE ts == <<EndOf(b, h), DisconnectionComplete(h)>>
  <2>1. ~Holds(ts, Pdu("LE_CONNECT_COMPLETE", d, c))
    BY SMTT(60) DEF Holds, Pdu, EndOf, DisconnectionComplete
  <2>2. h \in Linked(b, c) => EndOf(b, h) = Pdu("DISCONNECT", d, c)
    BY DEF EndOf, Linked, Placed
  <2>3. h \in Linked(b, c) => Holds(ts, Pdu("DISCONNECT", d, c))
    BY <2>2 DEF Holds
  <2>4. Quiet(b, t, ts, {h})
    BY <1>2
  <2> HIDE DEF ts
  <2>5. Linked(t, c) = Linked(b, c) \ {h}
    BY <2>4, LinkedQuiet
  <2>6. ts \in Seq(Task) /\ t.tasks = b.tasks \o ts
    BY <2>4 DEF Quiet
  <2> QED
    BY <2>1, <2>3, <2>5, <2>6, MatchPeripheralQuiet, ZenonT(60)
<1> QED
  BY <1>1, <1>2, ZenonT(60) DEF OwnStep

\* Close and Reset at the advertiser.
LEMMA MatchPeripheralEnds ==
  ASSUME NEW a, NEW b, NEW c \in Ctrl, NEW d \in Ctrl, NEW I, Sound(b), Placed(b, d, I),
         Match(a, b, c, d)
  PROVE  Match(a, DisconnectAll(b), c, d) /\ Match(a, ResetController(b), c, d)
<1>1. PICK ts : /\ Quiet(b, DisconnectAll(b), ts, {})
                /\ \A i \in DOMAIN ts : \E h \in Connected(b) : ts[i] = EndOf(b, h)
                /\ \A h \in Connected(b) : Holds(ts, EndOf(b, h))
  BY DisconnectAllQuiet, ZenonT(60)
<1>2. ~Holds(ts, Pdu("LE_CONNECT_COMPLETE", d, c))
  BY <1>1, SMTT(60) DEF Holds, Pdu, EndOf
<1>3. Linked(b, c) # {} => Holds(ts, Pdu("DISCONNECT", d, c))
  BY <1>1, ZenonT(60) DEF EndOf, Linked, Placed
<1>4. ts \in Seq(Task) /\ DisconnectAll(b).tasks = b.tasks \o ts
      /\ ResetController(b).tasks = b.tasks \o ts
  BY <1>1, ResetFields, ZenonT(60) DEF Quiet
<1> QED
  BY <1>2, <1>3, <1>4, MatchPeripheralQuiet, ZenonT(60)

\* What the initiator makes of a packet of e, for its connections to others.
LEMMA MatchCentralReceives ==
  ASSUME NEW a, NEW b, NEW c \in Ctrl, NEW d \in Ctrl, NEW e \in Ctrl, Sound(a),
         Waits(a), Match(a, b, c, d), NEW t,
         \/ Calm(a, t, c)
         \/ Loses(a, t, e)
         \/ Connects(a, t, c, e)
         \/ Completes(a, t, c, e) /\ a.initiator.pending_connect_request = e /\ e # d
  PROVE  Waits(t) /\ Match(t, b, c, d)
<1>1. CASE Calm(a, t, c)
  <2>1. PICK ts : /\ Quiet(a, t, ts, {})
                  /\ \A i \in DOMAIN ts : ts[i].kind = "PING_RESPONSE"
    BY <1>1, ZenonT(60) DEF Calm
  <2>2. ~Holds(ts, Pdu("LE_CONNECT", c, d)) /\ ~Holds(ts, Pdu("DISCONNECT", c, d))
    BY <2>1, SMTT(60) DEF Holds, Pdu
  <2>3. Linked(t, d) = Linked(a, d)
    BY <2>1, LinkedKept, ZenonT(60)
  <2>4. ts \in Seq(Task) /\ t.tasks = a.tasks \o ts /\ t.initiator = a.initiator
    BY <1>1, <2>1, ZenonT(60) DEF Quiet, Calm
  <2>5. Match(t, b, c, d)
    BY <2>2, <2>3, <2>4, MatchCentralQuiet, ZenonT(60)
  <2> QED
    BY <2>1, <2>4, <2>5, WaitsQuiet, ZenonT(60)
<1>2. CASE Loses(a, t, e)
  <2>1. PICK h \in Linked(a, e) : Quiet(a, t, <<DisconnectionComplete(h)>>, {h})
    BY <1>2, ZenonT(60) DEF Loses
  <2> DEFINE ts == <<DisconnectionComplete(h)>>
  <2>2. ~Holds(ts, Pdu("LE_CONNECT", c, d)) /\ ~Holds(ts, Pdu("DISCONNECT", c, d))
    BY DEF Holds, Pdu, DisconnectionComplete
  <2>3. Quiet(a, t, ts, {h})
    BY <2>1
  <2> HIDE DEF ts
  <2>4. Linked(t, d) = Linked(a, d) \ {h}
    BY <2>3, LinkedQuiet, SMTT(60)
  <2>5. ts \in Seq(Task) /\ t.tasks = a.tasks \o ts /\ t.initiator = a.initiator
    BY <1>2, <2>3 DEF Quiet, Loses
  <2>6. Match(t, b, c, d)
    BY <2>2, <2>4, <2>5, MatchCentralQuiet, ZenonT(60)
  <2> QED
    BY <2>3, <2>5, <2>6, WaitsQuiet, ZenonT(60)
<1>3. CASE Connects(a, t, c, e)
  <2> DEFINE ts == <<Pdu("LE_CONNECT", c, e)>>
  <2>1. Quiet(a, t, ts, {})
    BY <1>3, ZenonT(60) DEF Connects
  <2>2. ~Holds(ts, Pdu("DISCONNECT", c, d)) /\ (e # d => ~Holds(ts, Pdu("LE_CONNECT", c, d)))
    BY DEF Holds, Pdu
  <2>3. ts = <<Pdu("LE_CONNECT", c, e)>>
    OBVIOUS
  <2> HIDE DEF ts
  <2>4. Linked(t, d) = Linked(a, d)
    BY <2>1, LinkedKept
  <2>5. ts \in Seq(Task) /\ t.tasks = a.tasks \o ts
    BY <2>1, ZenonT(60) DEF Quiet
  <2>6. a.initiator.pending_connect_request = None /\ t.initiator.pending_connect_request = e
    BY <1>3, ZenonT(60) DEF Connects
  <2>7. Linked(a, e) = {}
    BY <1>3 DEF Connects, Waits, Linked
  <2>8. Match(t, b, c, d)
    <3>1. CASE e = d
      BY <2>3, <2>4, <2>5, <2>6, <2>7, <3>1, MatchConnects, ZenonT(60)
    <3>2. CASE e # d
      <4>1. a.initiator.pending_connect_request # d
        BY <2>6, NoneAssumption, ZenonT(60)
      <4> QED
        BY <2>2, <2>4, <2>5, <3>2, <4>1, MatchCentralQuiet, ZenonT(60)
    <3> QED
      BY <3>1, <3>2
  <2>9. Waits(t)
    BY <1>3, <2>1, ZenonT(60) DEF Connects, Waits, Quiet, SameLink
  <2> QED
    BY <2>8, <2>9, ZenonT(60)
<1>4. CASE Completes(a, t, c, e) /\ a.initiator.pending_connect_request = e /\ e # d
  <2>1. PICK h : Grows(a, t, <<>>, h, e, c, "CENTRAL")
    BY <1>4, ZenonT(60) DEF Completes
  <2>e. d # e
    BY <1>4
  <2>2. Linked(t, d) = Linked(a, d)
    BY <2>1, <2>e, LinkedGrows, SMTT(60)
  <2>3. <<>> \in Seq(Task) /\ t.tasks = a.tasks \o <<>>
    BY <2>1 DEF Grows
  <2>4. ~Holds(<<>>, Pdu("LE_CONNECT", c, d)) /\ ~Holds(<<>>, Pdu("DISCONNECT", c, d))
    BY DEF Holds
  <2>5. Match(t, b, c, d)
    BY <1>4, <2>2, <2>3, <2>4, MatchCentralQuiet, ZenonT(60)
  <2>6. Waits(t)
    BY <1>4, ZenonT(60) DEF Completes, Waits
  <2> QED
    BY <2>5, <2>6
<1> QED
  BY <1>1, <1>2, <1>3, <1>4, ZenonT(60)

\* What the advertiser d makes of a packet of e: if it loses its connection
\* to c, c has none.
LEMMA MatchPeripheralReceives ==
  ASSUME NEW a, NEW b, NEW c \in Ctrl, NEW d \in Ctrl, NEW e \in Ctrl, Sound(b),
         Match(a, b, c, d), NEW t,
         \/ Calm(b, t, d)
         \/ Loses(b, t, e) /\ e # c
         \/ /\ Loses(b, t, e) /\ Linked(a, d) = {}
            /\ ~Holds(b.tasks, Pdu("LE_CONNECT_COMPLETE", d, c))
         \/ /\ Accepts(b, t, d, c)
            /\ a.initiator.pending_connect_request = d /\ Linked(a, d) = {}
            /\ ~Holds(a.tasks, Pdu("LE_CONNECT", c, d)) /\ ~Holds(a.tasks, Pdu("DISCONNECT", c, d))
            /\ ~Holds(b.tasks, Pdu("LE_CONNECT_COMPLETE", d, c))
  PROVE  Match(a, t, c, d)
<1>1. CASE Calm(b, t, d)
  <2>1. PICK ts : /\ Quiet(b, t, ts, {})
                  /\ \A i \in DOMAIN ts : ts[i].kind = "PING_RESPONSE"
    BY <1>1, ZenonT(60) DEF Calm
  <2>2. ~Holds(ts, Pdu("LE_CONNECT_COMPLETE", d, c))
    BY <2>1, SMTT(60) DEF Holds, Pdu
  <2>3. Linked(t, c) = Linked(b, c)
    BY <2>1, LinkedKept, ZenonT(60)
  <2>4. ts \in Seq(Task) /\ t.tasks = b.tasks \o ts
    BY <2>1, ZenonT(60) DEF Quiet
  <2> QED
    BY <2>2, <2>3, <2>4, MatchPeripheralQuiet, ZenonT(60)
<1>2. CASE Loses(b, t, e) /\ \/ e # c
                             \/ /\ Linked(a, d) = {}
                                /\ ~Holds(b.tasks, Pdu("LE_CONNECT_COMPLETE", d, c))
  <2>1. PICK h \in Linked(b, e) : Quiet(b, t, <<DisconnectionComplete(h)>>, {h})
    BY <1>2, ZenonT(60) DEF Loses
  <2> DEFINE ts == <<DisconnectionComplete(h)>>
  <2>2. ~Holds(ts, Pdu("LE_CONNECT_COMPLETE", d, c))
    BY DEF Holds, Pdu, DisconnectionComplete
  <2>3. Quiet(b, t, ts, {h})
    BY <2>1, ZenonT(60)
  <2> HIDE DEF ts
  <2>4. Linked(t, c) = Linked(b, c) \ {h}
    BY <2>3, LinkedQuiet, SMTT(60)
  <2>5. e # c => Linked(t, c) = Linked(b, c)
    BY <2>1, <2>4, ZenonT(60) DEF Linked
  <2>6. ts \in Seq(Task) /\ t.tasks = b.tasks \o ts
    BY <2>3 DEF Quiet
  <2> QED
    BY <1>2, <2>2, <2>5, <2>6, MatchPeripheralQuiet, SMTT(30)
<1>3. CASE /\ Accepts(b, t, d, c)
           /\ a.initiator.pending_connect_request = d /\ Linked(a, d) = {}
           /\ ~Holds(a.tasks, Pdu("LE_CONNECT", c, d)) /\ ~Holds(a.tasks, Pdu("DISCONNECT", c, d))
           /\ ~Holds(b.tasks, Pdu("LE_CONNECT_COMPLETE", d, c))
  <2> DEFINE ts == <<Pdu("LE_CONNECT_COMPLETE", d, c)>>
  <2>1. PICK h : Grows(b, t, ts, h, c, d, "PERIPHERAL")
    BY <1>3, ZenonT(60) DEF Accepts
  <2>2. ts = <<Pdu("LE_CONNECT_COMPLETE", d, c)>>
    BY ZenonT(60)
  <2> HIDE DEF ts
  <2>3. Linked(t, c) = Linked(b, c) \cup {h}
    BY <2>1, LinkedGrows, SMTT(60)
  <2>4. ts \in Seq(Task) /\ t.tasks = b.tasks \o ts /\ Linked(t, c) # {}
    BY <2>1, <2>3, ZenonT(60) DEF Grows
  <2> QED
    BY <1>3, <2>2, <2>4, MatchAccepts, ZenonT(60)
<1> QED
  BY <1>1, <1>2, <1>3, ZenonT(60)

\* No packet misplaces a connection or a task.
LEMMA PlacedReceives ==
  ASSUME NEW s, NEW d \in Ctrl, NEW e \in Ctrl, NEW I, Sound(s), Placed(s, d, I), NEW t,
         \/ Calm(s, t, d)
         \/ Loses(s, t, e)
         \/ d \notin I /\ e \in I /\ Accepts(s, t, d, e)
         \/ d \in I /\ Connects(s, t, d, e)
         \/ d \in I /\ Completes(s, t, d, e)
  PROVE  Placed(t, d, I)
<1>1. CASE Calm(s, t, d)
  <2>1. PICK ts : /\ Quiet(s, t, ts, {})
                  /\ \A i \in DOMAIN ts : ts[i].kind = "PING_RESPONSE" /\ ts[i].src = d
    BY <1>1, ZenonT(60) DEF Calm
  <2>2. \A i \in DOMAIN ts : WellSent(ts[i], d, I)
    BY <2>1, ZenonT(60) DEF WellSent
  <2> QED
    BY <1>1, <2>1, <2>2, PlacedQuiet, ZenonT(60) DEF Calm
<1>2. CASE Loses(s, t, e)
  <2>1. PICK h \in Linked(s, e) : Quiet(s, t, <<DisconnectionComplete(h)>>, {h})
    BY <1>2, ZenonT(60) DEF Loses
  <2> DEFINE ts == <<DisconnectionComplete(h)>>
  <2>2. WellSent(DisconnectionComplete(h), d, I)
    BY DEF WellSent, DisconnectionComplete, IsPdu, PduKind, LinkedPdu
  <2>3. \A i \in DOMAIN ts : WellSent(ts[i], d, I)
    BY <2>2
  <2>4. Quiet(s, t, ts, {h})
    BY <2>1, ZenonT(60)
  <2> HIDE DEF ts
  <2> QED
    BY <1>2, <2>3, <2>4, PlacedQuiet, SMTT(30) DEF Loses
<1>3. CASE d \notin I /\ e \in I /\ Accepts(s, t, d, e)
  <2> DEFINE ts == <<Pdu("LE_CONNECT_COMPLETE", d, e)>>
  <2>1. PICK h : Grows(s, t, ts, h, e, d, "PERIPHERAL")
    BY <1>3, ZenonT(60) DEF Accepts
  <2>2. WellSent(Pdu("LE_CONNECT_COMPLETE", d, e), d, I)
    BY <1>3 DEF WellSent, Pdu
  <2>3. \A i \in DOMAIN ts : WellSent(ts[i], d, I)
    BY <2>2
  <2> HIDE DEF ts
  <2> QED
    BY <1>3, <2>1, <2>3, PlacedGrows, ZenonT(60) DEF Accepts
<1>4. CASE d \in I /\ Connects(s, t, d, e)
  <2> DEFINE ts == <<Pdu("LE_CONNECT", d, e)>>
  <2>1. Quiet(s, t, ts, {})
    BY <1>4, ZenonT(60) DEF Connects
  <2>2. WellSent(Pdu("LE_CONNECT", d, e), d, I)
    BY <1>4 DEF WellSent, Pdu
  <2>3. \A i \in DOMAIN ts : WellSent(ts[i], d, I)
    BY <2>2
  <2> HIDE DEF ts
  <2> QED
    BY <1>4, <2>1, <2>3, PlacedQuiet, ZenonT(60)
<1>5. CASE d \in I /\ Completes(s, t, d, e)
  <2>1. PICK h : Grows(s, t, <<>>, h, e, d, "CENTRAL")
    BY <1>5 DEF Completes
  <2>2. \A i \in DOMAIN <<>> : WellSent(<<>>[i], d, I)
    OBVIOUS
  <2> QED
    BY <1>5, <2>1, <2>2, PlacedGrows, ZenonT(60)
<1> QED
  BY <1>1, <1>2, <1>3, <1>4, <1>5, ZenonT(60)

-----------------------------------------------------------------------------
(* The system.                                                             *)

Initiators == {c \in Ctrl : usage.create[c] # {}}

\* An initiator that is connected to the phy and never gives up.
Lasting(c) == c \in phy \ closing /\ c \notin usage.cancellers \cup usage.resetters

MInv ==
  /\ \A c \in Ctrl : Placed(ctl[c], c, Initiators)
  /\ \A c \in Initiators : Lasting(c) =>
       /\ Waits(ctl[c])
       /\ \A d \in Ctrl \ {c} : Match(ctl[c], ctl[d], c, d)

\* The invariant holds initially.
LEMMA InitMInv == Init => MInv
<1> SUFFICES ASSUME Init PROVE MInv
  BY ZenonT(60)
<1> DEFINE s == [advertiser |-> LegacyAdvertiser0, initiator |-> Initiator0,
                 connections |-> NoConnections, last |-> kLeAclRangeStart, ll |-> {},
                 checks |-> [h \in Handles |-> 0], tasks |-> <<>>, host |-> {}]
<1>1. \A c \in Ctrl : ctl[c] = s
  BY DEF Init
<1>2. Connected(s) = {} /\ s.tasks = <<>>
  BY ZenonT(60) DEF Connected, NoConnections
<1>3. /\ s.initiator.pending_connect_request = None
      /\ s.initiator.initiating_address = None
      /\ ~s.initiator.connect_enable
  BY DEF Initiator0
<1> HIDE DEF s
<1>4. \A c : Placed(s, c, Initiators)
  BY <1>2, <1>3 DEF Placed
<1>5. Waits(s)
  BY <1>2, <1>3, ZenonT(60) DEF Waits
<1>6. \A c, d : Match(s, s, c, d)
  BY <1>2 DEF Match, Linked, Holds, NoneAfter, Followed
<1> QED
  BY <1>1, <1>4, <1>5, <1>6 DEF MInv, Initiators

\* The work of one controller.
LEMMA WorksMInv ==
  ASSUME IInv, MInv, UNCHANGED usage, NEW x \in Ctrl, Works(x)
  PROVE  MInv'
<1>0. /\ \A d \in Ctrl : Sound(ctl[d]) /\ Placed(ctl[d], d, Initiators)
      /\ Initiators' = Initiators /\ \A d \in Ctrl : Lasting(d)' => Lasting(d)
      /\ \A d \in Ctrl \ {x} : ctl'[d] = ctl[d]
      /\ ctl'[x] # ctl[x] => OwnStep(ctl[x], ctl'[x], x)
  BY ZenonT(60) DEF IInv, MInv, Initiators, Lasting, Works
<1>1. \A c \in Ctrl : Placed(ctl'[c], c, Initiators)
  BY <1>0, PlacedOwnStep
<1>2. ASSUME NEW c \in Initiators, Lasting(c)
      PROVE  Waits(ctl'[c]) /\ \A d \in Ctrl \ {c} : Match(ctl'[c], ctl'[d], c, d)
  <2>1. c \in Ctrl /\ Waits(ctl[c]) /\ \A d \in Ctrl \ {c} : Match(ctl[c], ctl[d], c, d)
    BY <1>2 DEF MInv, Initiators
  <2>2. CASE x = c
    <3>1. ASSUME NEW d \in Ctrl \ {c} PROVE Waits(ctl'[c]) /\ Match(ctl'[c], ctl'[d], c, d)
      <4>1. CASE ctl'[c] = ctl[c]
        BY <1>0, <2>1, <2>2, <4>1, ZenonT(60)
      <4>2. CASE ctl'[c] # ctl[c]
        BY <1>0, <2>1, <2>2, <4>2, MatchCentralOwn, ZenonT(60)
      <4> QED
        BY <4>1, <4>2, ZenonT(60)
    <3>2. Waits(ctl'[c])
      <4>1. CASE ctl'[c] = ctl[c]
        BY <2>1, <4>1, ZenonT(60)
      <4>2. CASE ctl'[c] # ctl[c]
        <5>1. OwnStep(ctl[c], ctl'[c], c)
          BY <1>0, <2>2, <4>2
        <5>2. /\ ctl'[c].initiator = ctl[c].initiator
              /\ \E ts, gone : Quiet(ctl[c], ctl'[c], ts, gone)
          BY <5>1, ZenonT(60) DEF OwnStep
        <5> QED
          BY <2>1, <5>2, WaitsQuiet, ZenonT(60)
      <4> QED
        BY <4>1, <4>2, ZenonT(60)
    <3> QED
      BY <3>1, <3>2, ZenonT(60)
  <2>3. CASE x # c
    <3>1. ctl'[c] = ctl[c]
      BY <1>0, <2>1, <2>3, ZenonT(60)
    <3>2. ASSUME NEW d \in Ctrl \ {c} PROVE Match(ctl[c], ctl'[d], c, d)
      <4>1. CASE ctl'[d] = ctl[d]
        BY <2>1, <4>1, ZenonT(60)
      <4>2. CASE ctl'[d] # ctl[d]
        <5>1. OwnStep(ctl[d], ctl'[d], d)
          BY <1>0, <4>2, ZenonT(60)
        <5>2. Sound(ctl[d]) /\ Placed(ctl[d], d, Initiators) /\ Match(ctl[c], ctl[d], c, d)
          BY <1>0, <2>1, ZenonT(60)
        <5> QED
          BY <2>1, <5>1, <5>2, MatchPeripheralOwn, ZenonT(60)
      <4> QED
        BY <4>1, <4>2, ZenonT(60)
    <3> QED
      BY <2>1, <3>1, <3>2, ZenonT(60)
  <2> QED
    BY <2>2, <2>3, ZenonT(60)
<1> QED
  BY <1>0, <1>1, <1>2, ZenonT(60) DEF MInv, Initiators

\* Create Connection.
LEMMA CreateMInv ==
  ASSUME IInv, MInv, UNCHANGED usage, \A x, y \in Initiators : x = y,
         NEW c \in Ctrl, NEW p \in usage.create[c], LeCreateConnection(c, p)
  PROVE  MInv'
<1> DEFINE i == [ctl[c].initiator EXCEPT !.connect_enable = TRUE, !.peer = p.peer,
                                         !.listed = p.listed,
                                         !.pending_connect_request = None]
           s == ctl[c]
           t == [s EXCEPT !.initiator = i]
<1>0. /\ \A d \in Ctrl : Sound(ctl[d]) /\ Placed(ctl[d], d, Initiators)
      /\ Initiators' = Initiators /\ \A d \in Ctrl : Lasting(d)' => Lasting(d)
      /\ ctl = [d \in Ctrl |-> ctl[d]] /\ DOMAIN ctl = Ctrl /\ c \in Initiators
  BY ZenonT(60) DEF IInv, MInv, Initiators, Lasting, LeCreateConnection
<1>1. ctl' = [ctl EXCEPT ![c] = t]
  BY DEF LeCreateConnection
<1>2. i.pending_connect_request = None /\ i.peer = p.peer /\ i.listed = p.listed
  BY <1>0 DEF Sound, Controller, Initiator
<1> HIDE DEF i
<1>3. t.tasks = s.tasks /\ t.connections = s.connections /\ t.host = s.host /\ t.initiator = i
  BY <1>0 DEF Sound, Controller
<1> HIDE DEF t
<1>4. ctl'[c] = t /\ \A d \in Ctrl \ {c} : ctl'[d] = ctl[d]
  BY <1>0, <1>1, ZenonT(60)
<1>5. Connected(t) = Connected(s) /\ \A d : Linked(t, d) = Linked(s, d)
  BY <1>3, ZenonT(60) DEF Connected, Linked
<1>6. Placed(t, c, Initiators)
  BY <1>0, <1>3, <1>5, SMTT(60) DEF Placed
<1>7. ASSUME Lasting(c) PROVE Waits(t) /\ \A d \in Ctrl \ {c} : Match(t, ctl[d], c, d)
  <2>1. Waits(s) /\ \A d \in Ctrl \ {c} : Match(s, ctl[d], c, d)
    BY <1>0, <1>7, ZenonT(60) DEF MInv
  <2>2. Waits(t)
    <3>1. \A h \in Connected(s) : s.connections[h].address # p.peer /\ ~p.listed
      BY DEF LeCreateConnection, HostMayInitiate
    <3> QED
      BY <1>2, <1>3, <1>5, <3>1, SMTT(30) DEF Waits
  <2>3. ASSUME NEW d \in Ctrl \ {c} PROVE Match(t, ctl[d], c, d)
    <3>1. s.initiator.pending_connect_request = None
      BY <2>1 DEF Waits, LeCreateConnection
    <3>2. s.initiator.pending_connect_request # d
      BY <3>1, NoneAssumption, ZenonT(60)
    <3>3. s.tasks \in Seq(Task) /\ t.tasks = s.tasks \o <<>> /\ <<>> \in Seq(Task)
      BY <1>0, <1>3, SMTT(60) DEF Sound, Controller
    <3>4. ~Holds(<<>>, Pdu("LE_CONNECT", c, d)) /\ ~Holds(<<>>, Pdu("DISCONNECT", c, d))
      BY DEF Holds
    <3>5. Linked(t, d) \subseteq Linked(s, d) /\ Sound(s) /\ Match(s, ctl[d], c, d)
      BY <1>0, <1>5, <2>1
    <3> QED
      BY <3>2, <3>3, <3>4, <3>5, MatchCentralQuiet, ZenonT(60)
  <2> QED
    BY <2>2, <2>3
<1> QED
  BY <1>0, <1>4, <1>6, <1>7, SMTT(30) DEF MInv

\* The others, where a lasting initiator only sees an advertiser go.
LEMMA EndsMInv ==
  ASSUME IInv, MInv, UNCHANGED usage, \A x, y \in Initiators : x = y, NEW x \in Ctrl,
         LeCreateConnectionCancel(x) \/ Reset(x) \/ Close(x) \/ RemoveDevice(x)
  PROVE  MInv'
<1>0. /\ \A d \in Ctrl : Sound(ctl[d]) /\ Placed(ctl[d], d, Initiators)
      /\ Initiators' = Initiators /\ Initiators \subseteq Ctrl
      /\ ctl = [d \in Ctrl |-> ctl[d]] /\ DOMAIN ctl = Ctrl
  BY ZenonT(60) DEF IInv, MInv, Initiators
<1>a. \A c \in Initiators : Lasting(c) => \A d \in Ctrl \ {c} : Match(ctl[c], ctl[d], c, d)
  BY DEF MInv
<1>1. CASE LeCreateConnectionCancel(x)
  <2> DEFINE s == ctl[x]
             i == [s.initiator EXCEPT !.connect_enable = FALSE]
             t == [s EXCEPT !.initiator = i]
             u == SendTasks(t, <<CreateConnectionCancelled>>)
  <2>1. ctl' = [ctl EXCEPT ![x] = u] /\ x \in usage.cancellers /\ s.initiator.connect_enable
    BY <1>1 DEF LeCreateConnectionCancel
  <2>2. x \in Initiators
    BY <1>0, <2>1 DEF Placed
  <2>3. i \in Initiator
    <3>1. s.initiator \in Initiator
      BY <1>0 DEF Sound, Controller
    <3> QED
      BY <3>1, ZenonT(60) DEF Initiator
  <2> HIDE DEF i
  <2>4. Sound(t)
    BY <1>0, <2>3, InitiatorSound
  <2>5. t.tasks = s.tasks /\ t.connections = s.connections
    BY <1>0, SMTT(60) DEF Sound, Controller
  <2> HIDE DEF t
  <2>6. Placed(t, x, Initiators)
    BY <1>0, <2>2, <2>5 DEF Placed, Connected
  <2>7. Quiet(t, u, <<CreateConnectionCancelled>>, {})
    BY <2>4, TaskType, SendTasksQuiet, ZenonT(60)
  <2>8. \A j \in DOMAIN <<CreateConnectionCancelled>> :
          WellSent(<<CreateConnectionCancelled>>[j], x, Initiators)
    BY DEF WellSent, CreateConnectionCancelled, IsPdu, PduKind, LinkedPdu
  <2> HIDE DEF u
  <2>9. Placed(u, x, Initiators)
    BY <2>2, <2>4, <2>6, <2>7, <2>8, PlacedQuiet, ZenonT(60)
  <2>10. \A d \in Ctrl : Placed(ctl'[d], d, Initiators)
    BY <1>0, <2>1, <2>9, ZenonT(60)
  <2>11. \A c \in Initiators : ~Lasting(c)'
    BY <2>1, <2>2, ZenonT(60) DEF Lasting
  <2> QED
    BY <1>0, <2>10, <2>11 DEF MInv
<1>2. ASSUME NEW t \in {DisconnectAll(ctl[x]), ResetController(ctl[x])},
             ctl' = [ctl EXCEPT ![x] = t], phy' = phy, closing \subseteq closing',
             ~Lasting(x)'
      PROVE  MInv'
  <2>1. Placed(t, x, Initiators)
    BY <1>0, <1>2, PlacedDisconnectAll, ZenonT(60)
  <2>2. ctl'[x] = t /\ \A d \in Ctrl \ {x} : ctl'[d] = ctl[d]
    BY <1>0, <1>2, ZenonT(60)
  <2>3. ASSUME NEW c \in Initiators, Lasting(c)'
        PROVE  Waits(ctl'[c]) /\ \A d \in Ctrl \ {c} : Match(ctl'[c], ctl'[d], c, d)
    <3>1. x # c /\ Lasting(c) /\ c \in Ctrl
      BY <1>0, <1>2, <2>3, ZenonT(60) DEF Lasting
    <3>2. Waits(ctl'[c]) /\ ctl'[c] = ctl[c]
      BY <2>2, <3>1, ZenonT(60) DEF MInv
    <3>3. x # c => Match(ctl[c], t, c, x)
      BY <1>0, <1>2, <1>a, <3>1, MatchPeripheralEnds, SMTT(60)
    <3> QED
      BY <1>a, <2>2, <3>1, <3>2, <3>3, ZenonT(60)
  <2> QED
    BY <1>0, <2>1, <2>2, <2>3, ZenonT(60) DEF MInv
<1>3. CASE Reset(x)
  BY <1>2, <1>3, ZenonT(60) DEF Reset, Lasting
<1>4. CASE Close(x)
  BY <1>2, <1>4, ZenonT(60) DEF Close, Lasting
<1>5. CASE RemoveDevice(x)
  <2>1. ctl' = ctl /\ \A c \in Ctrl : Lasting(c)' => Lasting(c)
    BY <1>5, ZenonT(60) DEF RemoveDevice, Lasting
  <2> QED
    BY <1>0, <2>1, ZenonT(60) DEF MInv
<1> QED
  BY <1>1, <1>3, <1>4, <1>5, ZenonT(60)

\* The state of a controller whose first task has run.
LEMMA PoppedFields ==
  ASSUME NEW s, Sound(s), s.tasks # <<>>, NEW c, NEW I, Placed(s, c, I), NEW t,
         t.tasks = Tail(s.tasks), t.connections = s.connections, t.initiator = s.initiator
  PROVE  /\ Placed(t, c, I)
         /\ Waits(s) => Waits(t)
         /\ \A p : Linked(t, p) = Linked(s, p)
         /\ WellSent(Head(s.tasks), c, I)
<1>1. s.tasks \in Seq(Task)
  BY ZenonT(60) DEF Sound, Controller
<1>2. Connected(t) = Connected(s)
  BY ZenonT(60) DEF Connected
<1>3. \A i \in DOMAIN Tail(s.tasks) : WellSent(Tail(s.tasks)[i], c, I)
  BY <1>1, TailIndices, ZenonT(60) DEF Placed
<1>4. WellSent(Head(s.tasks), c, I)
  BY <1>1, TailIndices, ZenonT(60) DEF Placed
<1> QED
  BY <1>2, <1>3, <1>4, ZenonT(60) DEF Placed, Waits, Linked

\* A deferred event is sent.
LEMMA SendEventMInv ==
  ASSUME IInv, MInv, UNCHANGED usage, SendEvent
  PROVE  MInv'
<1>0. /\ \A d \in Ctrl : Sound(ctl[d]) /\ Placed(ctl[d], d, Initiators)
      /\ Initiators' = Initiators /\ Initiators \subseteq Ctrl
      /\ \A d \in Ctrl : Lasting(d)' => Lasting(d)
      /\ ctl = [d \in Ctrl |-> ctl[d]] /\ DOMAIN ctl = Ctrl
  BY ZenonT(60) DEF IInv, MInv, Initiators, Lasting, SendEvent
<1> DEFINE x == ticking
           s == ctl[x]
           ho == IF Head(s.tasks).kind = "DISCONNECTION_COMPLETE"
                 THEN s.host \ {Head(s.tasks).handle} ELSE s.host
           t == [s EXCEPT !.tasks = Tail(@), !.host = ho]
<1>1. x \in Ctrl /\ s.tasks \in Seq(Task) /\ s.tasks # <<>>
  <2>1. x \in Ctrl /\ due > 0 /\ due \in Nat /\ due <= Len(ctl[x].tasks)
    BY DEF SendEvent, IInv
  <2> QED
    BY <1>0, <2>1 DEF Sound, Controller
<1>2. ctl' = [ctl EXCEPT ![x] = t] /\ ~IsPdu(Head(s.tasks))
  BY DEF SendEvent
<1> HIDE DEF ho
<1>3. t.tasks = Tail(s.tasks) /\ t.connections = s.connections /\ t.initiator = s.initiator
  BY <1>0, <1>1, ZenonT(60) DEF Sound, Controller
<1> HIDE DEF t
<1>4. /\ Placed(t, x, Initiators) /\ (Waits(s) => Waits(t))
      /\ \A p : Linked(t, p) = Linked(s, p)
  BY <1>0, <1>1, <1>3, PoppedFields, ZenonT(60)
<1>5. ctl'[x] = t /\ \A d \in Ctrl \ {x} : ctl'[d] = ctl[d]
  BY <1>0, <1>1, <1>2, ZenonT(60)
<1>6. ASSUME NEW c \in Initiators, Lasting(c), NEW d \in Ctrl \ {c}
      PROVE  Match(ctl'[c], ctl'[d], c, d)
  <2>1. c \in Ctrl /\ Match(ctl[c], ctl[d], c, d)
    BY <1>0, <1>6, ZenonT(60) DEF MInv
  <2>2. CASE x = c
    <3>1. CentralPopped(s, ctl[d], t, c, d)
      BY <1>0, <1>1, <1>3, <1>4, <2>1, <2>2, MatchCentralPops, ZenonT(60)
    <3> QED
      BY <1>5, <2>2, <3>1, ZenonT(60) DEF CentralPopped
  <2>3. CASE x = d
    <3>1. Head(s.tasks) # Pdu("DISCONNECT", d, c)
      BY <1>2, SMTT(60) DEF Pdu, IsPdu, PduKind, LinkedPdu
    <3>2. Match(ctl[c], t, c, d)
      BY <1>0, <1>1, <1>3, <1>4, <2>1, <2>3, <3>1, MatchPeripheralPops, ZenonT(60)
    <3> QED
      BY <1>5, <2>1, <2>3, <3>2, ZenonT(60)
  <2>4. CASE x # c /\ x # d
    BY <1>5, <2>1, <2>4, SMTT(60)
  <2> QED
    BY <2>2, <2>3, <2>4, ZenonT(60)
<1>7. \A c \in Initiators : Lasting(c) => Waits(ctl'[c])
  BY <1>0, <1>4, <1>5, ZenonT(60) DEF MInv
<1> QED
  BY <1>0, <1>4, <1>5, <1>6, <1>7, ZenonT(60) DEF MInv

\* A packet is sent by x and handled by the others.
LEMMA SendPacketMInv ==
  ASSUME IInv, MInv, UNCHANGED usage, \A y, z \in Initiators : y = z, SendPacket
  PROVE  MInv'
<1> DEFINE I == Initiators
           x == ticking
           p == Head(ctl[x].tasks)
           s == [ctl[x] EXCEPT !.tasks = Tail(@)]
<1>0. /\ \A d \in Ctrl : Sound(ctl[d]) /\ Placed(ctl[d], d, I)
      /\ Initiators' = I /\ I \subseteq Ctrl
      /\ \A d \in Ctrl : Lasting(d)' => Lasting(d)
      /\ \A y, z \in I : y = z
  BY ZenonT(60) DEF IInv, MInv, Initiators, Lasting, SendPacket
<1>1. x \in Ctrl /\ ctl[x].tasks \in Seq(Task) /\ ctl[x].tasks # <<>> /\ p \in Task
  <2>1. x \in Ctrl /\ due > 0 /\ due \in Nat /\ due <= Len(ctl[x].tasks)
    BY ZenonT(60) DEF SendPacket, IInv
  <2>2. Sound(ctl[x]) /\ ctl[x].tasks \in Seq(Task)
    BY <1>0, <2>1 DEF Sound, Controller
  <2> QED
    BY <2>1, <2>2
<1>2. PICK found \in [Ctrl -> Handles \cup {None}] :
        /\ \A d \in Ctrl : found[d] \in Lookup(ctl[d], p)
        /\ ctl' = [d \in Ctrl |->
                     CASE d = x -> s
                       [] d \in phy \ {x} -> IncomingPacket(ctl[d], d, p, found[d])
                       [] OTHER -> ctl[d]]
  BY ZenonT(60) DEF SendPacket
<1>3. IsPdu(p) /\ \A d \in phy \ {x} : CanHandle(ctl[d], d, p)
  BY DEF SendPacket
<1>4. s.tasks = Tail(ctl[x].tasks) /\ s.connections = ctl[x].connections
      /\ s.initiator = ctl[x].initiator
  BY <1>0, <1>1 DEF Sound, Controller
<1> HIDE DEF s
<1>5. /\ Placed(s, x, I) /\ (Waits(ctl[x]) => Waits(s))
      /\ \A q : Linked(s, q) = Linked(ctl[x], q)
      /\ WellSent(p, x, I)
  <2>1. Sound(ctl[x]) /\ Placed(ctl[x], x, I)
    BY <1>0, <1>1
  <2> QED
    BY <1>1, <1>4, <2>1, PoppedFields, ZenonT(60)
<1>6. ctl'[x] = s
  BY <1>1, <1>2, ZenonT(60)
<1> HIDE DEF I, p
<1>7. ASSUME NEW d \in Ctrl, d # x
      PROVE  \/ /\ Calm(ctl[d], ctl'[d], d)
                /\ d \in phy =>
                     /\ p = Pdu("DISCONNECT", x, d) => Linked(ctl[d], x) = {}
                     /\ p.kind = "LE_CONNECT_COMPLETE" /\ d \in I =>
                          ctl[d].initiator.pending_connect_request # x
             \/ p = Pdu("DISCONNECT", x, d) /\ Loses(ctl[d], ctl'[d], x)
             \/ d \notin I /\ p = Pdu("LE_CONNECT", x, d) /\ Accepts(ctl[d], ctl'[d], d, x)
             \/ d \in I /\ p.kind = "ADV" /\ Connects(ctl[d], ctl'[d], d, x)
             \/ d \in I /\ p = Pdu("LE_CONNECT_COMPLETE", x, d) /\ Completes(ctl[d], ctl'[d], d, x)
  <2>0. Sound(ctl[d]) /\ Placed(ctl[d], d, I) /\ found[d] \in Lookup(ctl[d], p)
    BY <1>0, <1>2
  <2>1. CASE d \in phy
    <3>1. ctl'[d] = IncomingPacket(ctl[d], d, p, found[d])
      BY <1>2, <1>7, <2>1, ZenonT(60)
    <3>2. CanHandle(ctl[d], d, p)
      BY <1>3, <1>7, <2>1, ZenonT(60)
    <3> DEFINE u == ctl[d]
               t == ctl'[d]
               h == found[d]
    <3>3. /\ \A y, z \in I : y = z
          /\ Sound(u) /\ Placed(u, d, I) /\ p \in Task /\ IsPdu(p) /\ WellSent(p, x, I) /\ x # d
          /\ CanHandle(u, d, p) /\ h \in Lookup(u, p) /\ t = IncomingPacket(u, d, p, h) /\ x \in Ctrl
      BY <1>0, <1>1, <1>3, <1>5, <1>7, <2>0, <3>1, <3>2, ZenonT(60)
    <3> HIDE <1>2
    <3> HIDE DEF u, t, h
    <3>4. \/ /\ Calm(u, t, d)
             /\ p = Pdu("DISCONNECT", x, d) => Linked(u, x) = {}
             /\ p.kind = "LE_CONNECT_COMPLETE" /\ d \in I => u.initiator.pending_connect_request # x
          \/ p = Pdu("DISCONNECT", x, d) /\ Loses(u, t, x)
          \/ d \notin I /\ p = Pdu("LE_CONNECT", x, d) /\ Accepts(u, t, d, x)
          \/ d \in I /\ p.kind = "ADV" /\ Connects(u, t, d, x)
          \/ d \in I /\ p = Pdu("LE_CONNECT_COMPLETE", x, d) /\ Completes(u, t, d, x)
      BY <3>3, Received, SMTT(60)
    <3> QED
      BY <3>4, ZenonT(60) DEF u, t
  <2>2. CASE d \notin phy
    <3>1. ctl'[d] = ctl[d]
      BY <1>2, <1>7, <2>2, ZenonT(60)
    <3>2. Calm(ctl[d], ctl[d], d)
      BY <2>0, CalmSelf, ZenonT(60)
    <3> QED
      BY <2>2, <3>1, <3>2, ZenonT(60)
  <2> QED
    BY <2>1, <2>2, ZenonT(60)
<1> HIDE <1>2
<1>8. ASSUME NEW d \in Ctrl
      PROVE  Placed(ctl'[d], d, I)
  <2>1. CASE d = x
    BY <1>5, <1>6, <2>1, ZenonT(60)
  <2>2. CASE d # x
    <3>1. p = Pdu("LE_CONNECT", x, d) => x \in I
      BY <1>5, SMTT(60) DEF WellSent, Pdu
    <3> QED
      BY <1>0, <1>1, <1>7, <2>2, <3>1, PlacedReceives, ZenonT(60)
  <2> QED
    BY <2>1, <2>2
<1>a. \A y, z, v, w : /\ Pdu("LE_CONNECT_COMPLETE", y, z) # Pdu("DISCONNECT", v, w)
                      /\ Pdu("LE_CONNECT_COMPLETE", y, z).kind = "LE_CONNECT_COMPLETE"
                      /\ Pdu("LE_CONNECT", y, z).kind = "LE_CONNECT"
                      /\ Pdu("DISCONNECT", y, z).kind = "DISCONNECT"
  BY DEF Pdu
<1>9. ASSUME NEW c \in I, Lasting(c), NEW d \in Ctrl \ {c}
      PROVE  Waits(ctl'[c]) /\ Match(ctl'[c], ctl'[d], c, d)
  <2>0. /\ c \in Ctrl /\ c \in phy /\ d \notin I /\ d # c /\ d \in Ctrl
        /\ Waits(ctl[c]) /\ \A e \in Ctrl \ {c} : Match(ctl[c], ctl[e], c, e)
        /\ Sound(ctl[c]) /\ Sound(ctl[d])
    BY <1>0, <1>9, ZenonT(60) DEF MInv, Lasting, I
  <2>1. CASE x = c
    <3>1. /\ Match(s, ctl[d], c, d)
          /\ p = Pdu("LE_CONNECT", c, d) =>
               /\ s.initiator.pending_connect_request = d /\ Linked(s, d) = {}
               /\ ~Holds(s.tasks, Pdu("LE_CONNECT", c, d))
               /\ ~Holds(s.tasks, Pdu("DISCONNECT", c, d))
               /\ ~Holds(ctl[d].tasks, Pdu("LE_CONNECT_COMPLETE", d, c))
          /\ p = Pdu("DISCONNECT", c, d) =>
               /\ Linked(s, d) = {}
               /\ ~Holds(ctl[d].tasks, Pdu("LE_CONNECT_COMPLETE", d, c))
      <4>1. /\ Match(ctl[c], ctl[d], c, d) /\ Sound(ctl[c]) /\ ctl[c].tasks # <<>>
            /\ s.tasks = Tail(ctl[c].tasks) /\ Linked(s, d) = Linked(ctl[c], d)
            /\ s.initiator = ctl[c].initiator
        BY <1>1, <1>4, <1>5, <2>0, <2>1, ZenonT(60)
      <4>2. p = Head(ctl[c].tasks)
        BY <2>1, ZenonT(60) DEF p
      <4> DEFINE a == ctl[c]
                 b == ctl[d]
      <4>3. /\ Match(a, b, c, d) /\ Sound(a) /\ a.tasks # <<>> /\ s.tasks = Tail(a.tasks)
            /\ Linked(s, d) = Linked(a, d) /\ s.initiator = a.initiator
        BY <4>1, ZenonT(60)
      <4> HIDE DEF a, b
      <4>4. CentralPopped(a, b, s, c, d)
        BY <4>3, MatchCentralPops, ZenonT(60)
      <4> QED
        BY <4>2, <4>4, ZenonT(60) DEF CentralPopped, a, b
    <3>2. \/ Calm(ctl[d], ctl'[d], d)
          \/ p = Pdu("DISCONNECT", c, d) /\ Loses(ctl[d], ctl'[d], c)
          \/ p = Pdu("LE_CONNECT", c, d) /\ Accepts(ctl[d], ctl'[d], d, c)
      BY <1>7, <2>0, <2>1, ZenonT(60)
    <3>3. Match(s, ctl'[d], c, d)
      BY <2>0, <3>1, <3>2, MatchPeripheralReceives, ZenonT(60)
    <3> QED
      BY <1>5, <1>6, <2>0, <2>1, <3>3, ZenonT(60)
  <2>2. CASE x = d
    <3> DEFINE a == ctl[c]
               u == ctl'[c]
    <3>0. /\ Match(a, ctl[d], c, d) /\ c # x
          /\ ctl[d].tasks # <<>> /\ s.tasks = Tail(ctl[d].tasks) /\ Linked(s, c) = Linked(ctl[d], c)
          /\ p = Head(ctl[d].tasks)
      BY <1>1, <1>4, <1>5, <2>0, <2>2, ZenonT(60) DEF p
    <3>1. \/ /\ Calm(a, u, c)
             /\ p = Pdu("DISCONNECT", d, c) => Linked(a, d) = {}
             /\ p.kind = "LE_CONNECT_COMPLETE" => a.initiator.pending_connect_request # d
          \/ p = Pdu("DISCONNECT", d, c) /\ Loses(a, u, d)
          \/ p.kind = "ADV" /\ Connects(a, u, c, d)
          \/ p = Pdu("LE_CONNECT_COMPLETE", d, c) /\ Completes(a, u, c, d)
      BY <1>7, <1>9, <2>0, <2>2, ZenonT(60)
    <3> HIDE DEF a, u
    <3>2. CASE p = Pdu("LE_CONNECT_COMPLETE", d, c)
      <4>1. Holds(ctl[d].tasks, p)
        <5>1. ctl[d].tasks \in Seq(Task)
          BY <1>1, <2>2, ZenonT(60)
        <5> QED
          BY <3>0, <5>1, TailIndices, ZenonT(60) DEF Holds
      <4>2. a.initiator.pending_connect_request = d
        BY <3>0, <3>2, <4>1, ZenonT(60) DEF Match
      <4>3. Completes(a, u, c, d)
        BY <1>a, <3>1, <3>2, <4>2, ZenonT(60)
      <4>4. PICK h : Grows(a, u, <<>>, h, d, c, "CENTRAL")
        BY <4>3 DEF Completes
      <4>5. u.tasks = a.tasks
        <5>1. a.tasks \in Seq(Task) /\ u.tasks = a.tasks \o <<>>
          BY <2>0, <4>4, ZenonT(60) DEF Grows, Sound, Controller, a
        <5> QED
          BY <5>1, SMTT(60)
      <4>6. Linked(u, d) = Linked(a, d) \cup {h}
        BY <4>4, LinkedGrows
      <4>7. Match(u, s, c, d)
        BY <2>0, <3>0, <3>2, <4>5, <4>6, MatchCompletes, ZenonT(60)
      <4>8. Waits(u)
        BY <4>3, ZenonT(60) DEF Completes, Waits
      <4> QED
        BY <1>6, <2>2, <4>7, <4>8, ZenonT(60) DEF u
    <3>3. CASE p # Pdu("LE_CONNECT_COMPLETE", d, c)
      <4>1. Waits(u) /\ Match(u, ctl[d], c, d)
        BY <2>0, <3>0, <3>1, <3>3, MatchCentralReceives, ZenonT(60) DEF a
      <4>2. p = Pdu("DISCONNECT", d, c) => Linked(u, d) = {}
        <5>1. SUFFICES ASSUME p = Pdu("DISCONNECT", d, c)
                       PROVE  Linked(u, d) = {}
          BY ZenonT(60)
        <5>2. CASE Calm(a, u, c) /\ Linked(a, d) = {}
          BY <5>2, LinkedKept, ZenonT(60) DEF Calm
        <5>3. CASE Loses(a, u, d)
          <6>1. PICK h \in Linked(a, d) : Quiet(a, u, <<DisconnectionComplete(h)>>, {h})
            BY <5>3, ZenonT(60) DEF Loses
          <6>2. Linked(u, d) = Linked(a, d) \ {h}
            BY <6>1, LinkedQuiet
          <6>3. \A g, k \in Linked(a, d) : g = k
            BY <3>0, ZenonT(60) DEF Match
          <6> QED
            BY <6>1, <6>2, <6>3, ZenonT(60)
        <5> QED
          BY <1>a, <3>1, <5>1, <5>2, <5>3, ZenonT(60)
      <4>3. Match(u, s, c, d)
        BY <2>0, <3>0, <4>1, <4>2, MatchPeripheralPops, ZenonT(60)
      <4> QED
        BY <1>6, <2>2, <4>1, <4>3, ZenonT(60) DEF u
    <3> QED
      BY <3>2, <3>3, ZenonT(60)
  <2>3. CASE x # c /\ x # d
    <3>1. \/ Calm(ctl[c], ctl'[c], c)
          \/ Loses(ctl[c], ctl'[c], x)
          \/ Connects(ctl[c], ctl'[c], c, x)
          \/ p = Pdu("LE_CONNECT_COMPLETE", x, c) /\ Completes(ctl[c], ctl'[c], c, x)
      BY <1>7, <1>9, <2>0, <2>3, ZenonT(60)
    <3>2. p = Pdu("LE_CONNECT_COMPLETE", x, c) => ctl[c].initiator.pending_connect_request = x
      <4>1. Holds(ctl[x].tasks, p)
        BY <1>1, TailIndices, ZenonT(60) DEF Holds, p
      <4>2. Match(ctl[c], ctl[x], c, x)
        BY <1>1, <2>0, <2>3, ZenonT(60)
      <4> QED
        BY <4>1, <4>2, ZenonT(60) DEF Match
    <3>3. Match(ctl[c], ctl[d], c, d) /\ x \in Ctrl
      BY <1>1, <2>0, ZenonT(60)
    <3>4. Waits(ctl'[c]) /\ Match(ctl'[c], ctl[d], c, d)
      BY <2>0, <2>3, <3>1, <3>2, <3>3, MatchCentralReceives, ZenonT(60)
    <3>5. p = Pdu("LE_CONNECT", x, d) => FALSE
      BY <1>0, <1>5, <1>9, <1>a, <2>3, ZenonT(60) DEF WellSent
    <3>6. Calm(ctl[d], ctl'[d], d) \/ Loses(ctl[d], ctl'[d], x)
      BY <1>7, <2>0, <2>3, <3>5, ZenonT(60)
    <3>7. Match(ctl'[c], ctl'[d], c, d)
      BY <2>0, <2>3, <3>3, <3>4, <3>6, MatchPeripheralReceives, ZenonT(60)
    <3> QED
      BY <3>4, <3>7, ZenonT(60)
  <2> QED
    BY <2>1, <2>2, <2>3, ZenonT(60)
<1>b. ASSUME NEW c \in I, Lasting(c)
      PROVE  Waits(ctl'[c])
  <2>1. CASE x = c
    BY <1>5, <1>6, <1>b, <2>1, ZenonT(60) DEF MInv, I
  <2>2. CASE x # c
    BY <1>1, <1>9, <1>b, <2>2, ZenonT(60)
  <2> QED
    BY <2>1, <2>2, ZenonT(60)
<1> QED
  BY <1>0, <1>8, <1>9, <1>b, ZenonT(60) DEF MInv, I

\* At most one host creates connections.  (Of two initiators of one advertiser the
\* loser may take the other's LE_CONNECT_COMPLETE, le_controller.cc:5835; and two
\* that connect to each other have two connections that packets cannot tell apart.)
OneInitiator == \A x, y \in Initiators : x = y

\* Every step preserves the invariant when one host creates connections.
LEMMA NextMInv ==
  ASSUME IInv, OneInitiator => MInv, [Next]_vars
  PROVE  (OneInitiator => MInv)'
<1>1. CASE UNCHANGED vars
  BY <1>1, ZenonT(60) DEF vars, OneInitiator, MInv, Initiators, Lasting
<1>2. CASE Next
  <2>1. UNCHANGED usage
    BY <1>2 DEF Next
  <2>2. OneInitiator' => OneInitiator
    BY <2>1 DEF OneInitiator, Initiators
  <2>3. SUFFICES ASSUME OneInitiator, MInv PROVE MInv'
    BY <2>2
  <2>4. \A x, y \in Initiators : x = y
    BY <2>3, ZenonT(60) DEF OneInitiator
  <2> QED
    BY <1>2, <2>1, <2>3, <2>4, NextCases, WorksMInv, CreateMInv, EndsMInv, SendEventMInv,
       SendPacketMInv, ZenonT(60)
<1> QED
  BY <1>1, <1>2

\* The invariant when nothing is queued.
LEMMA MInvMatched ==
  ASSUME IInv, MInv, OneInitiator
  PROVE  CentralsMatched
<1> SUFFICES ASSUME \A c \in phy : ctl[c].tasks = <<>>,
                    NEW c \in phy \ (closing \cup usage.cancellers \cup usage.resetters),
                    NEW d \in phy, c # d
             PROVE  Cardinality(Links(c, "CENTRAL", d)) <= Cardinality(Links(d, "PERIPHERAL", c))
  BY ZenonT(60) DEF CentralsMatched
<1>0. /\ c \in Ctrl /\ d \in Ctrl /\ ctl[c].tasks = <<>> /\ ctl[d].tasks = <<>>
      /\ Placed(ctl[c], c, Initiators) /\ Placed(ctl[d], d, Initiators)
      /\ Links(c, "CENTRAL", d) \subseteq Linked(ctl[c], d)
      /\ Links(c, "CENTRAL", d) \subseteq Handles /\ Links(d, "PERIPHERAL", c) \subseteq Handles
  BY ZenonT(60) DEF IInv, MInv, Links, Linked, Connected
<1>1. IsFiniteSet(Handles)
  BY RangeAssumption, FS_Interval DEF Handles
<1>2. /\ IsFiniteSet(Links(c, "CENTRAL", d)) /\ IsFiniteSet(Links(d, "PERIPHERAL", c))
      /\ Cardinality(Links(c, "CENTRAL", d)) \in Nat /\ Cardinality(Links(d, "PERIPHERAL", c)) \in Nat
  BY <1>0, <1>1, FS_Subset, FS_CardinalityType, ZenonT(60)
<1>3. CASE Links(c, "CENTRAL", d) = {}
  BY <1>2, <1>3, FS_EmptySet, SMTT(60)
<1>4. CASE Links(c, "CENTRAL", d) # {}
  <2>1. PICK h : h \in Links(c, "CENTRAL", d)
    BY <1>4, ZenonT(60)
  <2>2. c \in Initiators
    BY <1>0, <2>1, ZenonT(60) DEF Placed, Links
  <2>3. Match(ctl[c], ctl[d], c, d)
    BY <1>0, <2>2, ZenonT(60) DEF MInv, Lasting
  <2>4. Links(c, "CENTRAL", d) = {h}
    BY <1>0, <2>1, <2>3, ZenonT(60) DEF Match
  <2>5. PICK g : g \in Linked(ctl[d], c)
    <3>1. ~Holds(<<>>, Pdu("DISCONNECT", d, c))
      BY SMTT(60) DEF Holds
    <3> QED
      BY <1>0, <2>1, <2>3, <3>1, ZenonT(60) DEF Match
  <2>6. g \in Links(d, "PERIPHERAL", c)
    BY <1>0, <2>2, <2>5, ZenonT(60) DEF OneInitiator, Placed, Linked, Links
  <2> DEFINE n == Cardinality(Links(d, "PERIPHERAL", c))
  <2>7. n \in Nat /\ n # 0
    BY <1>2, <2>6, FS_EmptySet
  <2>8. Cardinality(Links(c, "CENTRAL", d)) = 1
    BY <2>4, FS_Singleton, ZenonT(60)
  <2> HIDE DEF n
  <2>9. 1 <= n
    BY <2>7
  <2> QED
    BY <2>8, <2>9, ZenonT(60) DEF n
<1> QED
  BY <1>3, <1>4, ZenonT(60)

\* A connection of the central always has its peripheral counterpart once everything
\* sent is delivered: LE_CONNECT, LE_CONNECT_COMPLETE and DISCONNECT, deferred by two
\* controllers and crossing each other, are never reordered so as to leave a central
\* alone (IncomingLeConnectPacket, IncomingLeConnectCompletePacket,
\* IncomingLeDisconnectPacket, CheckExpiringConnection), for any number of advertisers
\* and any handle range.  One controller initiates: of two initiators the loser may
\* take the other's LE_CONNECT_COMPLETE (le_controller.cc:5835).
THEOREM CentralsAlwaysMatched == Spec => [](OneInitiator => CentralsMatched)
<1>1. Init => (OneInitiator => MInv)
  BY InitMInv
<1>2. (OneInitiator => MInv) /\ IInv /\ [Next]_vars => (OneInitiator => MInv)'
  BY NextMInv
<1>3. (OneInitiator => MInv) /\ IInv => (OneInitiator => CentralsMatched)
  BY MInvMatched
<1> QED
  BY <1>1, <1>2, <1>3, SpecIInv, PTL DEF Spec

=============================================================================
