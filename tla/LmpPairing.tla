------------------------------ MODULE LmpPairing ------------------------------
(***************************************************************************)
(* The BR/EDR link managers of two connected controllers: authentication,  *)
(* legacy and secure simple pairing, encryption and feature exchange.      *)
(*                                                                         *)
(* A link runs five procedures, asynchronous functions that Tick polls in  *)
(* turn.  They share the queue of received LMP packets and the one slot    *)
(* for an HCI command: a procedure takes the packet at the head of the     *)
(* queue when it is of a kind it waits for, and the packet stays there     *)
(* otherwise.  A procedure is the sequence of operations that it still has *)
(* to do ("todo") and a few values; its last operation may be a Do, which  *)
(* continues according to what was received.                               *)
(*                                                                         *)
(* Keys, nonces and commitments are constants in the code and left out.    *)
(* An HCI command is answered when it is taken from the slot.              *)
(***************************************************************************)
EXTENDS Naturals, Sequences, FiniteSets, SequencesExt

CONSTANTS
  None,
  Usages,          \* ways in which the hosts use the link
  PASSKEY_ENTRY_REPEAT_NUMBER

Device == {"A", "B"}
Peer(d) == IF d = "A" THEN "B" ELSE "A"
Procedure == {"a", "b", "c", "d", "e"}

(* features: the feature sets that a device may have; io: the I/O           *)
(* parameters that each host replies with; others: the replies other than  *)
(* the positive one that hosts give; initiators and encrypters: the hosts  *)
(* that send Authentication_Requested and Set_Connection_Encryption;       *)
(* overlap: see MayStart.  Bounds: starts, commands of these two kinds per *)
(* host, and drops, disconnections.                                        *)
Usage ==
  [features : SUBSET SUBSET {"SSP", "SC", "SCC"}, io : [Device -> SUBSET STRING],
   others : SUBSET STRING, initiators : SUBSET Device, encrypters : SUBSET Device,
   overlap : {"none", "peer", "own"}, starts : Nat, drops : Nat]

ASSUME UsagesAssumption == Usages \subseteq Usage

VARIABLES
  usage,     \* how the hosts use this link; it does not change
  feature,   \* [Device -> SUBSET {"SSP", "SC", "SCC"}]: SSP and SC on page 1, SCC on page 2
  link,      \* [Device -> the link's slot, queue and procedures]
  host,      \* [Device -> what the host was asked and told]
  drops,     \* disconnections so far
  crashed    \* an assertion around the link manager has failed

vars == <<usage, feature, link, host, drops, crashed>>

-----------------------------------------------------------------------------
(* Operations of the procedures.                                           *)

Send(k, v) == [op |-> "send", kinds |-> {k}, v |-> v]
Event(k, v) == [op |-> "event", kinds |-> {k}, v |-> v]
Lmp(kinds) == [op |-> "lmp", kinds |-> kinds, v |-> ""]
Hci(kinds) == [op |-> "hci", kinds |-> kinds, v |-> ""]
Accepted(opcode) == [op |-> "accepted", kinds |-> {}, v |-> opcode]
Do(label) == [op |-> "do", kinds |-> {}, v |-> label]

Kind(op) == CHOOSE k \in op.kinds : TRUE
Ask(request) == Event(request, "ask")
Accept(opcode) == Send("Accepted", opcode)
SendAccepted(k) == <<Send(k, ""), Accepted(k)>>
Take(k) == <<Lmp({k}), Accept(k)>>
Times(n, ops) == FlattenSeq([i \in 1 .. n |-> ops])

send_challenge == <<Send("AuRand", ""), Lmp({"Sres", "NotAccepted"}), Do("challenged")>>
receive_challenge == <<Lmp({"AuRand"}), Send("Sres", "")>>

Chunks(curve) == IF curve = "P192" THEN 3 ELSE 4
send_public_key(curve) ==
  <<Send("EncapsulatedHeader", curve), Accepted("EncapsulatedHeader")>>
    \o Times(Chunks(curve), SendAccepted("EncapsulatedPayload"))
\* Mutant: three chunks whatever the header says.
receive_public_key_P192(curve) ==
  <<Accept("EncapsulatedHeader")>> \o Times(3, Take("EncapsulatedPayload"))
receive_public_key(curve) ==
  <<Accept("EncapsulatedHeader")>> \o Times(Chunks(curve), Take("EncapsulatedPayload"))

send_commitment == SendAccepted("SimplePairingNumber") \o Take("SimplePairingNumber")
receive_commitment ==
  <<Send("SimplePairingConfirm", "")>> \o Take("SimplePairingNumber")
    \o SendAccepted("SimplePairingNumber")
Confirm == <<Send("SimplePairingConfirm", ""), Lmp({"SimplePairingConfirm"})>>

Request == {"LinkKeyRequest", "PinCodeRequest", "IoCapabilityRequest", "UserConfirmationRequest",
            "UserPasskeyRequest", "RemoteOobDataRequest"}
Reply == [LinkKeyRequest |-> "LinkKeyRequestReply", PinCodeRequest |-> "PinCodeRequestReply",
          IoCapabilityRequest |-> "IoCapabilityRequestReply",
          UserConfirmationRequest |-> "UserConfirmationRequestReply",
          UserPasskeyRequest |-> "UserPasskeyRequestReply",
          RemoteOobDataRequest |-> "RemoteOobDataRequestReply"]
Negative == [LinkKeyRequest |-> "LinkKeyRequestNegativeReply",
             PinCodeRequest |-> "PinCodeRequestNegativeReply",
             IoCapabilityRequest |-> "IoCapabilityRequestNegativeReply",
             UserConfirmationRequest |-> "UserConfirmationRequestNegativeReply",
             UserPasskeyRequest |-> "UserPasskeyRequestNegativeReply",
             RemoteOobDataRequest |-> "RemoteOobDataRequestNegativeReply"]
Refused(got) == \E r \in Request : got = Negative[r]
Awaited(request) ==
  {Reply[request], Negative[request]}
    \cup (IF request = "UserPasskeyRequest" THEN {"SendKeypressNotification"} ELSE {})
AskHost(request) == <<Ask(request), Hci(Awaited(request))>>

-----------------------------------------------------------------------------
(* Authentication method and key type.                                     *)

\* I/O parameters: "<capability>" without, "<capability>!" with MITM protection,
\* "OOB" with out-of-band data present.
has_mitm(io) == io \in {"DisplayYesNo!", "KeyboardOnly!", "DisplayOnly!", "NoInputNoOutput!"}
Keyboard(io) == io \in {"KeyboardOnly", "KeyboardOnly!"}
NoInput(io) == io \in {"NoInputNoOutput", "NoInputNoOutput!"}
YesNo(io) == io \in {"DisplayYesNo", "DisplayYesNo!"}

authentication_method(i, r) ==
  CASE i = "OOB" \/ r = "OOB" -> "OutOfBand"
    [] i # "OOB" /\ r # "OOB" /\ ~has_mitm(i) /\ ~has_mitm(r) -> "JustWork"
    [] OTHER ->
         IF (Keyboard(i) /\ ~NoInput(r)) \/ (Keyboard(r) /\ ~NoInput(i)) THEN "PasskeyEntry"
         ELSE IF YesNo(i) /\ YesNo(r) THEN "UserConfirm" ELSE "JustWork"

link_key_type(method, curve) ==
  IF method = "JustWork" THEN [P192 |-> "UnauthenticatedP192", P256 |-> "UnauthenticatedP256"][curve]
  ELSE [P192 |-> "AuthenticatedP192", P256 |-> "AuthenticatedP256"][curve]

-----------------------------------------------------------------------------
(* The procedures.  p.got is the kind last received and p.value its value, *)
(* p.ok the result of the last challenge or acceptance, p.init and p.resp  *)
(* the I/O parameters of initiator and responder, p.curve the key's curve, *)
(* p.refused a negative confirmation of the responder's host.              *)

Start(p) ==
  CASE p = "a" -> <<Hci({"AuthenticationRequested"})>> \o AskHost("LinkKeyRequest") \o <<Do("initiate")>>
    [] p = "b" -> <<Lmp({"AuRand", "IoCapabilityReq", "InRand"}), Do("respond")>>
    [] p = "c" -> <<Hci({"SetConnectionEncryption"})>> \o SendAccepted("EncryptionModeReq")
                    \o SendAccepted("EncryptionKeySizeReq") \o SendAccepted("StartEncryptionReq")
                    \o <<Do("features")>>
    [] p = "d" -> Take("EncryptionModeReq") \o Take("EncryptionKeySizeReq") \o Take("StartEncryptionReq")
                    \o <<Do("features")>>
    [] p = "e" -> <<Lmp({"FeaturesReqExt"}), Do("features_respond")>>

\* supported_on_both: the exchange that asks the peer, then the label.
Supported(d, f, page, label) ==
  (IF f \in feature[d] THEN <<Send("FeaturesReqExt", page), Lmp({"FeaturesResExt"})>> ELSE <<>>)
    \o <<Do(label)>>
OnPage(f, page) == f \in (IF page = "1" THEN {"SSP", "SC"} ELSE {"SCC"})
\* The answer may be of another page than the one asked for, if two procedures ask.
PeerHas(d, p, f) == f \in feature[d] /\ f \in feature[Peer(d)] /\ OnPage(f, p.value)

AuthenticationComplete(status) == <<Event("AuthenticationComplete", status)>>
SimplePairingComplete(status) == <<Event("SimplePairingComplete", status)>>
\* Mutant: the error is not returned to authentication::initiate.
PairingFailed_NotReturned(name) == SimplePairingComplete("Failure")
PairingFailed(name) ==
  SimplePairingComplete("Failure")
    \o (IF name = "a" THEN AuthenticationComplete("Failure") ELSE <<>>)

\* Mutant: the remote device is not challenged.
InitiateKey_Unchallenged(p) ==
  IF ~Refused(p.got) THEN AuthenticationComplete("Success") ELSE <<Do("pair")>>
InitiateKey(p) ==
  IF ~Refused(p.got) THEN send_challenge \o <<Do("challenge_result")>> ELSE <<Do("pair")>>

legacy_initiate ==
  <<Ask("PinCodeRequest"), Hci({"PinCodeRequestReply"})>> \o SendAccepted("InRand")
    \o <<Send("CombKey", ""), Lmp({"CombKey"})>> \o send_challenge \o receive_challenge
    \o <<Do("legacy_key")>>
legacy_respond ==
  <<Ask("PinCodeRequest"), Hci({"PinCodeRequestReply"}), Accept("InRand"), Lmp({"CombKey"}),
    Send("CombKey", "")>> \o receive_challenge \o send_challenge \o <<Do("legacy_key")>>

\* Authentication stage 1.
Stage1Initiate(p) ==
  LET method == authentication_method(p.init, p.resp) IN
  CASE method \in {"JustWork", "UserConfirm"} ->
         <<Lmp({"SimplePairingConfirm"})>> \o send_commitment \o AskHost("UserConfirmationRequest")
           \o <<Do("confirmed")>>
    [] method = "PasskeyEntry" /\ Keyboard(p.init) ->
         AskHost("UserPasskeyRequest") \o <<Do("passkey_entered")>>
    [] method = "PasskeyEntry" /\ ~Keyboard(p.init) ->
         <<Send("SimplePairingConfirm", ""), Lmp({"SimplePairingConfirm", "NotAccepted"}),
           Do("passkey_shown")>>
    [] method = "OutOfBand" ->
         IF p.init = "OOB" THEN AskHost("RemoteOobDataRequest") \o <<Do("oob")>>
         ELSE Confirm \o send_commitment \o <<Do("stage2")>>

Stage1Respond(p) ==
  LET method == authentication_method(p.init, p.resp)
      dhkey == <<Lmp({"NumericComparisonFailed", "DhkeyCheck"}), Do("stage2")>>
  IN
  CASE method \in {"JustWork", "UserConfirm"} ->
         receive_commitment \o AskHost("UserConfirmationRequest") \o <<Do("confirmed")>> \o dhkey
    [] method = "PasskeyEntry" /\ Keyboard(p.resp) ->
         AskHost("UserPasskeyRequest")
           \o <<Do("passkey_entered"), Lmp({"SimplePairingConfirm"}), Do("passkey_rest")>>
    [] method = "PasskeyEntry" /\ ~Keyboard(p.resp) ->
         <<Lmp({"SimplePairingConfirm", "PasskeyFailed"}), Do("passkey_shown")>>
    [] method = "OutOfBand" ->
         (IF p.resp = "OOB" THEN AskHost("RemoteOobDataRequest") ELSE <<>>)
           \o <<Lmp({"SimplePairingConfirm"})>> \o receive_commitment \o dhkey

PasskeyInitiate ==
  send_commitment \o Times(PASSKEY_ENTRY_REPEAT_NUMBER - 1, Confirm \o send_commitment)
    \o <<Do("stage2")>>
PasskeyRespond ==
  receive_commitment
    \o Times(PASSKEY_ENTRY_REPEAT_NUMBER - 1, <<Lmp({"SimplePairingConfirm"})>> \o receive_commitment)
    \o <<Lmp({"NumericComparisonFailed", "DhkeyCheck"}), Do("stage2")>>

Stage2Respond(p) ==
  CASE p.got = "NumericComparisonFailed" -> PairingFailed("b")
    [] p.got # "NumericComparisonFailed" /\ p.refused ->
         <<Send("NotAccepted", "DhkeyCheck")>> \o PairingFailed("b")
    [] OTHER ->
         <<Accept("DhkeyCheck")>> \o SendAccepted("DhkeyCheck") \o SimplePairingComplete("Success")
           \o receive_challenge \o send_challenge \o <<Do("key")>>

\* Mutant: only the initiator's host is notified of the key.
Key_InitiatorOnly(name, p, type) ==
  IF name = "a"
  THEN (IF p.ok THEN <<Event("LinkKeyNotification", type)>> ELSE <<>>)
         \o AuthenticationComplete(IF p.ok THEN "Success" ELSE "Failure")
  ELSE <<>>
Key(name, p, type) ==
  IF p.ok
  THEN <<Event("LinkKeyNotification", type)>>
         \o (IF name = "a" THEN AuthenticationComplete("Success") ELSE <<>>)
  ELSE IF name = "a" THEN AuthenticationComplete("Failure") ELSE <<>>

AesCcm(aes_ccm) == <<Event("EncryptionChange", IF aes_ccm THEN "AesCcm" ELSE "On")>>

\* What the procedure does next at a Do, for the initiator ("a") of a pairing.
Initiate(d, p, label) ==
  CASE label = "initiate" -> InitiateKey(p)
    [] label = "challenge_result" ->
         AuthenticationComplete(IF p.ok THEN "Success" ELSE "PinOrKeyMissing")
    [] label = "pair" -> Supported(d, "SSP", "1", "pair_with")
    [] label = "pair_with" ->
         IF PeerHas(d, p, "SSP") THEN AskHost("IoCapabilityRequest") \o <<Do("io_capability")>>
         ELSE legacy_initiate
    [] label = "io_capability" ->
         IF Refused(p.got) THEN PairingFailed("a")
         ELSE <<Send("IoCapabilityReq", p.value), Lmp({"IoCapabilityRes"}), Do("io_response")>>
    [] label = "io_response" -> Supported(d, "SC", "1", "send_key")
    [] label = "send_key" ->
         send_public_key(p.curve) \o <<Lmp({"EncapsulatedHeader"}), Do("receive_key")>>
    [] label = "receive_key" -> receive_public_key(p.value) \o <<Do("stage1")>>
    [] label = "stage1" -> Stage1Initiate(p)
    [] label = "confirmed" ->
         IF Refused(p.got) THEN <<Send("NumericComparisonFailed", "")>> \o PairingFailed("a")
         ELSE <<Do("stage2")>>
    [] label = "passkey_entered" ->
         (CASE p.got = "SendKeypressNotification" ->
                 <<Hci(Awaited("UserPasskeyRequest")), Do("passkey_entered")>>
            [] Refused(p.got) -> <<Send("PasskeyFailed", "")>> \o PairingFailed("a")
            [] OTHER -> Confirm \o PasskeyInitiate)
    [] label = "passkey_shown" ->
         IF p.got = "NotAccepted" THEN PairingFailed("a") ELSE PasskeyInitiate
    [] label = "oob" ->
         IF Refused(p.got) THEN PairingFailed("a")
         ELSE Confirm \o send_commitment \o <<Do("stage2")>>
    [] label = "stage2" -> SendAccepted("DhkeyCheck") \o <<Do("dhkey")>>
    [] label = "dhkey" ->
         IF ~p.ok THEN PairingFailed("a")
         ELSE Take("DhkeyCheck") \o SimplePairingComplete("Success")
                \o send_challenge \o receive_challenge \o <<Do("key")>>
    [] label = "key" -> Key("a", p, link_key_type(authentication_method(p.init, p.resp), p.curve))
    [] label = "legacy_key" -> Key("a", p, "Combination")
    [] label = "challenged" -> <<>>

\* The same for the responder ("b").
Respond(d, p, label) ==
  CASE label = "respond" ->
         (CASE p.got = "AuRand" -> AskHost("LinkKeyRequest") \o <<Do("link_key")>>
            [] p.got = "IoCapabilityReq" -> AskHost("IoCapabilityRequest") \o <<Do("io_capability")>>
            [] p.got = "InRand" -> legacy_respond)
    [] label = "link_key" ->
         IF Refused(p.got) THEN <<Send("NotAccepted", "AuRand")>> ELSE <<Send("Sres", "")>>
    [] label = "io_capability" ->
         IF Refused(p.got) THEN <<Send("NotAcceptedExt", "")>> \o PairingFailed("b")
         ELSE <<Send("IoCapabilityRes", p.value), Lmp({"EncapsulatedHeader"}), Do("receive_key")>>
    [] label = "receive_key" ->
         receive_public_key(p.value) \o send_public_key(p.value) \o <<Do("stage1")>>
    [] label = "stage1" -> Stage1Respond(p)
    [] label = "confirmed" -> <<>>
    [] label = "passkey_entered" ->
         IF p.got = "SendKeypressNotification"
         THEN <<Hci(Awaited("UserPasskeyRequest")), Do("passkey_entered")>> ELSE <<>>
    [] label = "passkey_rest" ->
         IF p.refused THEN <<Send("NotAccepted", "SimplePairingConfirm")>> \o PairingFailed("b")
         ELSE PasskeyRespond
    [] label = "passkey_shown" ->
         IF p.got = "PasskeyFailed" THEN PairingFailed("b") ELSE PasskeyRespond
    [] label = "stage2" -> Stage2Respond(p)
    [] label = "key" -> Key("b", p, link_key_type(authentication_method(p.init, p.resp), p.curve))
    [] label = "legacy_key" -> Key("b", p, "Combination")
    [] label = "challenged" -> <<>>

\* Encryption ("c" and "d") and features ("e").
Encrypt(d, p, label) ==
  CASE label = "features" -> Supported(d, "SC", "1", "features2")
    [] label = "features2" ->
         IF PeerHas(d, p, "SC") THEN Supported(d, "SCC", "2", "change") ELSE AesCcm(FALSE)
    [] label = "change" -> AesCcm(PeerHas(d, p, "SCC"))
    [] label = "features_respond" -> <<Send("FeaturesResExt", p.value)>>

Continue(d, name, p, label) ==
  CASE name = "a" -> Initiate(d, p, label)
    [] name = "b" -> Respond(d, p, label)
    [] OTHER -> Encrypt(d, p, label)

\* The values that a Do stores.
Noted(d, name, p, label) ==
  CASE label = "challenged" -> [p EXCEPT !.ok = p.got = "Sres"]
    [] label = "io_capability" /\ name = "a" -> [p EXCEPT !.init = p.value]
    [] label = "io_capability" /\ name = "b" -> [p EXCEPT !.resp = p.value]
    [] label = "respond" -> [p EXCEPT !.init = p.value]
    [] label = "io_response" -> [p EXCEPT !.resp = p.value]
    [] label = "send_key" -> [p EXCEPT !.curve = IF PeerHas(d, p, "SC") THEN "P256" ELSE "P192"]
    [] label = "receive_key" /\ name = "b" -> [p EXCEPT !.curve = p.value]
    [] label \in {"confirmed", "passkey_entered"} -> [p EXCEPT !.refused = Refused(p.got)]
    [] OTHER -> p

-----------------------------------------------------------------------------
(* Polling.  s is the pair of the two links and the two hosts.             *)

NewProcedure(name) ==
  [todo |-> Start(name), got |-> "", value |-> "", ok |-> TRUE, init |-> "", resp |-> "",
   curve |-> "", refused |-> FALSE]

NewLink == [up |-> TRUE, lmp |-> <<>>, hci |-> None, procedures |-> [n \in Procedure |-> NewProcedure(n)]]

\* A packet for a link that is gone is dropped.
Deliver(s, to, packet) ==
  IF s.link[to].up THEN [s EXCEPT !.link[to].lmp = Append(@, packet)] ELSE s

Tell(h, kind, v) ==
  CASE v = "ask" -> [h EXCEPT !.asked = Append(@, kind)]
    [] kind = "AuthenticationComplete" -> [h EXCEPT !.authentication = v]
    [] kind = "SimplePairingComplete" -> [h EXCEPT !.pairing = v]
    [] kind = "LinkKeyNotification" -> [h EXCEPT !.keys = Append(@, v)]
    [] kind = "EncryptionChange" ->
         [h EXCEPT !.encryptions = Append(@, v),
                   !.encrypting = IF @ = "pending" THEN "Success" ELSE @]

\* The loop around a procedure starts it again.
Step(s, d, n, todo, got, value) ==
  [s EXCEPT !.link[d].procedures[n] =
     IF todo = <<>> THEN NewProcedure(n) ELSE [@ EXCEPT !.todo = todo, !.got = got, !.value = value]]

RECURSIVE Poll(_, _, _)
Poll(s, d, n) ==
  LET l == s.link[d]
      p == l.procedures[n]
      op == Head(p.todo)
      rest == Tail(p.todo)
      packet == Head(l.lmp)
      has(k) == l.lmp # <<>> /\ packet.k = k
      popped == [s EXCEPT !.link[d].lmp = Tail(@)]
      q == popped.link[d].lmp
      done(t, ok) == Step([t EXCEPT !.link[d].procedures[n].ok = ok], d, n, rest, p.got, p.value)
  IN
  CASE op.op = "send" ->
         Poll(Deliver(Step(s, d, n, rest, p.got, p.value), Peer(d), [k |-> Kind(op), v |-> op.v]), d, n)
    [] op.op = "event" ->
         Poll([Step(s, d, n, rest, p.got, p.value) EXCEPT !.host[d] = Tell(@, Kind(op), op.v)], d, n)
    [] op.op = "lmp" ->
         IF l.lmp # <<>> /\ packet.k \in op.kinds
         THEN Poll(Step(popped, d, n, rest, packet.k, packet.v), d, n) ELSE s
    [] op.op = "hci" ->
         IF l.hci # None /\ l.hci.k \in op.kinds
         THEN Poll(Step([s EXCEPT !.link[d].hci = None], d, n, rest, l.hci.k, l.hci.v), d, n) ELSE s
    [] op.op = "accepted" ->
         (CASE has("Accepted") /\ packet.v = op.v -> Poll(done(popped, TRUE), d, n)
            [] has("NotAccepted") ->
                 IF packet.v = op.v THEN Poll(done(popped, FALSE), d, n) ELSE popped
            [] has("Accepted") /\ packet.v # op.v ->
                 IF q # <<>> /\ Head(q).k = "NotAccepted"
                 THEN LET twice == [popped EXCEPT !.link[d].lmp = Tail(@)] IN
                      IF Head(q).v = op.v THEN Poll(done(twice, FALSE), d, n) ELSE twice
                 ELSE popped
            [] OTHER -> s)
    [] op.op = "do" ->
         LET noted == Noted(d, n, p, op.v)
             todo == Continue(d, n, noted, op.v) \o rest
         IN Poll(Step([s EXCEPT !.link[d].procedures[n] = noted], d, n, todo, p.got, p.value), d, n)

\* tick: the procedures in the order of run_procedures.
Polled(s, d) == FoldLeft(LAMBDA t, n : Poll(t, d, n), s, <<"a", "b", "c", "d", "e">>)
Tick(d) ==
  LET s == Polled([link |-> link, host |-> host], d) IN
  /\ link[d].up
  /\ link' = s.link /\ host' = s.host
  /\ UNCHANGED <<feature, drops, crashed>>

-----------------------------------------------------------------------------
(* The hosts.  A host sends a command only after the previous one was      *)
(* answered, that is when the slot is free.                                *)

NewHost == [asked |-> <<>>, given |-> {}, authentication |-> "", encrypting |-> "", pairing |-> "",
            keys |-> <<>>, encryptions |-> <<>>, starts |-> 0]

\* A command for which send_command_complete_event has no event.
Unhandled(command) == command = "RemoteOobExtendedDataRequestReply"

\* ingest_hci: into the link's slot, or answered with an error if there is no link.
ingest_hci(d, command, v) ==
  IF link[d].up
  THEN /\ link' = [link EXCEPT ![d].hci = [k |-> command, v |-> v]]
       /\ crashed' = crashed
  ELSE /\ crashed' = (crashed \/ Unhandled(command))
       /\ UNCHANGED link

Ready(d) == ~link[d].up \/ link[d].hci = None

Replies(request) ==
  {Reply[request]} \cup ({Negative[request]} \cap usage.others)
    \cup (IF request = "RemoteOobDataRequest"
          THEN {"RemoteOobExtendedDataRequestReply"} \cap usage.others ELSE {})

Answer(d) ==
  /\ Ready(d)
  /\ \E i \in DOMAIN host[d].asked :
       \E command \in Replies(host[d].asked[i]) :
         \E v \in IF command = "IoCapabilityRequestReply" THEN usage.io[d] ELSE {""} :
           /\ host' = [host EXCEPT ![d].asked = RemoveAt(@, i), ![d].given = @ \cup {command}]
           /\ ingest_hci(d, command, v)
  /\ UNCHANGED <<feature, drops>>

\* A key pressed while the passkey is entered.
Keypress(d) ==
  /\ Ready(d)
  /\ "SendKeypressNotification" \in usage.others \ host[d].given
  /\ \E i \in DOMAIN host[d].asked : host[d].asked[i] = "UserPasskeyRequest"
  /\ host' = [host EXCEPT ![d].given = @ \cup {"SendKeypressNotification"}]
  /\ ingest_hci(d, "SendKeypressNotification", "")
  /\ UNCHANGED <<feature, drops>>

Quiet(d) ==
  /\ link[d].up /\ link[d].hci = None /\ link[d].lmp = <<>>
  /\ \A n \in Procedure : link[d].procedures[n].todo = Start(n)
  /\ host[d].asked = <<>>
Pending(d) == "pending" \in {host[d].authentication, host[d].encrypting}

\* When a host starts a procedure: when none runs on the link, when it has none of its own
\* (the peer may have one), or at any time.
MayStart(d) ==
  /\ link[d].up /\ link[d].hci = None
  /\ host[d].starts < usage.starts
  /\ CASE usage.overlap = "none" -> Quiet(d) /\ Quiet(Peer(d))
       [] usage.overlap = "peer" -> ~Pending(d)
       [] usage.overlap = "own" -> TRUE

AuthenticationRequested(d) ==
  /\ d \in usage.initiators /\ MayStart(d)
  /\ host' = [e \in Device |->
                IF e = d THEN [host[e] EXCEPT !.authentication = "pending", !.starts = @ + 1,
                                              !.given = {}, !.keys = <<>>]
                ELSE [host[e] EXCEPT !.given = {}, !.keys = <<>>]]
  /\ ingest_hci(d, "AuthenticationRequested", "")
  /\ UNCHANGED <<feature, drops>>

SetConnectionEncryption(d) ==
  /\ d \in usage.encrypters /\ MayStart(d)
  /\ host' = [host EXCEPT ![d].encrypting = "pending", ![d].starts = @ + 1]
  /\ ingest_hci(d, "SetConnectionEncryption", "")
  /\ UNCHANGED <<feature, drops>>

-----------------------------------------------------------------------------
(* Connections.                                                            *)

\* remove_link: the command in the slot is answered with an error, the link is reset and its
\* procedures are dropped.
remove_link(d) ==
  /\ crashed' = (crashed \/ (link[d].hci # None /\ Unhandled(link[d].hci.k)))
  /\ link' = [link EXCEPT ![d] = [up |-> FALSE, lmp |-> <<>>, hci |-> None, procedures |-> <<>>]]
  /\ host' = [host EXCEPT ![d].authentication = IF @ = "pending" THEN "Disconnected" ELSE @,
                          ![d].encrypting = IF @ = "pending" THEN "Disconnected" ELSE @]
  /\ UNCHANGED feature

Disconnect(d) ==
  /\ drops < usage.drops /\ link[d].up /\ link[d].hci = None
  /\ drops' = drops + 1
  /\ remove_link(d)

\* The peer's Disconnect packet, or the loss of the connection, which takes no command.
IncomingDisconnect(d) ==
  /\ link[d].up /\ ~link[Peer(d)].up
  /\ remove_link(d)
  /\ UNCHANGED drops

Connect ==
  /\ \A d \in Device : ~link[d].up
  /\ link' = [d \in Device |-> NewLink]
  /\ host' = [d \in Device |-> [NewHost EXCEPT !.starts = host[d].starts]]
  /\ UNCHANGED <<feature, drops, crashed>>

Init ==
  /\ usage \in Usages
  /\ feature \in [Device -> usage.features]
  /\ link = [d \in Device |-> NewLink]
  /\ host = [d \in Device |-> NewHost]
  /\ drops = 0 /\ crashed = FALSE

Next ==
  /\ \/ \E d \in Device :
          \/ Tick(d) \/ Answer(d) \/ Keypress(d)
          \/ AuthenticationRequested(d) \/ SetConnectionEncryption(d)
          \/ Disconnect(d) \/ IncomingDisconnect(d)
     \/ Connect
  /\ UNCHANGED usage

Spec == Init /\ [][Next]_vars
\* Controllers tick periodically: WF_vars(Tick(d)), with ENABLED <<Tick(d)>>_vars written out.
CanTick(d) == link[d].up /\ LET s == [link |-> link, host |-> host] IN Polled(s, d) # s
FairTick(d) == []<>~CanTick(d) \/ []<><<Tick(d)>>_vars
\* Hosts answer what they are asked.
FairSpec ==
  /\ Spec
  /\ WF_vars(Connect /\ UNCHANGED usage)
  /\ \A d \in Device : /\ FairTick(d)
                        /\ WF_vars(Answer(d) /\ UNCHANGED usage)
                        /\ WF_vars(IncomingDisconnect(d) /\ UNCHANGED usage)

-----------------------------------------------------------------------------
(* Properties.                                                             *)

\* Every field keeps its type: the slot holds one command, the queues LMP
\* packets of the manager, a procedure only operations it knows how to do.
TypeOK ==
  /\ feature \in [Device -> SUBSET {"SSP", "SC", "SCC"}]
  /\ drops \in 0 .. usage.drops /\ crashed \in BOOLEAN
  /\ \A d \in Device :
       /\ host[d].authentication \in {"", "pending", "Success", "Failure", "PinOrKeyMissing", "Disconnected"}
       /\ host[d].encrypting \in {"", "pending", "Success", "Disconnected"}
       /\ host[d].pairing \in {"", "Success", "Failure"}
       /\ \A i \in DOMAIN host[d].asked : host[d].asked[i] \in Request
       /\ link[d].up => \A n \in Procedure : link[d].procedures[n].todo # <<>>

\* The state keeps its type and the link managers agree on the outcome.  When nothing is left to
\* do on the link, both hosts were notified of the same link key types and the same encryption
\* changes: with secure simple pairing and AES-CCM exactly when both devices support them.
OutcomesAgree ==
  TypeOK /\ ((\A d \in Device : Quiet(d)) =>
    /\ host["A"].keys = host["B"].keys
    /\ host["A"].encryptions = host["B"].encryptions
    /\ \A i \in DOMAIN host["A"].encryptions :
         (host["A"].encryptions[i] = "AesCcm") <=> {"SC", "SCC"} \subseteq feature["A"] \cap feature["B"]
    /\ \A i \in DOMAIN host["A"].keys :
         (host["A"].keys[i] = "Combination") <=> "SSP" \notin feature["A"] \cap feature["B"])

\* No procedure is left behind: when no host has a request to answer and no procedure can go on,
\* all of them wait for a new command or a first packet and the queues are empty.
NobodyWaits ==
  (\A d \in Device : link[d].up /\ host[d].asked = <<>> /\ ~CanTick(d)) => \A d \in Device : Quiet(d)

\* A link key is notified only after both hosts went along: none has rejected the pairing, the
\* comparison or the passkey since the authentication was requested.
NoKeyAfterRefusal ==
  [][\A d \in Device : host'[d].keys # host[d].keys /\ host'[d].keys # <<>> =>
       \A e \in Device, r \in Request \ {"LinkKeyRequest"} : Negative[r] \notin host'[e].given]_vars

\* Keys and authentication are earned: no key after a refusal, and authentication succeeds only if
\* both hosts presented a link key or a new one was notified to the host that asked.
AuthenticationSound ==
  NoKeyAfterRefusal /\ [][\A d \in Device :
       host'[d].authentication = "Success" /\ host[d].authentication = "pending" =>
         \/ host'[d].keys # <<>>
         \/ \A e \in Device : "LinkKeyRequestReply" \in host[e].given]_vars

\* Authentication_Complete follows every Authentication_Requested, unless the link is lost, and
\* Encryption_Change every Set_Connection_Encryption.
ProceduresEnd ==
  \A d \in Device : Pending(d) ~> ~Pending(d)

==============================================================================
