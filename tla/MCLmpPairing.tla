---------------------------- MODULE MCLmpPairing ----------------------------
(* TLC instances of LmpPairing.                                            *)
EXTENDS LmpPairing

AllFeatures == {{}, {"SSP"}, {"SSP", "SC"}, {"SSP", "SC", "SCC"}, {"SC", "SCC"}}
Secure == {"SSP", "SC", "SCC"}

Displays == [d \in Device |-> {"DisplayYesNo!"}]
Rejections == {"LinkKeyRequestNegativeReply", "UserConfirmationRequestNegativeReply"}

\* One authentication, with every combination of features and I/O parameters.
AnyIo ==
  [features |-> AllFeatures,
   io |-> [d \in Device |-> {"DisplayYesNo!", "KeyboardOnly!", "DisplayOnly!", "NoInputNoOutput", "OOB"}],
   others |-> Rejections, initiators |-> {"A"}, encrypters |-> {}, overlap |-> "none",
   starts |-> 1, drops |-> 0]

\* Passkey entry from either side with one keyboard.
Passkey ==
  [features |-> {{"SSP"}, Secure},
   io |-> [A |-> {"KeyboardOnly!"}, B |-> {"DisplayOnly!", "DisplayYesNo!", "NoInputNoOutput"}],
   others |-> Rejections \cup {"UserPasskeyRequestNegativeReply", "SendKeypressNotification"},
   initiators |-> {"A", "B"}, encrypters |-> {}, overlap |-> "none", starts |-> 1, drops |-> 0]

\* Authentications and encryptions, one after the other.
Encrypting ==
  [features |-> AllFeatures, io |-> Displays, others |-> Rejections, initiators |-> {"A"},
   encrypters |-> {"A", "B"}, overlap |-> "none", starts |-> 2, drops |-> 0]

\* The connection is lost at some point and made again.
Dropping ==
  [features |-> {{"SSP"}, Secure}, io |-> Displays, others |-> Rejections, initiators |-> {"A"},
   encrypters |-> {"A"}, overlap |-> "none", starts |-> 2, drops |-> 1]

AllUsages == {AnyIo, Passkey, Encrypting, Dropping}

\* The responder's host rejects the I/O capability request.
Rejecting ==
  {[features |-> {Secure}, io |-> Displays,
    others |-> {"LinkKeyRequestNegativeReply", "IoCapabilityRequestNegativeReply"},
    initiators |-> {"A"}, encrypters |-> {}, overlap |-> "none", starts |-> 1, drops |-> 0]}

\* Both hosts start an authentication.
Colliding ==
  {[features |-> {Secure}, io |-> Displays, others |-> {"LinkKeyRequestNegativeReply"},
    initiators |-> {"A", "B"}, encrypters |-> {}, overlap |-> "peer", starts |-> 1, drops |-> 0]}
==============================================================================
