--------------------------- MODULE MessageIntegrity ---------------------------
(* Signatures on publishes (broker/modules/security/message_integrity.go).     *)
(* The MAC is over the topic followed by the payload, and stands for itself.   *)
EXTENDS Naturals, Sequences, SequencesExt

CONSTANTS RequireSignature, VerifySignature

Probes(id) == Len(id) >= 5 /\ SubSeq(id, 1, 5) = "probe"
Mac(topic, payload) == "mac " \o topic \o payload
SignatureRejected(id, topic, payload, user) ==
    LET signed == SelectSeq(user, LAMBDA p : p[1] = "integrity-signature")
    IN ~Probes(id) /\ IF signed = <<>> THEN RequireSignature
                      ELSE VerifySignature /\ signed[1][2] # Mac(topic, payload)
===============================================================================
