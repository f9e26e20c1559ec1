-------------------------- MODULE RelayDiagnostics --------------------------
(***************************************************************************)
(* relay_diagnostic (errors.py): the frame a device is told before the     *)
(* relay closes its WebSocket.  Whatever an exception carries becomes one  *)
(* of a closed set of codes, each with the stage it belongs to and whether *)
(* the device may try again.                                               *)
(***************************************************************************)
RelayErrorCode ==
    {"relay_tls_failed", "relay_upgrade_failed", "relay_challenge_timeout",
     "relay_challenge_invalid", "enrollment_token_invalid",
     "enrollment_token_expired", "enrollment_token_consumed",
     "connector_id_mismatch", "enrollment_signature_invalid",
     "enrollment_challenge_invalid", "device_already_enrolled",
     "device_revoked", "relay_authentication_failed", "relay_ready_failed",
     "relay_protocol_error"}

MutantRetryable == {"relay_tls_failed", "relay_upgrade_failed",
                    "relay_challenge_timeout", "relay_ready_failed",
                    "enrollment_challenge_invalid"}

Retryable == {"relay_tls_failed", "relay_upgrade_failed",
              "relay_challenge_timeout", "relay_ready_failed"}

TokenError == {"enrollment_token_invalid", "enrollment_token_expired",
               "enrollment_token_consumed", "connector_id_mismatch"}

HomeStage(code) ==
    CASE code = "relay_tls_failed" -> "tls"
      [] code = "relay_upgrade_failed" -> "upgrade"
      [] code \in {"relay_challenge_timeout", "relay_challenge_invalid"}
           -> "challenge"
      [] code \in TokenError \union
                  {"enrollment_signature_invalid",
                   "enrollment_challenge_invalid", "device_already_enrolled"}
           -> "enrollment"
      [] code \in {"device_revoked", "relay_authentication_failed"}
           -> "authentication"
      [] code = "relay_ready_failed" -> "ready"
      [] code = "relay_protocol_error" -> "session"

(***************************************************************************)
(* _canonical_relay_code: the internal keywords, then the codes, then the  *)
(* fallback; a challenge or signature refused during enrollment has a code *)
(* of its own.                                                             *)
(***************************************************************************)
Known(code, stage) ==
    CASE code = "invalid_challenge" -> "relay_challenge_invalid"
      [] code = "invalid_signature" -> "relay_authentication_failed"
      [] code = "capabilities_not_granted" -> "relay_ready_failed"
      [] code \in RelayErrorCode -> code
      [] OTHER -> IF stage = "ready" THEN "relay_ready_failed"
                                     ELSE "relay_protocol_error"

Canonical(code, stage) ==
    LET known == Known(code, stage) IN
    CASE stage = "enrollment" /\ known = "relay_challenge_invalid"
           -> "enrollment_challenge_invalid"
      [] stage = "enrollment" /\ known = "relay_authentication_failed"
           -> "enrollment_signature_invalid"
      [] OTHER -> known

(***************************************************************************)
(* The stage told is that of the code, save for the codes that several     *)
(* stages raise.                                                           *)
(***************************************************************************)
StageTold(code, stage) ==
    IF \/ /\ code \in {"relay_authentication_failed", "relay_protocol_error"}
          /\ stage \in {"authentication", "session", "enrollment"}
       \/ /\ code = "device_revoked"
          /\ stage \in {"enrollment", "authentication"}
      THEN stage
      ELSE HomeStage(code)

Diagnostic == [code : RelayErrorCode, retryable : BOOLEAN,
               stage : {"tls", "upgrade", "challenge", "enrollment",
                        "authentication", "ready", "session"}]

RelayDiagnostic(code, stage) ==
    LET canonical == Canonical(code, stage) IN
    [code |-> canonical, retryable |-> canonical \in Retryable,
     stage |-> StageTold(canonical, stage)]

(***************************************************************************)
(* The except clauses of handle(): the code of a ProtocolError or          *)
(* ValueError depends on the stage alone.                                  *)
(***************************************************************************)
ProtocolCode(stage) ==
    CASE stage = "authentication" -> "relay_authentication_failed"
      [] stage = "ready" -> "relay_ready_failed"
      [] OTHER -> "relay_protocol_error"
=============================================================================
