-------------------------------- MODULE Pake --------------------------------
(***************************************************************************)
(* The client side of the password-authenticated key exchange,             *)
(* mitb-pake/src/lib.rs, and the client's half of the login that the agent *)
(* (agent/auth.rs) and the page (index.html) share.  Cryptography is       *)
(* abstracted to which request an answer was computed for: a login can     *)
(* only be finished with the response to the request it started with, by a *)
(* party that knows the secret.                                            *)
(***************************************************************************)
EXTENDS Naturals

\* A session counts its logins; login_state is the one under way, 0 if none.
ClientSession == [logins |-> 0, login_state |-> 0, registration_state |-> FALSE]

start_login(s) == [s EXCEPT !.logins = @ + 1, !.login_state = s.logins + 1]
start_registration(s) == [s EXCEPT !.registration_state = TRUE]
finish_registration(s) == start_login([s EXCEPT !.registration_state = FALSE])
finish_login(s) == [s EXCEPT !.login_state = 0]

\* The request that start_login returns.
CredentialRequest(owner, s) == <<owner, s.login_state>>

FinishesLogin(owner, s, request) ==
    s.login_state # 0 /\ request = CredentialRequest(owner, s)

\* What a client does with a message of the login: its next session and the
\* message it sends, or nothing if an operation of the session fails.
AuthReply(owner, s, m) ==
    IF m.type = "registration_required" THEN
        {[session |-> start_registration(s), send |-> [type |-> "registration_request"]]}
    ELSE IF m.type = "registration_response" /\ s.registration_state THEN
        LET t == finish_registration(s) IN
        {[session |-> t,
          send |-> [type |-> "registration_upload", request |-> CredentialRequest(owner, t)]]}
    ELSE IF m.type = "candidates" /\ FinishesLogin(owner, s, m.request) THEN
        {[session |-> finish_login(s),
          send |-> [type |-> "finalization", request |-> m.request]]}
    ELSE {}

LoginMessages == {"registration_required", "registration_response", "candidates"}
=============================================================================
