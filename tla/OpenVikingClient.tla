--------------------------- MODULE OpenVikingClient ---------------------------
(***************************************************************************)
(* The client of the memory server: openviking/client.go, and the gate of  *)
(* the settings in front of it, openviking/settings.go.  One call is one   *)
(* value: what the server answers to each attempt follows from the state   *)
(* it is in, so a call is a function of that state.                        *)
(*                                                                         *)
(* A server offers the modern or the legacy API and may want the headers   *)
(* of a tenant.  During a call it may be down, be busy for some attempts,  *)
(* or do the work and lose the answer.                                     *)
(***************************************************************************)
EXTENDS Naturals, FiniteSetsExt

CONSTANT BusyMaxAttempts   \* modernWriteBusyMaxAttempts

ASSUME BusyAssumption == BusyMaxAttempts \in Nat \ {0}

Server == [api : {"modern", "legacy"}, tenant : BOOLEAN]
Mood ==
  {m \in [busy : 0..BusyMaxAttempts, down : BOOLEAN, lost : BOOLEAN] :
     m.down => m.busy = 0 /\ ~m.lost}

Answer == {"ok", "notFound", "tenant", "busy", "error"}

(* do: the answer to the n-th attempt, by the status of the response.      *)
Do(srv, mood, call, headers, n) ==
  IF mood.down THEN "error"
  ELSE IF (call = "legacy") # (srv.api = "legacy") THEN "notFound"
  ELSE IF srv.api = "modern" /\ srv.tenant /\ ~headers THEN "tenant"
  ELSE IF n <= mood.busy THEN "busy"
  ELSE "ok"

(* "replace" wants the file to exist already.                              *)
DoWrite(srv, mood, file, mode, headers, n) ==
  LET answer == Do(srv, mood, "modern", headers, n) IN
  IF answer = "ok" /\ mode = "replace" /\ ~file THEN "notFound" ELSE answer

(* Attempts are repeated while the file is busy.                           *)
DoModernWrite(srv, mood, file, mode, headers) ==
  LET settled == {n \in 1..BusyMaxAttempts :
                    DoWrite(srv, mood, file, mode, headers, n) # "busy"}
  IN  IF settled = {} THEN "busy"
      ELSE DoWrite(srv, mood, file, mode, headers, Min(settled))

(* The account and the user are known from the key, from the status of the *)
(* server or by default, so that a second call can always name them.       *)
WantsTenant(answer) == answer = "tenant"

TryModernWrite(srv, mood, file, mode) ==
  LET plain == DoModernWrite(srv, mood, file, mode, FALSE) IN
  IF WantsTenant(plain) THEN DoModernWrite(srv, mood, file, mode, TRUE)
  ELSE plain

(* Bug variant of ClientWrite: a first write does not create the file.     *)
ClientWriteNoCreate(srv, mood, file) ==
  LET replace == TryModernWrite(srv, mood, file, "replace") IN
  IF replace # "notFound" THEN replace
  ELSE Do(srv, mood, "legacy", FALSE, mood.busy + 1)

(* The legacy API is tried once, without the loop for busy files.          *)
ClientWrite(srv, mood, file) ==
  LET replace == TryModernWrite(srv, mood, file, "replace")
      create == TryModernWrite(srv, mood, file, "create")
  IN  IF replace # "notFound" THEN replace
      ELSE IF create # "notFound" THEN create
      ELSE Do(srv, mood, "legacy", FALSE, mood.busy + 1)

(* List, Search and Read fall back in the same order.                      *)
ClientRead(srv, mood) ==
  LET read(headers) == Do(srv, mood, "modern", headers, mood.busy + 1)
      modern == IF WantsTenant(read(FALSE)) THEN read(TRUE) ELSE read(FALSE)
  IN  IF modern # "notFound" THEN modern
      ELSE Do(srv, mood, "legacy", FALSE, mood.busy + 1)

---------------------------------------------------------------------------
(* ProjectAwareWriter.Write: writes that are switched off succeed without  *)
(* a call.                                                                 *)
Write(srv, mood, file, switchedOn) ==
  LET answer == ClientWrite(srv, mood, file) IN
  [ok |-> ~switchedOn \/ (answer = "ok" /\ ~mood.lost),
   stored |-> switchedOn /\ answer = "ok"]

(* What the caller takes for an error.                                     *)
Troubled(mood) == mood.busy = BusyMaxAttempts \/ mood.down \/ mood.lost

=============================================================================
