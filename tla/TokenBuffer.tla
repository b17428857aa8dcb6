---------------------------- MODULE TokenBuffer ----------------------------
(***************************************************************************)
(* A request's token buffer (tokens.py) and the future-token placeholders  *)
(* of its context (context.py), as operators on a record:                  *)
(*                                                                         *)
(*   len      tokens in the buffer, placeholders included                  *)
(*   prompt   the leading tokens that count as prompt                      *)
(*   proc     processed_length, the start of the processing range          *)
(*   end      the end of the processing range; the active window is        *)
(*            proc+1 .. end                                                *)
(*   chunked  _actively_chunked                                            *)
(*   pend     _pending_future_count: the trailing tokens whose value is    *)
(*            still on the device                                          *)
(*                                                                         *)
(* Token values are not kept here: a request's tokens are the fixed stream *)
(* the greedy model produces for it.                                       *)
(***************************************************************************)
EXTENDS Naturals

Buffers == [len : Nat, prompt : Nat, proc : Nat, end : Nat, chunked : BOOLEAN, pend : Nat]

NewBuffer(n) ==
  [len |-> n, prompt |-> n, proc |-> 0, end |-> n, chunked |-> FALSE, pend |-> 0]

ActiveLength(t) == t.end - t.proc

GeneratedLength(t) == t.len - t.prompt

SkipProcessing(t, n) == [t EXCEPT !.proc = @ + n]

\* skip_processing refuses to leave an empty active window.
SkipAllowed(t, n) == n < ActiveLength(t)

RewindProcessing(t, n) == [t EXCEPT !.proc = @ - n]

Chunk(t, n) == [t EXCEPT !.end = t.proc + n, !.chunked = TRUE]

AdvanceChunk(t) == [t EXCEPT !.proc = t.end, !.end = t.len, !.chunked = FALSE]

AdvanceWithToken(t) == [t EXCEPT !.proc = t.end, !.end = t.end + 1, !.len = t.len + 1]

\* update_with_future_token: a chunk swallows the placeholder.
UpdateWithFutureToken(t) ==
  IF t.chunked THEN AdvanceChunk(t)
               ELSE [AdvanceWithToken(t) EXCEPT !.pend = @ + 1]

\* The position the next realized token is written to: the oldest placeholder.
RealizedPosition(t) == t.len - t.pend + 1

\* update_context_and_prepare_responses with overwrite_future: a buffer with
\* no generated token has no placeholder (chunked prefill, or preempted).
RealizeFutureToken(t) ==
  IF GeneratedLength(t) = 0 THEN t ELSE [t EXCEPT !.pend = @ - 1]

\* Faulty: the tokens generated so far still count as generated.
ResetWindow(t) == [NewBuffer(t.len - t.pend) EXCEPT !.prompt = t.prompt]

\* TextContext.reset: drop the placeholders and make everything the prompt.
ResetBuffer(t) == NewBuffer(t.len - t.pend)

=============================================================================
