------------------------------ MODULE MCSolver ------------------------------
(* Instances of Solver for TLC. *)
EXTENDS Solver

Piece(form, p) == [form |-> form, payload |-> p]
Line(kind, text) == [kind |-> kind, text |-> text, structured |-> <<>>, failed |-> FALSE]
SomeEvents ==
  { Line("text", <<Piece(f, NoPayload)>>) : f \in {"note", "brace", "abort"} }
  \union { Line("text", <<Piece("bare", p)>>) : p \in Payloads }
  \union { Line("text", <<Piece("fenced", "b")>>), Line("text", <<>>),
           Line("error", <<>>), Line("broken", <<>>),
           [Line("result", <<>>) EXCEPT !.failed = TRUE],
           [Line("result", <<>>) EXCEPT !.structured = <<Piece("bare", "b")>>] }
SomeAnswers ==
  LET good == [ok |-> TRUE, fits |-> TRUE, body |-> "message",
               content |-> <<Piece("bare", "a")>>, parsed |-> <<>>]
  IN  { good, [good EXCEPT !.ok = FALSE], [good EXCEPT !.fits = FALSE],
        [good EXCEPT !.body = "error"], [good EXCEPT !.content = <<>>],
        [good EXCEPT !.content = <<>>, !.parsed = <<Piece("abort", NoPayload)>>] }
=============================================================================
