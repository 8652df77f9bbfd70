------------------------------ MODULE ClawMcp ------------------------------
(***************************************************************************)
(* runtime/src/mcp_server.rs: claw mcp serve reads frames from its         *)
(* standard input and answers requests.  The input is a sequence of        *)
(* pieces: ["length", n], the header line "Content-Length: n", with        *)
(* n = -1 for one that is no number; ["header"], another header line;      *)
(* ["blank"], the empty line behind the headers; and ["body", f, k], the   *)
(* k-th piece of the body of frame f.  A length counts pieces, and a body  *)
(* ends without a line break.                                              *)
(***************************************************************************)
EXTENDS Integers, Sequences, SequencesExt

CONSTANTS Bodies,   \* frame |-> the message in it
          SizeOf,   \* frame |-> the number of pieces of its body
          Tools     \* the tools that the handler knows

\* what one call of read_frame finds
Ended(end) == [end |-> end, payload |-> <<>>, next |-> 0]
IsBody(piece) == piece[1] = "body"
\* read_line: pieces of a body belong to the line that follows them, which then is no header
\* that read_frame knows, nor a blank line.  Any other piece ends its line.
LineStarts(in, i) == {k \in i .. Len(in) : k = i \/ ~IsBody(in[k - 1])}
\* Mutant of LineAt: what precedes a header on its line is passed over
LineAtLoose(in, i) ==
    LET ends == {k \in i .. Len(in) : ~IsBody(in[k])}
    IN  IF ends = {} THEN <<"header">> ELSE in[CHOOSE k \in ends : \A j \in ends : k <= j]
LineAt(in, i) == IF IsBody(in[i]) THEN <<"header">> ELSE in[i]

\* The headers from piece i on end at a blank line, at a length that is no number, or with
\* the input; of several lengths the last one counts.
ReadFrame(in, i) ==
    LET stops == {k \in LineStarts(in, i) : LineAt(in, k) \in {<<"blank">>, <<"length", -1>>}}
        stop == CHOOSE k \in stops : \A j \in stops : k <= j
        lengths == {k \in LineStarts(in, i) : k < stop /\ LineAt(in, k)[1] = "length"}
        length == LineAt(in, CHOOSE k \in lengths : \A j \in lengths : j <= k)[2]
    IN  IF i > Len(in) THEN Ended("clean")
        ELSE IF stops = {} \/ LineAt(in, stop)[1] = "length" THEN Ended("error")
        ELSE IF lengths = {} \/ stop + length > Len(in) THEN Ended("error")
        ELSE [end |-> "no", payload |-> SubSeq(in, stop + 1, stop + length),
              next |-> stop + length + 1]

(***************************************************************************)
(* A message is [json, id, request, method, params]: whether it is JSON,   *)
(* its id, an option, and whether it has the fields of a request, of the   *)
(* right types.  "null" is an id like others.                              *)
(***************************************************************************)
Response(id, code) == [id |-> id, code |-> code]
InvalidParams(id) == Response(id, -32602)
\* What a tool answers is a result, an error of the tool one that says so.
HandleToolsCall(m) ==
    CASE m.params \in {"none", "invalid"} -> InvalidParams(m.id[1])
      [] m.params \in Tools -> Response(m.id[1], 0)
      [] OTHER -> Response(m.id[1], 1)
Dispatch(m) == CASE m.method \in {"initialize", "tools/list"} -> Response(m.id[1], 0)
                 [] m.method = "tools/call" -> HandleToolsCall(m)
                 [] OTHER -> Response(m.id[1], -32601)
\* the answers to a message, at most one
Answers(m) ==
    IF ~m.json THEN <<Response("null", -32700)>>
    ELSE IF m.id = <<>> THEN <<>>
    ELSE IF ~m.request THEN <<Response("null", -32600)>>
    ELSE <<Dispatch(m)>>
NotJson == [json |-> FALSE]
\* only a whole body and nothing else is what its sender wrote
MessageIn(payload) ==
    IF /\ payload # <<>> /\ \A k \in DOMAIN payload :
             IsBody(payload[k]) /\ payload[k][2] = payload[1][2] /\ payload[k][3] = k
       /\ Len(payload) = SizeOf[payload[1][2]]
    THEN Bodies[payload[1][2]] ELSE NotJson
\* run, from piece i of the input on: the answers, and how the server ends when its input ends
Serve(in) ==
    LET From[i \in 1 .. Len(in) + 1] ==
          LET frame == ReadFrame(in, i)
          IN  IF frame.end # "no" THEN [out |-> <<>>, end |-> frame.end]
              ELSE [From[frame.next] EXCEPT !.out = Answers(MessageIn(frame.payload)) \o @]
    IN  From[1]
=============================================================================
