---------------------------- MODULE MCTranscript ----------------------------
(* Small transcripts for TranscriptDelivery. *)
EXTENDS TranscriptDelivery

Entry(line, kind) == [line |-> line, kind |-> kind]
\* One entry per line.
OnePerLine == <<Entry(1, "content"), Entry(2, "quiet"), Entry(3, "limit"), Entry(4, "ask")>>
\* A plan and the tool that shows it are parsed from the same line.
SharedLine == <<Entry(1, "content"), Entry(1, "content")>>
=============================================================================
