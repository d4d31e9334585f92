----------------------------- MODULE SendStages -----------------------------
(***************************************************************************)
(* One send() of the outbox worker (internal/outbox/worker.go) and the     *)
(* methods of the Telegram client it calls (internal/telegram/client.go),  *)
(* as a function of what Telegram answers to each request.  The stages are *)
(* numbered in the order in which they are tried.                          *)
(***************************************************************************)
EXTENDS Naturals

Rich == 1
MediaFree == 2
ClassicHTML == 3
PlainText == 4
Stages == Rich..PlainText

\* What the worker tells apart in a job: it has rich text in a format it knows
\* (legacy Markdown is converted), the rich text has media, and its classic
\* text is not empty once the tags are gone.
Contents == [rich : BOOLEAN, media : BOOLEAN, text : BOOLEAN]

\* The stages there are for a job.
StagesOf(content) ==
  {s \in Stages : /\ s = Rich => content.rich
                  /\ s = MediaFree => content.rich /\ content.media
                  /\ s = PlainText => content.text}

\* What the library makes of one request:
\*   ok, receipt  accepted; the answer could be parsed, or not
\*   lost         accepted, but the answer did not arrive
\*   network      not accepted, and no answer (cancellation is one such)
\*   limited      429 or 5xx, the errors that may carry retry_after
\*   content      400, 403, 404 or 413 that is not about the chat
\*   unreachable  the chat is gone for good
\*   other        any other error
Answers == {"ok", "receipt", "lost", "network", "limited", "content", "unreachable", "other"}

Accepted == {"ok", "receipt", "lost"}
Rejections == {"content", "unreachable", "other"}

\* Mutant: an error without an answer of the API is swallowed as well.
deliveredUnheard(stage, answer) == answer \in {"ok", "receipt", "lost", "network"}

\* The client's methods return nil: an accepted message whose answer did not
\* parse is a success, except in SendHTML, which passes the error on.
delivered(stage, answer) == answer = "ok" \/ (answer = "receipt" /\ stage # ClassicHTML)

\* Mutant: any error leads to the next stage.
FallsBackAlways(answer) == TRUE

\* Only an error about the content leads to the next stage.
shouldFallbackContent(answer) == answer = "content"

\* Mutant: an error that is no answer of the API is final.
ClassifiedFinal(answer) ==
  IF answer = "unreachable" THEN "unreachable"
  ELSE IF answer = "limited" THEN "temporary" ELSE "permanent"

\* Mutant: every 403 is taken for a chat that is gone.
ClassifiedByStatus(answer) ==
  IF answer \in {"unreachable", "content"} THEN "unreachable"
  ELSE IF answer = "other" THEN "permanent" ELSE "temporary"

classifyError(answer) ==
  CASE answer = "unreachable" -> "unreachable"
    [] answer \in {"content", "other"} -> "permanent"
    [] OTHER -> "temporary"

-----------------------------------------------------------------------------

\* A course of send() for a job with this content: the answers the requests
\* get, or would get, and the stage it ends with.
Courses(possible) == [content : Contents, answers : [Stages -> possible], last : Stages]

\* A stage is tried if each one before it was rejected for its content.
Tried(course) ==
  {s \in StagesOf(course.content) :
     \A t \in StagesOf(course.content) : t < s =>
       ~delivered(t, course.answers[t]) /\ shouldFallbackContent(course.answers[t])}

Ends(course) ==
  course.last \in Tried(course) /\ \A s \in Tried(course) : s <= course.last

Result(course) ==
  LET answer == course.answers[course.last] IN
    IF delivered(course.last, answer) THEN "ok" ELSE classifyError(answer)

\* Messages the chat receives from one stage, and from all of them.
Reached(course, s) == IF s \in Tried(course) /\ course.answers[s] \in Accepted THEN 1 ELSE 0
Messages(course) ==
  Reached(course, Rich) + Reached(course, MediaFree)
    + Reached(course, ClassicHTML) + Reached(course, PlainText)

\* What send() may return when these are the possible answers, with the answer
\* it ended with and the messages sent by then.
send(possible) ==
  {[verdict |-> Result(course), answer |-> course.answers[course.last],
    messages |-> Messages(course)] : course \in {c \in Courses(possible) : Ends(c)}}
=============================================================================
