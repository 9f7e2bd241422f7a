-------------------------------- MODULE AiChat ---------------------------------
(* The two chats of frontend-app: the AI assistant's page                     *)
(* (pages/AIAssistant.tsx) and the quick chat of every other page             *)
(* (components/QuickAIChat.tsx).  One of them is on screen at a time; they    *)
(* share the threads in localStorage, which is all that remembers a           *)
(* conversation.  A message is known by the exchanges its text came from.     *)
EXTENDS Naturals, FiniteSets, Sequences, SequencesExt, FiniteSetsExt

CONSTANTS Threads,       \* conversations, digests among them
          Digests,       \* conversations the server wrote
          Recent,        \* messages the quick chat restores
          MaxExchanges,  \* questions the visitor asks
          MaxMoves       \* changes of page and of conversation

ASSUME AiChatAssumption ==
    /\ Digests \subseteq Threads /\ "none" \notin Threads
    /\ {Recent, MaxExchanges, MaxMoves} \subseteq Nat

VARIABLES
    place,      \* "assistant" or "elsewhere"
    agreed,     \* the privacy agreement was accepted in this browser
    stored,     \* localStorage: the list of threads, each with its messages
    copies,     \* localStorage: the messages of each thread under a key of its own
    last,       \* localStorage: the thread to come back to
    threads,    \* the assistant's copy of stored in its state
    current,    \* the thread on screen, or "none"
    shown,      \* the messages on screen
    typing,     \* waiting for an answer
    abortable,  \* the exchange the stop button aborts, or 0
    streams,    \* answers that are streaming
    digest,     \* digests being fetched
    asked, moves

acVars == <<place, agreed, stored, copies, last, threads, current, shown, typing,
            abortable, streams, digest, asked, moves>>
storage == <<stored, copies, last>>
screen == <<current, shown>>

Absent == <<[role |-> "none", of |-> {}, pending |-> FALSE]>>
Ask(n) == [role |-> "user", of |-> {n}, pending |-> FALSE]
Reply(n) == [role |-> "assistant", of |-> {n}, pending |-> FALSE]
Error == [role |-> "assistant", of |-> {0}, pending |-> FALSE]
Awaited == [role |-> "assistant", of |-> {},  pending |-> place = "assistant"]
Recently(msgs) == SubSeq(msgs, 1 + (IF Len(msgs) > Recent THEN Len(msgs) - Recent ELSE 0), Len(msgs))
--------------------------------------------------------------------------------
(* Where an answer goes: the last pending message, else the assistant's last. *)
Slot(msgs) ==
    LET theirs == {i \in DOMAIN msgs : msgs[i].role = "assistant"}
        pending == {i \in theirs : msgs[i].pending}
    IN CASE pending # {} -> Max(pending)
         [] pending = {} /\ theirs # {} -> Max(theirs)
         [] OTHER -> 0

(* Mutant: the answer goes to the first message of the assistant.             *)
PutFirst(msgs, m, or) ==
    LET theirs == {i \in DOMAIN msgs : msgs[i].role = "assistant"} IN
    IF theirs = {} THEN or ELSE [msgs EXCEPT ![Min(theirs)] = m]

Put(msgs, m, or) == IF Slot(msgs) = 0 THEN or ELSE [msgs EXCEPT ![Slot(msgs)] = m]

(* Only the assistant adds a message when there is none to fill.              *)
Answered(by, msgs, m) == Put(msgs, m, IF by = "assistant" THEN Append(msgs, m) ELSE msgs)
FailedWith(by, msgs) == IF by = "assistant" THEN Put(msgs, Error, Append(msgs, Error))
                        ELSE Append(msgs, Error)
(* Mutant: the empty message stays.                                           *)
NotWithdrawn(msgs) == msgs

(* An aborted answer leaves no empty message on the assistant's page.         *)
Withdrawn(msgs) ==
    IF \E i \in DOMAIN msgs : msgs[i].pending
    THEN IF msgs[Slot(msgs)].of = {} THEN RemoveAt(msgs, Slot(msgs)) ELSE msgs
    ELSE msgs

(* The assistant saves the threads of the render that asked the question; the *)
(* quick chat reads them anew (appendAndPersist).                             *)
Save(s, msgs) ==
    LET base == IF s.by = "assistant" THEN s.knew ELSE stored
    IN /\ stored' = [base EXCEPT ![s.thread] = msgs]
       /\ copies' = [copies EXCEPT ![s.thread] = msgs]
       /\ last' = IF s.by = "assistant" THEN last ELSE s.thread
       /\ threads' = IF place = "assistant" THEN stored' ELSE threads

Disturbed(ss) == {[s EXCEPT !.calm = FALSE] : s \in ss}
Fresh == {t \in Threads \ Digests : stored[t] = Absent /\ copies[t] = Absent
             /\ t # last /\ t # current /\ \A s \in streams : s.thread # t}
Moving == moves < MaxMoves /\ moves' = moves + 1
--------------------------------------------------------------------------------
(* Where a question can be asked: the inputs are off while an answer is       *)
(* typed, the starters of an empty conversation are not; the notice that asks *)
(* for the agreement lies over the assistant's page.                          *)
ComposerOn == place = "assistant" /\ agreed /\ ~typing
StarterOn == place = "assistant" /\ agreed /\ shown = <<>>
QuickInputOn == place = "elsewhere" /\ ~typing

(* A question.  A digest's thread is answered like any other.                 *)
Send ==
    /\ ComposerOn \/ StarterOn \/ QuickInputOn
    /\ asked < MaxExchanges /\ asked' = asked + 1
    /\ \E t \in IF current = "none" THEN Fresh ELSE {current} :
          /\ current' = t /\ last' = IF current = "none" THEN t ELSE last
          /\ streams' = Disturbed(streams) \cup
                {[id |-> asked + 1, by |-> place, thread |-> t, knew |-> threads,
                  left |-> Absent, calm |-> streams = {}]}
    /\ shown' = shown \o <<Ask(asked + 1), Awaited>>
    /\ typing' = TRUE /\ abortable' = asked + 1
    /\ UNCHANGED <<place, agreed, stored, copies, threads, digest, moves>>

OnScreen(s) == s.left = Absent
Ended(s) == /\ streams' = streams \ {s}
            /\ IF OnScreen(s) THEN typing' = FALSE /\ abortable' = 0
                              ELSE UNCHANGED <<typing, abortable>>
            /\ UNCHANGED <<place, agreed, current, digest, asked, moves>>

Chunk == \E s \in streams :
    /\ OnScreen(s) /\ Slot(shown) # 0 /\ s.id \notin shown[Slot(shown)].of
    /\ shown' = Put(shown, [shown[Slot(shown)] EXCEPT !.of = @ \cup {s.id}, !.pending = FALSE],
                    shown)
    /\ UNCHANGED <<place, agreed, storage, threads, current, typing, abortable, streams,
                   digest, asked, moves>>

AnswerEnds == \E s \in streams :
    /\ OnScreen(s) /\ Ended(s)
    /\ shown' = Answered(s.by, shown, Reply(s.id)) /\ Save(s, shown')

(* A quick chat also saves its error; the assistant keeps it in the copy.     *)
AnswerFails == \E s \in streams :
    /\ OnScreen(s) /\ Ended(s)
    /\ shown' = FailedWith(s.by, shown)
    /\ IF s.by = "assistant"
       THEN copies' = [copies EXCEPT ![s.thread] = shown'] /\ UNCHANGED <<stored, last, threads>>
       ELSE Save(s, shown')

(* Mutant: the early return leaves before the indicator is reset.             *)
StoppedEarly == \E s \in streams :
    /\ OnScreen(s) /\ s.id = abortable
    /\ streams' = streams \ {s}
    /\ shown' = Withdrawn(shown) /\ copies' = [copies EXCEPT ![s.thread] = shown']
    /\ UNCHANGED <<place, agreed, stored, last, threads, current, typing, abortable,
                   digest, asked, moves>>

Stopped == \E s \in streams :
    /\ OnScreen(s) /\ s.id = abortable /\ Ended(s)
    /\ IF s.by = "assistant"
       THEN shown' = Withdrawn(shown) /\ copies' = [copies EXCEPT ![s.thread] = shown']
       ELSE UNCHANGED <<shown, copies>>
    /\ UNCHANGED <<stored, last, threads>>

(* The state update of a chat that left the screen saves, where React runs it *)
(* at once, or never happens.  The assistant shows what the quick chat saves. *)
LeftBehind == \E s \in streams :
    /\ ~OnScreen(s) /\ Ended(s)
    /\ \/ LET msgs == Answered(s.by, s.left, Reply(s.id)) IN
          /\ Save(s, msgs)
          /\ shown' = IF <<s.by, place, current>> = <<"elsewhere", "assistant", s.thread>>
                      THEN msgs ELSE shown
       \/ UNCHANGED <<storage, threads, shown>>

(* handleUpload notes the file in the conversation.                           *)
QuickUpload ==
    /\ place = "elsewhere" /\ asked < MaxExchanges /\ asked' = asked + 1
    /\ \E t \in IF current = "none" THEN Fresh ELSE {current} :
          LET note == shown \o <<Ask(asked + 1), Reply(asked + 1)>> IN
          /\ current' = t /\ shown' = note
          /\ Save([by |-> "elsewhere", thread |-> t, knew |-> threads], note)
    /\ streams' = Disturbed(streams)
    /\ UNCHANGED <<place, agreed, typing, abortable, digest, moves>>
--------------------------------------------------------------------------------
(* The header and the sidebar of the assistant, the header of the quick chat. *)
Shows(t, msgs) == current' = t /\ shown' = msgs /\ streams' = Disturbed(streams)

Listed(t) == place = "assistant" /\ threads[t] # Absent

NewChat == \E t \in Fresh :
    /\ Moving /\ Shows(t, <<>>) /\ last' = t
    /\ UNCHANGED <<place, agreed, stored, copies, threads, typing, abortable, digest, asked>>

SelectThread == \E t \in Threads \ Digests :
    /\ Listed(t) /\ Moving
    /\ Shows(t, threads[t]) /\ last' = t
    /\ UNCHANGED <<place, agreed, stored, copies, threads, typing, abortable, digest, asked>>

SelectDigest == \E t \in Digests :
    /\ place = "assistant" /\ Moving
    /\ current' = t /\ digest' = digest \cup {t}
    /\ UNCHANGED <<place, agreed, storage, threads, shown, typing, abortable, streams, asked>>
DigestAnswered == \E t \in digest :
    /\ digest' = digest \ {t} /\ Shows(current, <<Reply(0)>>)
    /\ UNCHANGED <<place, agreed, storage, threads, typing, abortable, asked, moves>>

(* Mutant: the list in localStorage is not rewritten.                         *)
DeleteOnScreen == \E t \in Threads \ Digests :
    /\ Listed(t) /\ Moving
    /\ threads' = [threads EXCEPT ![t] = Absent]
    /\ copies' = [copies EXCEPT ![t] = Absent]
    /\ IF current = t THEN \E n \in Fresh : Shows(n, <<>>) /\ last' = n
                      ELSE UNCHANGED <<screen, streams, last>>
    /\ UNCHANGED <<place, agreed, stored, typing, abortable, digest, asked>>

DeleteThread == \E t \in Threads \ Digests :
    /\ Listed(t) /\ Moving
    /\ threads' = [threads EXCEPT ![t] = Absent] /\ stored' = threads'
    /\ copies' = [copies EXCEPT ![t] = Absent]
    /\ IF current = t THEN \E n \in Fresh : Shows(n, <<>>) /\ last' = n
                      ELSE UNCHANGED <<screen, streams, last>>
    /\ UNCHANGED <<place, agreed, typing, abortable, digest, asked>>

AcceptPrivacy ==
    /\ place = "assistant" /\ ~agreed /\ agreed' = TRUE
    /\ UNCHANGED <<place, storage, threads, screen, typing, abortable, streams, digest,
                   asked, moves>>

(* Mutant: a conversation without messages is not told apart.                 *)
QuickOpenUnchecked ==
    /\ place = "elsewhere" /\ current = "none" /\ last # "none"
    /\ Shows(last, Recently(copies[last]))
    /\ UNCHANGED <<place, agreed, storage, threads, typing, abortable, digest, asked, moves>>

(* handleOpen of the quick chat: the conversation to come back to, in part.   *)
QuickOpen ==
    /\ place = "elsewhere" /\ current = "none" /\ last # "none"
    /\ Shows(last, IF copies[last] \in {Absent, <<>>} THEN shown ELSE Recently(copies[last]))
    /\ UNCHANGED <<place, agreed, storage, threads, typing, abortable, digest, asked, moves>>

(* Another page: the chat that leaves the screen keeps its streams; the one   *)
(* that appears is new, and the assistant's restores the session.             *)
Move ==
    /\ Moving
    /\ place' = IF place = "assistant" THEN "elsewhere" ELSE "assistant"
    /\ streams' = {[s EXCEPT !.left = IF OnScreen(s) THEN shown ELSE @, !.calm = FALSE]
                      : s \in streams}
    /\ typing' = FALSE /\ abortable' = 0 /\ digest' = {}
    /\ threads' = stored
    /\ IF place' = "assistant" /\ last # "none" /\ copies[last] # Absent
       THEN current' = last /\ shown' = copies[last]
       ELSE current' = "none" /\ shown' = <<>>
    /\ UNCHANGED <<agreed, storage, asked>>
--------------------------------------------------------------------------------
AiChatInit ==
    /\ place = "assistant" /\ agreed \in BOOLEAN
    /\ stored = [t \in Threads |-> Absent] /\ copies = stored /\ threads = stored
    /\ last = "none" /\ current = "none" /\ shown = <<>>
    /\ typing = FALSE /\ abortable = 0 /\ streams = {} /\ digest = {}
    /\ asked = 0 /\ moves = 0

AiChatNext ==
    \/ Send \/ Chunk \/ AnswerEnds \/ AnswerFails \/ Stopped \/ LeftBehind \/ QuickUpload
    \/ NewChat \/ SelectThread \/ SelectDigest \/ DigestAnswered \/ DeleteThread
    \/ AcceptPrivacy \/ QuickOpen \/ Move

(* A stream ends: with the answer, an error, or the connection.               *)
AiChatSpec == AiChatInit /\ [][AiChatNext]_acVars /\ WF_acVars(AnswerEnds)
--------------------------------------------------------------------------------
Message == [role : {"user", "assistant"}, of : SUBSET (0 .. MaxExchanges), pending : BOOLEAN]
AiChatTypeOK ==
    /\ place \in {"assistant", "elsewhere"} /\ {agreed, typing} \subseteq BOOLEAN
    /\ \A t \in Threads : {stored[t], copies[t], threads[t]} \subseteq Seq(Message) \cup {Absent}
    /\ shown \in Seq(Message) /\ {last, current} \subseteq Threads \cup {"none"}
    /\ abortable \in 0 .. MaxExchanges /\ digest \subseteq Digests
    /\ \A s \in streams : s.id \in 1 .. asked /\ s.thread \in Threads

(* What the sidebar lists is what the next page load will find, whatever the  *)
(* streams and the quick chat saved meanwhile.                                *)
ListIsStored == place = "assistant" => threads = stored

(* An answer whose conversation stayed on screen, with no other question      *)
(* under way, is saved in that conversation right behind its question.        *)
AnswersFollowQuestions ==
    [][AnswerEnds => \A s \in streams \ streams' : s.calm =>
          LET msgs == stored'[s.thread]
          IN \E i \in 1 .. Len(msgs) - 1 :
                msgs[i] = Ask(s.id) /\ msgs[i + 1] = Reply(s.id)]_acVars

(* No bubble is left waiting for an answer nobody will give.                  *)
NoGhost == streams = {} => \A i \in DOMAIN shown : ~shown[i].pending

(* The typing indicator goes out, and ChatInput can be used again.            *)
TypingEnds == typing ~> ~typing

(* "Everything syncs into AI Assistant automatically" (QuickAIChat.tsx:299):  *)
(* saving an answer of the quick chat keeps the questions a thread holds.     *)
HistoryKept ==
    [][AnswerEnds /\ place = "elsewhere" => \A t \in Threads : stored[t] # Absent =>
          {m \in ToSet(stored[t]) : m.role = "user"} \subseteq ToSet(stored'[t])]_acVars

(* "Please accept the Privacy & User Agreement to access the AI Assistant"    *)
(* (AIAssistant.tsx:681).                                                     *)
AskedOnceAgreed == asked > 0 => agreed
================================================================================
