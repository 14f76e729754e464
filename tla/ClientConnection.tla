-------------------------- MODULE ClientConnection --------------------------
(***************************************************************************)
(* One client's connection: ClientPoolWorker (the handlers that the        *)
(* server's only io thread runs), NetworkMessage (the buffers a worker     *)
(* shares between its reads and writes) and TCPClientHandler (a query      *)
(* runs on a std::async thread; its result is fetched in fragments).       *)
(*                                                                         *)
(* The client is the one of QikkDB.NetworkClient: it sends a request only  *)
(* after it has read the whole answer to the one before, and the answer to *)
(* a query is two messages, WAIT and then the notification.                *)
(*                                                                         *)
(* A message on the way to the client is two parts, its size and its body. *)
(* A write puts the message into size_ and serializedMessage_ and sends    *)
(* from there later, so what is sent is what the buffers hold by then.     *)
(***************************************************************************)
EXTENDS Integers, Sequences, SequencesExt, FiniteSets

CONSTANTS
    FRAGMENT_SIZE,   \* records in one fragment of a result
    MaskBits,        \* records covered by one word of a null mask
    Lengths,         \* numbers of records a result may have
    Databases,       \* what the client may set as its current database
    MaxQueries,      \* bound: queries the client sends
    MaxOther         \* bound: heartbeats and changes of database it sends

ASSUME ConnectionAssumption ==
    /\ MaskBits \in Nat \ {0}
    /\ FRAGMENT_SIZE \in Nat \ {0}
    /\ FRAGMENT_SIZE % MaskBits = 0
    /\ Lengths \subseteq Nat
    /\ Databases # {}
    /\ MaxQueries \in Nat
    /\ MaxOther \in Nat

VARIABLES
    clientPc,      \* what the client does or waits for
    queries,       \* number of queries it has sent
    others,        \* number of its other requests
    got,           \* records of the last query's result it has received
    received,      \* the last message it has read
    up,            \* requests on the way to the server
    down,          \* parts of messages on the way to the client
    open,          \* socket_.is_open()
    reading,       \* the worker's async_read is pending
    io,            \* what the io thread is inside of, for this connection
    target,        \* the parser that Abort has found in parser_
    size,          \* the message whose size is in size_
    serialized,    \* the message that is in serializedMessage_
    writes,        \* pending async_writes: 0 is the worker's, q the notification's
    overtaken,     \* has a query ended before its WAIT was written?
    current,       \* currentDatabase_
    pc,            \* pc[q]: where the thread of query q is
    db,            \* db[q]: the database it was started on
    result,        \* result[q]: what Parse returned or threw
    holder,        \* holder[d]: the query that holds d's dbMutex_
    parser,        \* the query whose parser is in parser_, 0 for nullptr
    wasAborted,    \* wasAborted_ of that parser
    cancelled,     \* queries whose parser Abort has interrupted while it was parsing
    future,        \* the query whose future is in lastQueryResult_, 0 if not valid
    message,       \* the query whose result is in lastResultMessage_, 0 for nullptr
    sentRecords,   \* sentRecords_
    lastResultLen  \* lastResultLen_

clientVars == <<clientPc, queries, others, got, received>>
netVars == <<down, size, serialized, writes>>
workerVars == <<open, reading, io, target, current>>
history == <<cancelled, overtaken>>
threadVars == <<pc, db, result, holder, parser, wasAborted, history>>
resultVars == <<future, message, sentRecords, lastResultLen>>
vars == <<clientVars, up, netVars, workerVars, threadVars, resultVars>>

Query == 1..MaxQueries

\* What Parse ends in: a response of n records (onlyPoints: all its columns are
\* points), an exception, or nullptr after an interruption.
Response == [n : Lengths, onlyPoints : BOOLEAN, kind : {"response"}]
Failed == [n |-> 0, onlyPoints |-> FALSE, kind |-> "failed"]
Interrupted == [n |-> 0, onlyPoints |-> FALSE, kind |-> "interrupted"]
Unknown == [n |-> 0, onlyPoints |-> FALSE, kind |-> "unknown"]

\* A message to the client. rows and mask are filled only in a fragment: the
\* records it carries and the words of the null mask that come with them.
Message(code, q, rows, mask) == [code |-> code, query |-> q, rows |-> rows, mask |-> mask]
Info(code, q) == Message(code, q, <<>>, <<>>)
NoMessage == Info("none", 0)

NoWrite == [of |-> NoMessage, part |-> "none"]

-----------------------------------------------------------------------------
(* The fragments of a result *)

GetNullBitMaskSize(records) == (records + MaskBits - 1) \div MaskBits

\* The longest payload. A column of points is counted by its (empty) payload
\* of doubles.
PayloadLen(r) == IF r.onlyPoints THEN 0 ELSE r.n

Rows(from, count) == [i \in 1..count |-> from + i - 1]

\* The words start..start+words-1 of the complete mask, and one more: the copy
\* loop runs once past the end of the buffer. -1 is what it finds there.
MaskWords(start, words) == Append(Rows(start, words), -1)

Whole(q) == Message("result", q, Rows(0, result[q].n),
                    Rows(0, GetNullBitMaskSize(result[q].n)))

BufferSize(len, sent) == IF FRAGMENT_SIZE > len - sent THEN len - sent ELSE FRAGMENT_SIZE

MaskStart(sent) == GetNullBitMaskSize(sent)

Fragment(q, len, sent) ==
    LET bufferSize == BufferSize(len, sent)
    IN  Message("result", q, Rows(sent, bufferSize),
                MaskWords(MaskStart(sent), GetNullBitMaskSize(bufferSize)))

-----------------------------------------------------------------------------
(* Messages to the client *)

\* WriteToNetwork: fills the shared buffers and starts to write the size.
WriteToNetwork(writer, m) ==
    /\ size' = m
    /\ serialized' = m
    /\ writes' = [writes EXCEPT ![writer] = [of |-> m, part |-> "size"]]
    /\ UNCHANGED down

\* The size goes out, from size_.
WriteSize(writer) ==
    /\ open
    /\ writes[writer].part = "size"
    /\ down' = Append(down, [part |-> "size", of |-> size])
    /\ writes' = [writes EXCEPT ![writer].part = "body"]
    /\ UNCHANGED <<clientVars, up, size, serialized, workerVars, threadVars, resultVars>>

\* The size has been sent: the io thread sends the body from serializedMessage_,
\* and the worker goes on with ClientLoop.
WriteBody(writer) ==
    /\ open
    /\ io = "idle"
    /\ writes[writer].part = "body"
    /\ down' = Append(down, [part |-> "body", of |-> serialized])
    /\ writes' = [writes EXCEPT ![writer] = NoWrite]
    /\ reading' = (reading \/ writer = 0)
    /\ UNCHANGED <<clientVars, up, size, serialized, open, io, target, current,
                   threadVars, resultVars>>

\* A write on a closed socket fails and its handler aborts the worker again.
WriteFails(writer) ==
    /\ ~open
    /\ io = "idle"
    /\ writes[writer] # NoWrite
    /\ writes' = [writes EXCEPT ![writer] = NoWrite]
    /\ io' = "abort"
    /\ target' = parser
    /\ UNCHANGED <<clientVars, up, down, size, serialized, open, reading, current,
                   threadVars, resultVars>>

-----------------------------------------------------------------------------
(* The worker's handlers, on the io thread *)

\* ReadFromNetwork has read a request; it was read into serializedMessage_.
Receive(kind) ==
    /\ open
    /\ reading
    /\ io = "idle"
    /\ up # <<>>
    /\ Head(up).kind = kind
    /\ up' = Tail(up)
    /\ reading' = FALSE

Answer(m) ==
    /\ WriteToNetwork(0, m)
    /\ io' = "idle"

\* A request that is answered with OK at once: the hello, a heartbeat, and a
\* SetDatabase, which changes currentDatabase_ for the queries to come.
HandleHello ==
    /\ Receive("hello")
    /\ Answer(Info("ok", 0))
    /\ UNCHANGED <<clientVars, open, target, current, threadVars, resultVars>>

HandleHeartbeat ==
    /\ Receive("heartbeat")
    /\ Answer(Info("ok", 0))
    /\ UNCHANGED <<clientVars, open, target, current, threadVars, resultVars>>

HandleSetDatabase ==
    /\ Receive("setDatabase")
    /\ current' = Head(up).db
    /\ Answer(Info("ok", 0))
    /\ UNCHANGED <<clientVars, open, target, threadVars, resultVars>>

\* Mutant: a new query does not reset the fragments of the last.
KeepFragments == UNCHANGED <<sentRecords, lastResultLen>>
ResetFragments == sentRecords' = 0 /\ lastResultLen' = 0

\* HandleQuery: starts the query's thread. Assigning lastQueryResult_ destroys
\* the future it held, which waits for that future's thread to end.
HandleQuery ==
    /\ Receive("query")
    /\ LET q == Head(up).query
       IN  /\ ResetFragments
           /\ pc' = [pc EXCEPT ![q] = "lock"]
           /\ db' = [db EXCEPT ![q] = current]
           /\ IF future = 0 \/ pc[future] = "done"
              THEN /\ future' = q
                   /\ Answer(Info("wait", q))
              ELSE /\ io' = "assign"
                   /\ UNCHANGED <<future, netVars>>
    /\ UNCHANGED <<clientVars, open, target, current, result, holder, parser,
                   wasAborted, history, message>>

\* The thread of the destroyed future has ended: HandleQuery goes on.
AssignReturns ==
    /\ io = "assign"
    /\ pc[future] = "done"
    /\ future' = queries
    /\ Answer(Info("wait", queries))
    /\ UNCHANGED <<clientVars, up, open, reading, target, current, threadVars,
                   message, sentRecords, lastResultLen>>

IsLast(len) == sentRecords + FRAGMENT_SIZE >= len

ResultKind(m) == IF m = 0 THEN "none" ELSE result[m].kind

\* GetNextQueryResult once lastQueryResult_ has been fetched into
\* lastResultMessage_ (m): the end of the results, the message as it is, or
\* the next fragment of it.
NextResult(m) ==
    LET len == IF lastResultLen = 0 THEN PayloadLen(result[m]) ELSE lastResultLen
    IN  \/ /\ ResultKind(m) \in {"none", "interrupted"}
           /\ Answer(Info("ok", 0))
           /\ message' = 0
           /\ UNCHANGED <<sentRecords, lastResultLen>>
        \/ /\ ResultKind(m) = "failed"
           /\ Answer(Info("error", m))
           /\ message' = 0
           /\ UNCHANGED <<sentRecords, lastResultLen>>
        \/ /\ ResultKind(m) = "response"
           /\ len < FRAGMENT_SIZE
           /\ Answer(Whole(m))
           /\ message' = 0
           /\ UNCHANGED <<sentRecords, lastResultLen>>
        \/ /\ ResultKind(m) = "response"
           /\ len >= FRAGMENT_SIZE
           /\ Answer(Fragment(m, len, sentRecords))
           /\ IF IsLast(len)
              THEN ResetFragments /\ message' = 0
              ELSE /\ sentRecords' = sentRecords + FRAGMENT_SIZE
                   /\ lastResultLen' = len
                   /\ message' = m

\* GET_NEXT_RESULT: lastQueryResult_.get() waits for the query's thread.
HandleGetNextResult ==
    /\ Receive("getNext")
    /\ IF future = 0
       THEN NextResult(message) /\ UNCHANGED future
       ELSE /\ io' = "get"
            /\ UNCHANGED <<netVars, resultVars>>
    /\ UNCHANGED <<clientVars, open, target, current, threadVars>>

GetReturns ==
    /\ io = "get"
    /\ pc[future] = "done"
    /\ NextResult(future)
    /\ future' = 0
    /\ UNCHANGED <<clientVars, up, open, reading, target, current, threadVars>>

\* Abort begins: TCPClientHandler::Abort finds the parser. It is called when
\* the client takes its leave, when a read fails because the client has gone,
\* and when the deadline passes while the worker waits for a request.
AbortBegins ==
    /\ io' = "abort"
    /\ target' = parser

HandleConnEnd ==
    /\ Receive("connEnd")
    /\ AbortBegins
    /\ UNCHANGED <<clientVars, netVars, open, current, threadVars, resultVars>>

ReadFails ==
    /\ open /\ reading /\ io = "idle"
    /\ clientPc = "closed" /\ up = <<>>
    /\ reading' = FALSE
    /\ AbortBegins
    /\ UNCHANGED <<clientVars, up, netVars, open, current, threadVars, resultVars>>

OnTimeout ==
    /\ open /\ reading /\ io = "idle" /\ up = <<>>
    /\ AbortBegins
    /\ UNCHANGED <<clientVars, up, netVars, open, reading, current, threadVars, resultVars>>

\* Abort ends: the parser found is interrupted (if it is still the one that
\* exists) and the socket closed.
AbortEnds ==
    /\ io = "abort"
    /\ IF target # 0 /\ target = parser
       THEN /\ wasAborted' = TRUE
            /\ cancelled' = cancelled \union {q \in {parser} : pc[q] = "parsing"}
       ELSE UNCHANGED <<wasAborted, cancelled>>
    /\ open' = FALSE
    /\ reading' = FALSE
    /\ io' = "idle"
    /\ target' = 0
    /\ UNCHANGED <<clientVars, up, netVars, current, pc, db, result, holder, parser, overtaken,
                   resultVars>>

-----------------------------------------------------------------------------
(* RunQuery, on the thread of query q *)

LockDatabase(q) ==
    /\ pc[q] = "lock"
    /\ holder[db[q]] = 0
    /\ holder' = [holder EXCEPT ![db[q]] = q]
    /\ pc' = [pc EXCEPT ![q] = "locked"]
    /\ UNCHANGED <<clientVars, up, netVars, workerVars, db, result, parser, wasAborted,
                   history, resultVars>>

\* parser_ gets a new parser; the one it held is destroyed.
MakeParser(q) ==
    /\ pc[q] = "locked"
    /\ parser' = q
    /\ pc' = [pc EXCEPT ![q] = "made"]
    /\ UNCHANGED <<clientVars, up, netVars, workerVars, db, result, holder, wasAborted,
                   history, resultVars>>

\* Parse begins and clears wasAborted_.
BeginParse(q) ==
    /\ pc[q] = "made"
    /\ wasAborted' = FALSE
    /\ pc' = [pc EXCEPT ![q] = "parsing"]
    /\ UNCHANGED <<clientVars, up, netVars, workerVars, db, result, holder, parser,
                   history, resultVars>>

\* Mutant: a parser that was interrupted returns what it has.
AnyOutcome == {Interrupted} \union Response

\* After a normal end of the dispatchers: nothing if the parser was interrupted.
Outcome == IF wasAborted THEN {Interrupted} ELSE Response

\* Parse throws, or returns nullptr if it was interrupted, a response if not.
EndParse(q) ==
    /\ pc[q] = "parsing"
    /\ \/ /\ result' = [result EXCEPT ![q] = Failed]
          /\ pc' = [pc EXCEPT ![q] = "ended"]
       \/ /\ \E r \in Outcome :
                 result' = [result EXCEPT ![q] = r]
          /\ pc' = [pc EXCEPT ![q] = "parsed"]
    /\ UNCHANGED <<clientVars, up, netVars, workerVars, db, holder, parser, wasAborted,
                   history, resultVars>>

DestroyParser(q) ==
    /\ pc[q] = "parsed"
    /\ parser' = 0
    /\ pc' = [pc EXCEPT ![q] = "ended"]
    /\ UNCHANGED <<clientVars, up, netVars, workerVars, db, result, holder, wasAborted,
                   history, resultVars>>

\* Mutant: the end of a query is not notified.
NoNotice(q) == FALSE
Notice(q) == open

\* The handler: the notification is written, from this thread, into the buffers
\* of the worker, where WAIT may still be.
Notify(q) ==
    /\ pc[q] = "ended"
    /\ pc' = [pc EXCEPT ![q] = "notified"]
    /\ IF Notice(q)
       THEN WriteToNetwork(q, Info(IF result[q].kind = "response" THEN "notice" ELSE "refusal", q))
       ELSE UNCHANGED netVars
    /\ overtaken' = (overtaken \/ io = "assign" \/ writes[0] # NoWrite)
    /\ UNCHANGED <<clientVars, up, workerVars, db, result, holder, parser, wasAborted,
                   cancelled, resultVars>>

\* Mutant: RunQuery destroys whatever is in parser_ when it returns.
ReturnDestroysParser(q) ==
    /\ pc[q] = "notified"
    /\ holder' = [holder EXCEPT ![db[q]] = 0]
    /\ parser' = 0
    /\ pc' = [pc EXCEPT ![q] = "done"]
    /\ UNCHANGED <<clientVars, up, netVars, workerVars, db, result, wasAborted, history,
                   resultVars>>

\* RunQuery returns: the future becomes ready and dbLock is released.
Return(q) ==
    /\ pc[q] = "notified"
    /\ holder' = [holder EXCEPT ![db[q]] = 0]
    /\ pc' = [pc EXCEPT ![q] = "done"]
    /\ UNCHANGED <<clientVars, up, netVars, workerVars, db, result, parser, wasAborted,
                   history, resultVars>>

-----------------------------------------------------------------------------
(* The client *)

Request(kind, q, d) == up' = Append(up, [kind |-> kind, query |-> q, db |-> d])

AnyDatabase == CHOOSE d \in Databases : TRUE

SendQuery ==
    /\ clientPc = "idle"
    /\ queries < MaxQueries
    /\ queries' = queries + 1
    /\ Request("query", queries + 1, AnyDatabase)
    /\ clientPc' = "wait"
    /\ got' = <<>>
    /\ received' = NoMessage
    /\ UNCHANGED <<others, netVars, workerVars, threadVars, resultVars>>

\* The result of the last query is asked for until the server answers OK.
SendGetNextResult ==
    /\ clientPc = "idle"
    /\ queries > 0
    /\ received.code \in {"notice", "refusal", "result"}
    /\ Request("getNext", 0, AnyDatabase)
    /\ clientPc' = "result"
    /\ UNCHANGED <<queries, others, got, received, netVars, workerVars, threadVars, resultVars>>

SendOther ==
    /\ clientPc = "idle"
    /\ others < MaxOther
    /\ \/ Request("heartbeat", 0, AnyDatabase)
       \/ \E d \in Databases : Request("setDatabase", 0, d)
    /\ others' = others + 1
    /\ clientPc' = "answer"
    /\ UNCHANGED <<queries, got, received, netVars, workerVars, threadVars, resultVars>>

\* Close: CONN_END is sent. CloseWithoutNotify, or the client's end: it is not.
Close ==
    /\ clientPc = "idle"
    /\ Request("connEnd", 0, AnyDatabase)
    /\ clientPc' = "closed"
    /\ UNCHANGED <<queries, others, got, received, netVars, workerVars, threadVars, resultVars>>

CloseWithoutNotify ==
    /\ clientPc # "closed"
    /\ clientPc' = "closed"
    /\ UNCHANGED <<queries, others, got, received, up, netVars, workerVars, threadVars, resultVars>>

\* What the client may read, in each of the states in which it waits, and the
\* state it is in then.
Expected(m) ==
    \/ clientPc = "answer" /\ m.code = "ok"
    \/ clientPc = "wait" /\ m.code = "wait" /\ m.query = queries
    \/ clientPc = "notice" /\ m.code \in {"notice", "refusal"} /\ m.query = queries
    \/ clientPc = "result" /\ m.code \in {"result", "error", "ok"}

Read ==
    /\ clientPc \in {"answer", "wait", "notice", "result"}
    /\ Len(down) >= 2
    /\ LET m == down[2].of
       IN  IF /\ down[1].part = "size" /\ down[2].part = "body"
              /\ down[1].of = m
              /\ Expected(m)
           THEN /\ clientPc' = IF clientPc = "wait" THEN "notice" ELSE "idle"
                /\ received' = IF clientPc = "answer" THEN received ELSE m
                /\ got' = got \o m.rows
           ELSE /\ clientPc' = "invalid"
                /\ UNCHANGED <<received, got>>
    /\ down' = SubSeq(down, 3, Len(down))
    /\ UNCHANGED <<queries, others, up, size, serialized, writes, workerVars, threadVars,
                   resultVars>>

\* The server has closed the connection: the client's read fails.
ReadEnd ==
    /\ clientPc \in {"answer", "wait", "notice", "result"}
    /\ ~open /\ Len(down) < 2
    /\ clientPc' = "closed"
    /\ UNCHANGED <<queries, others, got, received, up, netVars, workerVars, threadVars, resultVars>>

-----------------------------------------------------------------------------
Init ==
    /\ clientPc = "answer"
    /\ queries = 0
    /\ others = 0
    /\ got = <<>>
    /\ received = NoMessage
    /\ up = <<[kind |-> "hello", query |-> 0, db |-> AnyDatabase]>>
    /\ down = <<>>
    /\ open = TRUE
    /\ reading = TRUE
    /\ io = "idle"
    /\ target = 0
    /\ size = NoMessage
    /\ serialized = NoMessage
    /\ writes = [w \in {0} \union Query |-> NoWrite]
    /\ overtaken = FALSE
    /\ current = AnyDatabase
    /\ pc = [q \in Query |-> "none"]
    /\ db = [q \in Query |-> AnyDatabase]
    /\ result = [q \in Query |-> Unknown]
    /\ holder = [d \in Databases |-> 0]
    /\ parser = 0
    /\ wasAborted = FALSE
    /\ cancelled = {}
    /\ future = 0
    /\ message = 0
    /\ sentRecords = 0
    /\ lastResultLen = 0

IoStep ==
    \/ \E w \in {0} \union Query : WriteSize(w) \/ WriteBody(w) \/ WriteFails(w)
    \/ HandleHello
    \/ HandleHeartbeat
    \/ HandleSetDatabase
    \/ HandleQuery
    \/ AssignReturns
    \/ HandleGetNextResult
    \/ GetReturns
    \/ HandleConnEnd
    \/ ReadFails
    \/ AbortEnds

ThreadStep(q) ==
    \/ LockDatabase(q)
    \/ MakeParser(q)
    \/ BeginParse(q)
    \/ EndParse(q)
    \/ DestroyParser(q)
    \/ Notify(q)
    \/ Return(q)

Next ==
    \/ IoStep
    \/ OnTimeout
    \/ \E q \in Query : ThreadStep(q)
    \/ SendQuery
    \/ SendGetNextResult
    \/ SendOther
    \/ Close
    \/ CloseWithoutNotify
    \/ Read
    \/ ReadEnd

\* The io thread runs its ready handlers, the operating system schedules the
\* query threads, and a client that waits for a message reads it. Nobody is
\* obliged to send a request, to leave or to let the deadline pass.
Fairness ==
    /\ WF_vars(IoStep)
    /\ \A q \in Query : WF_vars(ThreadStep(q))
    /\ WF_vars(Read \/ ReadEnd)

Spec == Init /\ [][Next]_vars /\ Fairness

-----------------------------------------------------------------------------
(* Properties *)

Waiting == clientPc \in {"answer", "wait", "notice", "result"}

\* The variables of the worker and of its handler stay in their types: in
\* particular sentRecords_ is a position inside the result that is being sent,
\* at the start of a word of its null mask.
TypeOK ==
    /\ clientPc \in {"idle", "answer", "wait", "notice", "result", "closed", "invalid"}
    /\ queries \in 0..MaxQueries
    /\ others \in 0..MaxOther
    /\ open \in BOOLEAN /\ reading \in BOOLEAN /\ wasAborted \in BOOLEAN
    /\ io \in {"idle", "assign", "get", "abort"}
    /\ {target, parser, future, message} \subseteq {0} \union Query
    /\ current \in Databases
    /\ pc \in [Query -> {"none", "lock", "locked", "made", "parsing", "parsed", "ended",
                         "notified", "done"}]
    /\ db \in [Query -> Databases]
    /\ holder \in [Databases -> {0} \union Query]
    /\ result \in [Query -> Response \union {Failed, Interrupted, Unknown}]
    /\ cancelled \subseteq Query
    /\ lastResultLen \in {0} \union Lengths
    /\ sentRecords \in Nat /\ sentRecords % MaskBits = 0
    /\ sentRecords = 0 \/ sentRecords < lastResultLen

\* The client never reads anything but the answer it waits for: after a query
\* WAIT and then that query's notification, each with its own size and body
\* (HandleMessage writes WAIT, RunQuery's handler the notification, both
\* through the worker's one NetworkMessage), unless a query was overtaken.
AnswersInOrder == ~overtaken => clientPc # "invalid"

\* The records the client has received since its last query are the first ones
\* of that query's result, in order and each once; and when the server says
\* that nothing is left, they are all of them (GetNextQueryResult, whatever
\* was left of the results of earlier queries).
ResultExact ==
    queries > 0 =>
        LET rows == Rows(0, result[queries].n)
        IN  /\ IsPrefix(got, rows)
            /\ received.code = "ok" => got = rows

\* The words of the null mask that come with a fragment are the ones of its
\* records (GetNextQueryResult, start and nullMaskBufferSize).
MasksCoverRows ==
    \A i \in 1..Len(received.rows) :
        received.mask[(i - 1) \div MaskBits + 1] = received.rows[i] \div MaskBits

\* The client gets the answers it waits for, and in them the rows of its
\* result and their nulls.
ResultReceived == TypeOK /\ AnswersInOrder /\ ResultExact /\ MasksCoverRows

\* The parser of a query that is being parsed is the one in parser_: no other
\* query of the connection has replaced or destroyed it, even though after a
\* SetDatabase two queries do not share a dbMutex_ (RunQuery).
ParserStays ==
    \A q \in Query : pc[q] \in {"made", "parsing", "parsed"} => parser = q

\* Whoever waits for an answer gets one, or learns that the connection is closed.
RequestsAnswered == Waiting ~> ~Waiting

\* A query that is interrupted while it is parsed returns no response (Abort,
\* "cancel query execution"), whatever queries come after it; an interruption
\* that comes before Parse is lost.
CancelledQueriesStop ==
    \A q \in cancelled :
        pc[q] \in {"parsed", "ended", "notified", "done"} => result[q].kind # "response"
=============================================================================
