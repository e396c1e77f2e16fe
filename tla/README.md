# Verification of the iRODS HTTP API

TLA+ models of the iRODS HTTP API server, the TLC runs that check them on small
instances, and theorems that TLAPS proves for every value of their constants.
`PROJECT.json` is the machine-readable index: the components, the runs, the lines
of the source behind every definition, the findings, the hazards and the theorems.

## The system

The server (`src/core`) accepts HTTP connections, authenticates each request,
hands it to an endpoint (`src/endpoints`), and the endpoint talks to an iRODS
server on behalf of the user. Two plugins (`src/plugins`) map users of an OpenID
provider to iRODS users.

| component | state | operations | what makes it correct |
|---|---|---|---|
| session (`core/src/session.cpp`) | socket, parser, the last response | read a header, read a body, reply, close, time out | replies in the order of the requests; only headers parsed as headers; every session ends |
| background I/O (`globals.cpp`, `common.cpp: get_connection`) | thread pools, FIFO of tasks, pool of iRODS connections | post and run a task, take and give back a connection | no wait for ever, reads keep no pooled connection |
| process stash (`process_stash.cpp`), bearer tokens (`authentication`, `common.cpp: resolve_client_identity`, eviction timer in `main.cpp`) | map of tokens to users and expiries, a shared mutex, a timer | insert, find, erase_if, re-arm | a token is good from its login to its expiry, for its owner only; what expired leaves |
| parallel writes (`data_objects`: `op_parallel_write_init`, `op_write`, `op_write_streaming`, `op_parallel_write_shutdown`) | table of contexts under a shared mutex, streams with `in_use_` flags, a global atomic count | open, pick, write, give back, close | a stream the server picks has one writer; flags and count are exact; contexts outlive the writes that use them; primary closed last; limit kept |
| bytes of writes (`incremental_write`, `streaming_write`) | position and failed state of every stream | seek, write a chunk, finish | bytes land at the offset; no holes; ok means written |
| reads (`op_read`, `incremental_read`) | a stream, remaining bytes, one or two connections | stat, size, open, seek, read, send | a whole reply is complete, from the range asked for; tickets work |
| the other operations (`collections`, `data_objects`, `resources`, `zones`, `users_groups`, `rules`, `query`, `tickets`, `shared`) | none of their own; the catalog of iRODS | check, look at the kind of the path, call, answer | ok means done, and wholly; who is refused by a check called nothing; the right kind of entity |
| `tickets` `create`, `users_groups` `stat`, `query` | none of their own | a sequence of calls; a page | a ticket that is told has its constraints; a stat was true; pages cover the rows |
| arguments of a request (`common.cpp: execute_operation, parse_url, to_argument_list`, `multipart_form_data.cpp`) | a position in the text, the arguments so far | split, decode, find parts, choose the operation | the handler gets what the client meant |
| OpenID Connect validation (`openid.cpp`, `common.cpp: resolve_client_identity`) | the JWKs of the provider, fetched once | fetch, choose a key, verify, introspect, map | who is accepted is vouched for; no good token refused for nothing; every request answered, if the provider speaks |
| local_file plugin (`plugins/user_mapping/src/local_file.cpp`) | list of mappings, time of the file, two mutexes | load, reload, match | always some mappings, never older after newer, edits taken over |
| shutdown (`core/src/main.cpp`) | signal, thread pools, what main owns | stop, join, destroy in order | nothing runs when things are destroyed; the server ends |
| user_claim plugin, `compatibility.cpp`, configuration, logging, information endpoint | none | | not modelled, see below |

How they meet: a *session* runs on the threads of the `io_context`. Its handler
resolves the bearer token in the *process stash* (and the *plugin*), and posts a
task to the *background I/O* queue. The task takes an iRODS connection from the
pool, calls iRODS, and calls `session::send`, which starts the reply from the
background thread. Large reads and buffered writes post one task per chunk;
`op_write_streaming` alternates between the socket and tasks. *Parallel writes*
share their table, flags and count between all these threads.

What is hard to test here: requests that meet between the release of a lock and
the use of what was found under it; counters compared in one place and raised
in another; connections kept while waiting for threads, and threads kept while
waiting for connections; early error replies on a connection that is still
receiving; timeouts that pass while a request is served; files, objects, users
and keys that change between two looks at them; streams that keep their state
between requests; a server that is told to stop while it serves. `PROJECT.json` lists each at its line, under `hazards`.

## Modules

| module | models | abstract specification or proofs |
|---|---|---|
| `ParallelWrite` | the contexts, streams, flags, count, and the three operations on them | implements `StreamLease`; `ParallelWriteProofs` |
| `BackgroundIo` | threads, queue, connection pool, four kinds of requests | `ShutdownProofs` |
| `Shutdown` | the end of main, composed with `BackgroundIo` | `ShutdownProofs` |
| `ProcessStash` | stash, login, resolve_client_identity, eviction | implements `BearerTokens`; `ProcessStashProofs` |
| `Session` | one connection of a client | `SessionProofs` |
| `RequestArguments` | from what is sent to the arguments of a handler | `SessionProofs` |
| `LocalFileMapping` | the plugin and the file | `AuthenticationProofs` |
| `OpenIdTokens` | tokens the stash does not know, and a provider that rotates its keys | `AuthenticationProofs` |
| `DataObjectRead` | one read and the object it reads | `DataObjectReadProofs` |
| `DataObjectWrite` | the bytes of writes that share streams | `DataObjectWriteProofs` |
| `EndpointOperations`, `Operations` | the table of the other operations, and the machine that runs two of them on one path | `OperationsProofs` |
| `TicketCreation`, `UserStat`, `QueryPaging` | the handlers that make several calls, and pages | `OperationsProofs` |

`MC*.tla` hold symmetry sets and constants for TLC, `MC*_<run>.cfg` the runs.
`MCParallelWrite`, `MCBackgroundIo` and `MCShutdown` are about one module each;
`MCAuthentication` has `ProcessStash`, `LocalFileMapping` and `OpenIdTokens`, `MCSession` has
`Session` and `RequestArguments`, `MCDataObject` has `DataObjectRead` and `DataObjectWrite`,
and `MCOperations` has `Operations`, `TicketCreation`, `UserStat` and `QueryPaging`. The modules
that one MC module extends share no state, and its
variable `part` says which of them a behaviour is of; the others stay in one initial
state. Their type invariants are checked as one, `TypesOK`. The definitions headed "Faulty variant" in a module are not used by it:
each is a plausible mistake in the definition below it, kept to show that the
properties notice it (`mutants` in `PROJECT.json`).

### ParallelWrite

State: `lock` is the exclusive hold of `g_pwc_mtx`, `phase[h]` where the context
with handle `h` is in its life, `size/open/bad/inUse[h]` its vector of streams,
`active` the global atomic, `known` the handles clients have; `pc`, `hdl`, `idx`,
`count`, `marked`, `streaming`, `byIndex`, `code` are the local variables of the
request in a slot.

| action | code |
|---|---|
| `StartInit`, `RefuseCount`, `RefuseOverLimit`, `PassLimits` | the checks of `op_parallel_write_init` |
| `OpenStream`, `OpenFails`, `Publish` | its streams one at a time, the exception path, the insertion into the table |
| `StartWrite`, `FindContext` | `op_write` and `op_write_streaming`; the look-up under the shared lock |
| `PickByIndex`, `PickFree`, `AllBusy` | the choice of a stream, and 429 |
| `CheckStream`, `ReceiveChunk`, `WriteChunk`, `EndWrite` | seek and state test, the chunks, the reply |
| `Finish` | the scope exit that clears `in_use_` after the reply |
| `StartShutdown`, `LockContexts`, `NothingToShutDown`, `CloseStream`, `EraseContext` | `op_parallel_write_shutdown`, which holds the lock throughout |

With `AwaitReplies = TRUE` clients shut a handle down after their writes were
answered and do not write afterwards; with `FALSE` they do anything. What a
request reads from an erased context (undefined behaviour) is the last contents.
`UsesContext` says when a request has a use for pointers into its context: from the
look-up to its reply, and once more in `Finish`, where the scope exit clears `in_use_`.

`StreamLease` is what a client that names no stream is promised. It knows how many
streams a handle offers, which are lent to whom, and who was told that all are:
`Offer`, `Take` the first that is free, `Refuse` if none is, `End`. The mapping
(`Lease == INSTANCE StreamLease WITH ...`) takes a stream for lent from
`find_available_parallel_write_stream` to the scope exit (`marked`), and for busy
a request with the reply 429. Flags, locks, closing and erasing are not in it.

### BackgroundIo and Shutdown

A request is named, and is in one of the places `unsent, ready, io, queued, bg,
socket, answered`. Kinds differ by where they call `get_connection` and how long
they keep the connection; `compat` is the setting that bypasses the pool. `WantConnection`/`GetConnection` is the blocking call:
the thread stays occupied in between. `HandOver` is the posting of the task by
the handler, `DedicatedConnection` is `op_read` leaving the pool, `MoveChunk`
one task of a transfer.

`Shutdown` extends it: every step of a request goes on as far as the threads it needs
are not stopped (`Serve`). `Signal`, `HandleSignal`, `StopThreads`, `JoinHandlers`,
`JoinTasks`, `CloseMapper` follow `main` after `ioc.run()`, and `DestroyTasks`,
`DestroyHandlers`, `DestroyPool` the destructors, in the order opposite to the declarations:
what is queued or waits for a socket is destroyed with its session and connection.

### ProcessStash and BearerTokens

`BearerTokens` is what API.md promises: logins issue fresh tokens of a bounded
lifetime; a request that shows a token is accepted as its owner, or refused; the
clock runs. It has no store. `ProcessStash` has the map, the copies `find` takes
(`who`, `until`), the separate look at the clock (`CheckExpiry`), the provider
that may accept an access token, and the timer (`Evict`, `Rearm`). The mapping
(`Promise == INSTANCE BearerTokens WITH ...`) forgets the map.

### Session

Client: `SendHeader`, `SendPart`, `Leave` (it may send requests ahead). Server:
`ReadHeader`, `ReadBody`, `ReadEnds`, `TimeOut`, the handler and its task, the
replies, the chunks of large reads and streamed writes, `NextRequest`. Bytes are
known from the positions of the two sides, so `ReadPartAsHeader` is the case
that a rest of a body is at the head of the socket when a header is read.

### RequestArguments

A text is a sequence of tokens: line ends, boundaries, separators, escapes, characters.
A client means a form, and sends it as a query, URL-encoded (with a space as `+` or
escaped) or as a multipart form, whole, cut anywhere or without any one token. `Dispatch`
is the choice by method and content type, `SplitToken` a round of `to_argument_list`;
`FindBoundaryStart`, `ReadBoundaryStart`, `ReadPartHeader`, `ReadPartBody` are the four
states of the parser, and `SelectOperation` looks `op` up.

### LocalFileMapping and OpenIdTokens

`edit` numbers the edits; a file's contents and its time are both that number.
`CheckTime`, `Parse`, `Swap` are the three looks of `update()` at the file,
`Match` the `try_lock`, `Lookup` the search under the shared lock. An edit may leave a file
that does not parse, or none, which has no time either.

`OpenIdTokens` has a thread per request. `Arrive` brings a token that the stash does not
know. For local validation, `StartFetch`, `Fetched`, `FetchFails` are the initialisation
of the function-local static that holds the keys, and `Verify` the choice of a key and the
verification; `Rotate` has the provider publish other keys. For introspection, `Ask` is the
provider's answer with the members it likes. In either exchange the provider may fail, or fall
silent for ever (`FallSilent`), as nothing in `transport.cpp` limits the time. `MapUser` is the plugin. A signature is the name of the key it was made with.

### DataObjectRead and DataObjectWrite

A byte of a read is the number of the change that wrote it; a byte of a write is
its number in the body. Each iRODS call is an action, and `Change`, `Remove` (other
clients) may come between any two. `DataObjectWrite` starts and ends the writing of
a chunk separately, since two requests may use one stream by its `stream-index`.

### EndpointOperations and Operations

About sixty operations share one order of steps: parameters, connection, kind of
the path, later parameters, one call, answer. Each is a record of what differs
(`faults`, `about`, `needs`, `takes`, `effect`, `mismatch`, `refusal`, `thrown`,
`output`), with its own lines in the map. `Operations` runs two of them on one
path; the effect of a call is the only thing taken from the iRODS server. A call that is
answered with an error (`Refuse`) may have done nothing, a part (a recursive removal, a
rule), or all of it, when the connection broke before its answer came: `did` and `whole` tell.

### TicketCreation, UserStat and QueryPaging

`TicketCreation` is `op_create` call by call: `CreateTicket`, then `SetConstraint` for each
parameter in order, `RefuseValue` where its conversion or test fails, `ConstraintFails`
where iRODS fails. `UserStat` asks for a user's id, its type, and a group's id, while
`AddBearer`, `RemoveBearer`, `SetType` are other clients. `QueryPaging` is a client that
asks for page after page with `offset` and `count`; between them `RowComes` puts a row anywhere
in the order and `RowGoes` takes one away.

## Runs

A run marked *violated* states something the documentation, a comment or a
message of the repository says, and TLC shows how the code does otherwise; the
findings in `PROJECT.json` quote the text.

| run | properties | shows |
|---|---|---|
| `pw` | `TypeOK`, `InUseIffHeld`, `OnlyTheReleaseIsLate`, `CounterAccurate`, `PrimaryClosedLast`, `ImplementsLease`, `StreamsComeBack` | Two requests at a time on a handle of up to two streams, inits, buffered and streamed writes and shutdowns interleaved, by clients that await their replies: the in_use_ flags are exact and implement the leases that StreamLease promises, streams are given back on every path, all that a write does with a context before its reply it does to one that is there, the global count is the open streams plus what failed inits leaked, and the primary is closed last. |
| `pw_release` | `ContextOutlivesUse` | **violated**: A client awaits the reply to its write and then shuts the handle down: the context is erased while the write has yet to clear in_use_ through a pointer into it. |
| `pw_limit` | `LimitAcrossClients` | **violated**: Two concurrent inits pass the check of the limit on parallel streams together and exceed it. |
| `bg_burst` | `STypeOK`, `ReadsLeaveThePool`, `NeverStuck`, `OrderlyEnd`, `EndsIfRoom` | Three requests of any kinds, two threads for handlers, one for tasks and two pooled connections, and at any moment a signal that ends the server: a read never keeps a pooled connection while it waits; while the writes leave one connection, the requests never all wait, each is answered, and the server ends; nothing runs when main destroys what requests use, the pool last. |
| `bg_full` | `EveryRequestAnswered` | **violated**: A buffered write that waits in the queue with the last pooled connection, and tasks on every background thread that wait for one: nothing is answered any more. |
| `session` | `TypesOK`, `RepliesInOrder`, `OnlyStreamedOvertake`, `HandlerGetsTheForm`, `Ends` | Three requests of both kinds on one connection, pipelined, cut off or abandoned: they are answered in order, only a streamed request is answered before its body was read, and the session ends. And a request with up to two arguments, encoded in any way, also damaged: its handler gets the arguments the client meant, but for a plus sign in a url-encoded value, which may become a space; of a form that was cut it gets the first ones; and every request is dispatched. |
| `session_headers` | `HeadersOnly` | **violated**: After an early error reply of a streamed write the rest of its body is parsed as the header of the next request. |
| `tokens` | `TypesOK`, `ServesMappings`, `AcceptedIsVouched`, `RefusedForAReason`, `NeverBack`, `Reloads`, `EveryTokenAnswered`, `ImplementsPromise`, `ExpiredGoes` | From a bearer token to a user. The stash under requests, a login, lookups, expiry checks and evictions in any order: it implements the documented promise of bearer tokens, and what has expired leaves it. Two requests with tokens of any kind while the OpenID provider rotates its keys: who is accepted is vouched for, no good token is refused for nothing, and each is answered unless the provider falls silent. Three threads that look users up while the file of mappings is edited or removed: a started server always has mappings, none goes back to older ones, and an edit that does not fall into an update is taken over. |
| `data` | `TypesOK`, `ReplyIsTheRange`, `OnlyLargeReadsLoseTickets`, `LandsAtItsOffset`, `WritesABeginning`, `EveryReadEnds` | A read of any offset and count while the object is overwritten, cut off or removed: a reply that the client takes for whole is complete, every byte was at its position, only a large read is refused for a ticket that it has, and every read ends. And two writes that share a stream, of their own, by stream-index or as the server picks, chunk by chunk, with chunks that fail part way: bytes land where the offset says, no write leaves a hole, and an ok one lacks bytes of its last chunk at most. |
| `read_ticket` | `TicketsAllowReads` | **violated**: A large read with a ticket that allows it opens the object on a second connection, on which the ticket was never enabled, and is refused. |
| `write_last` | `OkMeansWritten` | **violated**: A write whose last chunk fails is answered ok. |
| `ops` | `TypesOK`, `AnswersTellWhatWasDone`, `KindOnTheWay`, `TicketAsAsked`, `StatWasTrue`, `PagesCoverTheRows` | Two requests for any operations on one path, with any fault of their parameters, each changing the path between the steps of the other, whose calls may fail when a part is done or lose their answer: ok means that the whole was done or that there was nothing to do, a request that the handler itself refuses called nothing, and the entity was of the right kind on the way. A ticket of any parameters, whose calls may fail: one that is told has every constraint. A stat of a name that other clients take and give up: it tells what was true. A client that pages through rows that come anywhere in the order and go: it gets one again at most as often as rows came before its offset, and misses as many as went. |

`bg_burst` and `bg_full` are about the same bursts: what makes the difference is
`WritesLeaveRoom`, one pooled connection that no buffered or streamed write keeps.
`EndsIfRoom` supposes it, too: a stop that falls into `bg_full` has the server wait for
ever. `data` and `write_last` draw the line at the last chunk of a write, which
nothing looks at. `data` and `read_ticket` draw it at the buffer: a read that fits in it is never
refused for its ticket, a larger one is unless `enable_4_2_compatibility` is set
(`OnlyLargeReadsLoseTickets` is true, `TicketsAllowReads` is not). `pw` and `pw_release` draw it at
the reply of a write: until then its context is there (`OnlyTheReleaseIsLate`), and the
release may find it erased (`ContextOutlivesUse` is false). `Reloads` supposes that no edit falls into an update;
`StatWasTrue`, `TicketAsAsked`, `RefusedForAReason`, `EveryTokenAnswered`, `HandlerGetsTheForm`
and `PagesCoverTheRows` have an exception each: the next section has the reasons.

### Other divergences met while modelling

The findings of `PROJECT.json` have a run each. These were met on the way; the
models do what the code does, and the properties above are stated around them.

- `data_objects/src/main.cpp:1477`. API.md:1034 says "If the number of streams
  specified by `stream-count` cannot be reserved, the HTTP API will return a HTTP
  status code of 503". An init that throws while it opens its streams does not
  subtract what it added to the count at 1451 and 1474, so later inits are refused with
  503 although their streams would fit. `CounterAccurate` says by how much the count is off.
- The same handler answers an iRODS error with 200 and a negative `status_code`, where
  API.md:993 and 1032 say "expect an HTTP status code in either the 4XX or 5XX range".
- `data_objects/src/main.cpp:1598`. A shutdown closes and erases the streams of a context
  without looking at `in_use()`, although 498-500 says that the transfer classes
  "require the state to last until after the final write operation completes". Clients that
  wait for their replies first are safe from all of it but for the release, which
  `pw_release` shows; what the others meet is in the model with `AwaitReplies = FALSE`.
- `data_objects/src/main.cpp:1224`. API.md:933 says of the offset of a write "Defaults
  to 0". A write without one continues where the stream it is given stands.
- `core/src/session.cpp:78`. README.md:332-333 says "The amount of time allowed to service
  a request. If the timeout is exceeded, the client's connection is terminated
  immediately." The timeout ends socket operations; a request that is being served
  when it passes is answered all the same.
- `plugins/user_mapping/src/local_file.cpp:89`. README.md:525-526 says "the plugin will
  reload the file to update the mappings". The file is parsed before its time is read: an
  edit in between is never taken over. `Reloads` is about edits outside of an update.
- `endpoints/shared/src/shared_api_operations.cpp:72`, under the comment "Verify the
  logical path points to the entity type we expect". The kind is asked for in one
  request to iRODS and relied on in the next, here and in rename, remove, set_permission
  and touch; the call may work on an entity of another kind. `KindOnTheWay` is what is left.
- `endpoints/resources/src/main.cpp:334`. API.md:1576-1585 lists the properties of a
  resource; another one passes through all branches and is answered with success.
- `data_objects/src/main.cpp:2360-2362`. The answer of copy to a source that is no data object is
  sent without `prepare_payload`, so its body has no length; the models do not tell it apart
  from one that has.
- An error after the call (`collections/src/main.cpp:442`, `rules/src/main.cpp:155`, or a broken
  connection at any operation) does not mean that nothing was changed, which API.md leaves open.
  `AnswersTellWhatWasDone` promises it of the refusals by a handler's own checks only.
- `query/src/main.cpp:369`, and GenQuery1: each page is a query of its own. A row that comes before the
  offset has another one sent twice, and one that goes there has another left out; API.md says
  nothing of it. `PagesCoverTheRows` says how many at most.
- `data_objects/src/main.cpp:2542` and `query/src/main.cpp:455` test the iterator of another
  parameter than the one they name ("Missing [size] parameter.", 2543), so a missing
  parameter is read (`Crash` in `Operations`).
- `endpoints/rules/src/main.cpp:332` erases the first line of an output that may have none.
- `core/src/main.cpp:1161` says of the stop on a signal "This will cause run() to return
  immediately, eventually destroying the io_context". While writes hold every pooled
  connection, the threads that are joined wait for one for ever, since the tasks that
  would give them back do not run any more. `EndsIfRoom` supposes that there is room.
- `core/src/openid.cpp:427` says that the verifier goes through the list of JWKs; of those
  that fit a token without `kid` it keeps the last one only, because `allow_algorithm`
  replaces the one before. And the keys are fetched once (515): after a rotation, tokens
  signed with a new key are refused until the server is restarted. While the first request
  fetches the keys all others with unknown tokens wait for it, and nothing ends an exchange in
  which the provider is silent (`transport.cpp:60-78` and 108-125 block without a time limit).
- `endpoints/tickets/src/main.cpp:225-316`. A request that is refused after the ticket was
  made leaves it behind with the constraints set so far. The byte limit is read with
  `std::stoi`, so one beyond an int is answered with 500; a time to live beyond the
  nanoseconds of the clock overflows (270).
- `endpoints/users_groups/src/main.cpp:998` and 1015 dereference the optional type of a user
  that may have been removed since its id was read.
- `core/src/common.cpp:137-138` decodes a value before it replaces `+` by a space, so an
  escaped plus becomes a space: API.md's `--data-urlencode` cannot send one, and `HandlerGetsTheForm`
  (`Arrives`) excepts it. 229-231: a GET without a query makes `parse_url` throw, and is answered
  with 500 where a missing `op` is answered with 400.
- `core/src/multipart_form_data.cpp:167`. A form that is cut or malformed is not refused: the
  arguments before the damage are used. 172-179: a part without a line end of its own takes
  the rest of the form as its value.

### Bounds

- `ParallelWrite`: two requests at a time are a pair in conflict, and slots are used
  again and again; two streams are a primary and a secondary
  one; two chunks put task boundaries between the choice of a stream and its last
  use. Handles are used once, as UUIDs are; `pw_limit` has two, so that two
  inits overlap. The limit per handle is three and that of all two, so that each
  refuses something; the clients of `pw` wait for their replies, other clients
  are covered by the proofs. `pw_release` has two requests, a write and a shutdown. In `pw` the one handle keeps the check of liveness small; the safety
  properties are proved for any number of handles and requests.
- `BackgroundIo`: three requests, two pooled connections (a write can keep one, a
  read can need one) and one background thread (a task can keep the others waiting),
  with and without `enable_4_2_compatibility`; one chunk makes a transfer take
  a second task. `bg_full` has two background threads and one connection.
- `Shutdown`: the three requests of `bg_burst`, numbered by kind whatever the order in which
  they come: a slot is used once and no arrival is fair, so every behaviour is one of these
  with its requests renamed. The signal may fall between any two steps.
- `ProcessStash`: a lifetime of two in a time of three has a token expire, be
  evicted, and another outlive it; two logins and one access token of a provider.
- `Session`: three requests of up to two parts; a third request is needed to see
  the order go wrong after one that was answered early.
- `RequestArguments`: up to two arguments, `op` and another, with values made of what the
  encodings and the parser look for: separators, signs, line ends, colons, nothing. Forms are
  cut at every token and lack every token once.
- `OpenIdTokens`: two requests, two rotations; keys of two kinds, one for encryption, one
  replaced, one added so that two fit; tokens with every flaw, with a foreign signer, with `kid` and without.
- `LocalFileMapping`: three edits, each to a file that parses, does not, or is gone, and three threads: one updates, one is refused the
  update, one looks up.
- `DataObjectRead`: an object of up to three bytes and a buffer of two: a read at
  once, or a full chunk and a rest; every offset and count up to one behind the
  end, -1 for every number that is refused; two changes on the way; with and without
  `enable_4_2_compatibility`.
- `DataObjectWrite`: two writes of up to three bytes in chunks of two that share one
  stream, with the offset one, none or a bad one; a chunk begins at position three at the latest
  (`write_last`: four).
- `Operations`: two requests for any two operations with any fault of their
  parameters; an operation stands for those that differ from it by name only.
- `TicketCreation`: numbers at each boundary of an int (here 2), of the seconds of the clock
  (4) and of a long long (6); no value, no number, several users, a group.
- `UserStat`: three bearers of the name, so that one goes and two others come during a request.
- `QueryPaging`: four rows and two to a page: three pages with the empty one, with rows that come and go between.

Runs without a check for deadlock are those where the system may really stop: a
burst that is answered, a session that is closed, a read that is done, edits that
are used up, a process that has ended.

### Fairness

Weak fairness, of the code and never of the clients:

- `ParallelWrite`, `BackgroundIo`, `LocalFileMapping`: every step of a request
  that a thread can take is taken, as the thread pools run what they are given,
  iRODS answers, and `session::do_read_header` arms a timeout that ends socket
  operations. The start of a request, an edit, an arrival is never fair.
- `Shutdown`: the same, and the main thread goes on, once it is not occupied by a handler. No
  signal is fair.
- `OpenIdTokens`: the threads run. An exchange with the provider ends, well or badly, or the
  provider falls silent, and the thread is lost: the calls of `transport.cpp` block and have no
  time limit. `EveryTokenAnswered` is about the requests that wait for no silent provider.
- `RequestArguments`: the thread that parses runs.
- `ProcessStash`: the timer fires, as long as it is armed.
- `Session`: time passes, and the server takes its steps; the client may stop at
  any point.
- `DataObjectRead`: the tasks run and the client takes what is sent; the object
  need not change, nothing need fail.

## Proofs

Every theorem is of the form `Spec => ...` for any values of the constants that
satisfy the named assumptions of the module (no element plays two parts, numbers
are natural, sets of requests are finite where they are counted). For each specification
its proof module defines an inductive invariant (`IInv`, with a letter in front where a module is
about several), proves that the initial states have it and that each
action keeps it, and draws the properties from it. The invariants also hold in the
small instances.

- `ParallelWriteProofs`. The properties are not inductive: that a stream has one
  writer depends on the flags being exact (`InUseIffHeld`), the flags on a write
  holding an index inside its vector (`ReqOK`), and that on vectors being filled by one
  init only (`OwnVector`). `CtxOK` relates the open streams of a context to its
  phase, with the exception of the one that is being closed from the back, from
  which `PrimaryClosedLast` follows. `OnlyTheReleaseIsLate` needs the discipline of
  clients as an invariant: no shutdown overlaps a write that is not answered (`Disciplined`), so
  what such a write found stays in the table (`WritersInTable`). `CounterAccurate` is
  proved with the cardinality of the set of streams counted, one lemma for adding
  and one for removing a stream. `StreamsAreLent` is the refinement of `StreamLease`: that a
  write past its look-up has a handle that was offered (`FoundOffered`) and that the flags
  are exact gives that free streams are those not lent; `PickFree` is then `Take`, `AllBusy`
  is `Refuse`, `Publish` is `Offer`, `Finish` is `End`, and all else a stutter.
- `ProcessStashProofs`. The refinement: what left the stash had expired
  (`StashOK`), and the copy a request took is what was stored although the key
  may be gone (`ReqOK`). Every step of the detailed specification then is a step of
  `BearerTokens` or a stutter: the timer, the look-ups and a stale copy that is
  still good are stutters, and the reply is given while the promise still holds.
- `SessionProofs`. While no reply overtook a body the session is exactly one
  reply behind when it serves a request (`InStep`); only streamed requests have
  unread parts when their handler runs (`KindOK`).
  For `RequestArguments`: what is sent lies in the text part by part, each argument at a
  place of its own (`PartsAt`, `PairsAt`). The texts are concatenated by a recursive function of
  the library; that each lies where it should is proved without induction, by the least place
  where it would not (`Least`). The invariant (`Progress`) says that the parser has the first
  arguments of the form and is at a known place of the part behind them (`PartAfter`, `PairAfter`),
  whether the text goes on or was cut there. A character that comes out
  of a decoder is the one that was meant, or a space for a plus (`Arrives`). Of a form in which the client dropped a token only
  the types are known, which hold for any text. `Remaining` is a bound of the steps that are left, and every step makes it less.
- `DataObjectWriteProofs`. Streams come to be shared by an index only (`Unshared`,
  from the flags); so a write that shares none finds its stream where it left it
  (`PositionOK`), unless a chunk of its failed, after which nothing is written
  (`BeginningOK`, which knows the chunk that failed and how far it came).
- `DataObjectReadProofs`. What the object has now was seen
  (`SeenOK`); what was sent and what remains are always the size of the range (`ProgressOK`), so that a
  reply which the client takes for a whole one has the
  whole range. `TicketOK` says up to which step the ticket stays enabled and when a read
  gets a second connection, the only place where a read that is allowed is refused: a 404 always
  has a reason, a 400 one or that place (`OnlyLargeReadsLoseTickets`).
- `ShutdownProofs`. For `BackgroundIo`, `NeverStuck`: follow who waits for whom. A request that
  waits for a thread finds the threads busy; a busy thread moves unless it waits
  for a connection; a connection that is missing is held by somebody. `HolderOK` and
  `TransferOK` say that holders other than writes are on a thread, unless their
  connection is their own. While the writes are fewer than the pooled connections
  (`WritesLeaveRoom`), counting gives a holder that is no write, so the chain ends
  at a request that can move. `QueueOK` gives that the
  head of the queue is a request that is queued.
  For `Shutdown`: that invariant holds to the end, since what
  is destroyed leaves all its places at once; and what each phase has emptied
  stays empty (`Emptied`), as only a request that is served moves. Who holds a
  connection is in one of the places that are empty when the pool goes.
- `AuthenticationProofs`. For `LocalFileMapping`: one thread at a time is in `update()` (`OneUpdates`),
  and what it parsed is at least as new as the list (`Newest`); a time is only
  remembered with a list (`TimeIsOfAList`), so that a start never takes a file for known.
  For `OpenIdTokens`: a request past the validation is vouched for already
  (`ValidatedIsVouched`): a signature that is verified is that of a key the server
  has, and keys are replaced by no others. That a token which leads to one key is
  verified with it is a lemma about the choice of keys alone (`OneKeyVerifies`).
- `OperationsProofs`. First that every row of the table of operations is well-formed
  (`TableWellFormed`, one lemma for each endpoint); nothing else is used of the rows. Then the
  four machines, each with its invariant:
  - `Operations` (`IInv`): what is at the path was seen since the request came, and a handler that
    looked saw a kind that it needs, also if it is gone when it calls (`RequestOK`); a call
    is made past every check only, and ok is said only by one that did the whole.
    The properties are inductive with it, for any number of requests.
  - `TicketCreation` (`TIInv`): the calls that were made have set their constraints
    (`SetSoFar`), and a good answer comes after all of them. That only the time of
    expiration is called `expire` is a lemma about the list of calls (`ConstraintsAreCalls`).
  - `UserStat` (`SIInv`): where the handler asks for the type, either the name was without a
    bearer meanwhile or its bearer still is the one whose id was found, since a later
    bearer comes only after a moment without one; likewise where it asks for a group.
  - `QueryPaging` (`PIInv`): what the client got and is still behind its offset (`Ahead`) are the rows it
    will get again; with those it got again already they are no more than the rows that came before the
    offset (`GotOK`, counted by cardinalities: a row that comes there moves one back, a page takes
    what it gives). The rows that were there from the start and are neither got nor ahead (`Missed`)
    are no more than those that went (`MissedOK`). When a page is empty nothing is ahead (`ReadOK`).

Where a run checks several machines that share no state, the types of all are one theorem about the
specification of the run where the proofs are in one module (`BothTypeCorrect`, `AllTypeCorrect`), and a
theorem for each machine elsewhere (`TypeCorrect`, `OTypeCorrect`).

Only model-checked: the liveness properties (`StreamsComeBack`, `EndsIfRoom`,
`ExpiredGoes`, `Ends`, `Reloads`, `EveryTokenAnswered`, `EveryReadEnds`), because fairness and `ENABLED` are
out of the reach of the prover. What their steps do is proved of five of them, for every value of the constants:
that no request goes round, and who waits for whom.

| property | theorems |
|---|---|
| `StreamsComeBack` | `RequestsAdvance` (`StepsLeft` shortens with every step); `TableComesFree`: who waits for the table waits for a shutdown that closes streams (`HolderCloses`) |
| `EveryTokenAnswered` | `RequestsAdvance` (`RequestLeft`); `WaitersAreServed`: who waits for the keys waits for one that fetches them, or whose provider is silent (`SomebodyFetches`) |
| `EveryReadEnds` (`ReadEnds`) | `ReadAdvances` (`ReadLeft`) |
| `Ends` (`Dispatched`) | `ParserAdvances` (`Remaining`) |
| `EndsIfRoom` | `ReadsNeverStuck`: some request can always move (`NeverStuck`) |

That a request which is not done has a step, and that it is taken, is left to TLC. Nothing of the kind is proved for
`ExpiredGoes`, `Reloads` and the part of `Ends` that concerns sessions, which depend on a clock or on the edits of a file.

## What is external, and what is not modelled

The iRODS server is external: each call of its API is one step that succeeds,
refuses or fails, and what it does to the catalog is taken from how `src/` uses it.
The connection pool of the iRODS library hands out at most `PoolSize` connections and
blocks otherwise. Tickets appear in `DataObjectRead` only; elsewhere enabling one is a
call that may fail. Undefined behaviour ends the process (`Crash` in `Operations`) or
reads the last contents (`ParallelWrite`). A connection that breaks and the failed
authentication of a request are among the failures of the steps in which they occur.

Not modelled, because they keep and change nothing: the information endpoint (constants of
the configuration), the user_claim plugin (a look-up of one claim),
`compatibility.cpp` (copies of conversion functions), logging. Of startup, the validation of
the configuration and the set-up of TLS are not modelled; `Start` of `LocalFileMapping` and
the timer of `ProcessStash` are. Of `transport.cpp` there is only that an
exchange ends, fails or never ends. Certificates, and what a JWT library does inside of a
signature, are external to `OpenIdTokens`; names in headers and the text of an escape are one
token in `RequestArguments`.

## Plan

Done, in this order, the most shared state first: `ParallelWrite`, `BackgroundIo`,
`ProcessStash` with `BearerTokens`, `Session`, `LocalFileMapping`, each with its proofs;
`DataObjectRead`, `DataObjectWrite`, `EndpointOperations` with `Operations`; then
`Shutdown`, `OpenIdTokens`, `TicketCreation`, `UserStat`, `QueryPaging`, `RequestArguments`
and `StreamLease` with the proof that `ParallelWrite` implements it; the
proofs of `DataObjectWrite`, `Shutdown` and `OpenIdTokens`; and those of `DataObjectRead`, `Operations`,
`TicketCreation`, `UserStat`, `QueryPaging` and `RequestArguments`.

Next, the proofs: a measure for the tasks of `BackgroundIo` and for a session between two
readings of its socket, and that a request which is not done can move, in the form of `NeverStuck`.
