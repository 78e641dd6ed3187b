# A verification of Arquitectura TCP/UDP para Servicios

The repository holds three C++ programs that serve Lego figures. A *client* asks for a figure, an
*intermediate* takes the request and relays it, a *pieces server* looks the figure up in a JSON
file and answers with an HTML page. The queries travel over TCP; intermediates and pieces servers
find each other with UDP broadcasts. Beside them stand a simulation of the same protocol with three
threads in one process, the socket classes everything is built on, and a few demonstration clients.

This directory holds TLA+ modules of that system, the TLC runs that check them on small instances,
and theorems that TLAPS proves for every instance. Paths below are relative to the repository
(`src/...` is its source directory); `PROJECT.json` maps each definition to the lines it models.

## 1. Inventory

| component | state it keeps | operations | talks to |
|---|---|---|---|
| client (`client.cc`) | one socket, a buffer nobody initialises | connect, write one request, read once (5 s), print, exit | intermediate, TCP 4657 |
| intermediate, queries (`listen_client`, `request_ps` in `intermediate.cc`) | `request_buff`, the frame of `request_ps` with `ps_buff`, the shared `request`, `ps_answer`, `ps_menu`, `ps_ip` | accept, read, test case, three early answers, relay, reply, die by exception, SIGINT | clients; pieces server, TCP 2560; reads `ps_ip` |
| intermediate, discovery (`listen_ps_broadcast`, `send_broadcast`, `enviarSignal`) | `ps_ip`, the buffer of the last datagram | T when it starts, S as an answer, E when it ends | the subnet, UDP 2561; writes `ps_ip` |
| pieces server, queries (`listen_intermediate` in `server.cc`) | the buffer `a` of one turn | accept, read, answer, die by exception, SIGINT, start again | intermediate |
| pieces server, discovery (`listen_intermediate_broadcast`) | `inter_ip`, the buffer of the last datagram | as above, with a time-out of 5 s | the subnet, UDP 2561 |
| requests and pages (`formatRequest`, `responseHTML`, `errorHTML`) | none | pure | both ends of a query |
| `JSONDecoder`, `Lego` | the pieces of one figure | read a file, list, halve | pieces server |
| `Socket`, `VSocket` | a descriptor number, a flag for the time-out | connect, bind, listen, accept, read, write, close, broadcast, receive | the kernel |
| simulation (`simulacion-protocolo.cc`) | a `Message` per thread, two listening ports | bind, connect, read, write, close, join | its own threads |
| `SSLSocket`, `ipv4-ssl-cli`, `ipv6-ssl-cli`, `tcp-cli` | one connection | connect, write, read | external servers |

What is hard in them:

* **Reused and uninitialised buffers.** `read()` writes a prefix and no terminator.
  `request_buff` outlives the turn, `ps_buff` lands on the same stack frame at every call, the
  client's buffer is never cleared, and the datagram loops keep the last datagram.
* **One thread for all clients.** Whatever holds the turn of one client (a pieces server that does
  not answer, an exception, a signal) holds or ends those of all others.
* **Late answers.** After five seconds `request_ps` gives up; the pieces server may still write.
* **Restarts.** The pieces server can go between connect and accept, before it reads, or before it
  answers, and come back with an empty queue.
* **Datagrams** that nobody repeats, that everybody hears including their sender, and that are sent
  before the sender can receive.
* **Shared strings without a lock** between the threads of the intermediate.
* **Descriptor numbers.** `send_broadcast` closes its number twice, and between the two another
  thread may have been given it; SIGINT calls it in a third thread while the two others go on; sockets
  leak, and the table is finite.
* **Results that nobody initialises or looks at.** `Close` tests a variable it never assigns and is
  not virtual where it is called; `Connect`'s result is ignored by the clients of `miscellaneous`.
* **Files of another shape** than the decoder reads, with exceptions that nobody catches.
* **Three threads that wait for each other** in the simulation when one of them fails.

What makes each component correct:

* A client prints the beginning of its own answer (`OwnAnswer`), with two exceptions the property names:
  what older answers left in `ps_buff` may follow, each block at the place it had, and when the pieces
  server ended the connection early it is all there is, so that a client can print another one's whole page.
* Every way through a turn closes what it opened (`NothingLeftOpen`) and answers once (`AnsweredOnce`).
* On the query path, clients alone do not end the intermediate: when it died (and `Close` did not throw) the
  pieces server had refused, reset or closed a connection (`DeathNeedsTheServer`). This leaves the table of descriptors
  aside, which clients do use up: every relayed query leaks a number, and about a thousand of them end the
  intermediate (`LeaksOnePerRelay`, and `end = "full"` in `HarmNeedsAHit`).
* All clients get their turn (`EveryClientIsServed`), because a read without a time-out waits for nobody that
  waits itself (`PeersWillWrite`), and every client ends (`EveryClientEnds`).
* All of it together is one line of clients, served in order, each with at most one fitting answer
  (`KeepsThePromise`).
* A T is answered at most once (`NeverAnswersTwice`) and the exchange dies out (`Silence`), because every answer
  pays for one T (`AnswersArePaidFor`).
* A second close never redirects an answer (`AnswersItsClient`), and everything it does break begins with a hit
  (`HarmNeedsAHit`).
* What is sent of a page is the beginning of the whole file's, or nothing (`SentIsTheFile`).
* A web client prints the answer to its own request (`AnswerToTheRequest`) and ends once the web server does
  something (`EndsWhenTheServerActs`).
* The simulation announces its ten steps in order and shows the right answer (`FollowsTheFlow`), and ends unless
  a thread fails (`EndsUnlessOneFails`, and the three threads never all wait, `NeverAllWaiting`).

The hazards behind these are listed, line by line, in `PROJECT.json`.

## 2. Modules

    Buffers <- Requests <- Client, Intermediate, PiecesServer <- Query <- MCQuery
       ^--- Sockets <-----'                                        ^---- QueryTypes <- QuerySteps <- QueryProofs
    Requests <- QueryService <- (refined by) Query
    Discovery <- MCDiscovery, DiscoveryProofs        Descriptors <- DescriptorProofs
    Catalogue <- MCCatalogue <- CatalogueProofs      WebClients <- WebClientProofs
    Flow <- (refined by) Simulacion <- MCSimulacion, SimulacionProofs

| module | models | correspondence |
|---|---|---|
| `Buffers` | the `char` arrays | an array is a sequence of cells, `NUL` a terminator, `JUNK` bytes without meaning; `Fill` is `read()` into an array, `Strings` what a `char*` to it can denote |
| `Requests` | request texts, pages, `formatRequest`, `is_valid_request` | a request is a sequence of words (`GET` for "GET /", `SP` for the blank after the name), a page a sequence of blocks |
| `Sockets` | `Socket` and `VSocket` over TCP | one record per connection: how far the accepting end is, what each end wrote, which end has closed; `Orphaned` is what the kernel does to the connections of a process that ends |
| `Client` | `client.cc` | `Connect`, `Send`, `Receive`, one action per system call |
| `Intermediate` | `listen_client`, `request_ps`, `enviarSignal`, and of `listen_ps_broadcast` its effect on `ps_ip` | `ipc` is the place in the loop; one action per system call and branch; `request_buff` and `ps_buff` are variables because their content survives the turn; `test_case` is the command line argument, chosen at the start from `TestCases` |
| `PiecesServer` | `listen_intermediate`, SIGINT, a new start | `spc` is the place in the loop |
| `Query` | the three together | interleaves the programs; states the properties and the inductive invariant |
| `QueryService` | what the intermediate promises its clients | abstract specification: a line of clients, no buffers and no connections; `Query` defines the refinement mapping (`Promise`) and is shown to implement it |
| `Catalogue` | `JSONDecoder`, `Lego`, the second half of a turn of `listen_intermediate` | a JSON value is a record of kind, text, keys and elements; one action per call that may throw, `AddHalf` one `add_piece` of the loop |
| `Descriptors` | the three threads of an intermediate or a pieces server (the one that serves, the one that receives datagrams, and main, in which SIGINT runs `enviarSignal`) and their descriptor table | `fd` says what each number stands for; the numbers the sockets keep are variables; `accept()` and `read()` are two steps, because they look the number up when they begin |
| `WebClients` | `ipv4-ssl-cli`, `ipv6-ssl-cli`, `tcp-cli` over `Socket` or `SSLSocket` | one action per call; the web server is an environment that answers, closes, resets or stays silent |
| `Discovery` | both broadcast loops, the announcement, the farewell, `Socket::Broadcast`, `VSocket::listenBroadcast` | one action per turn of a loop; `inbox` is the kernel's receive buffer of the port |
| `Flow` | what the simulation promises | abstract specification of the ten announced steps |
| `Simulacion` | `simulacion-protocolo.cc` | one action per system call; shown to implement `Flow` |
| `QueryTypes` | | lemmas about arrays, strings and `formatRequest`; the types of `Query` |
| `QuerySteps`, `QueryProofs` | | proofs about `Query`, and that it implements `QueryService` |
| `DiscoveryProofs` | | proofs about `Discovery` |
| `DescriptorProofs` | | proofs about `Descriptors` |
| `WebClientProofs` | | proofs about `WebClients` |
| `CatalogueProofs` | | proofs about `Catalogue` |
| `SimulacionProofs` | | proofs about `Simulacion` |
| `MCQuery`, `MCDiscovery`, `MCCatalogue`, `MCSimulacion` | | small instances for TLC |

Operators described as mutants in their comments are versions of a definition with a plausible
mistake in it. No specification uses them; `PROJECT.json` says which property each of them breaks.

### What the models assume

* A request is small and arrives in one segment: `listen_client` and `listen_intermediate` read it
  whole, or up to the size of their buffer. An answer may be cut anywhere (`ReadSizes`), because a
  page spans several segments.
* A cell stands for a few bytes. Sizes keep their order: the page of `<<x>>` fits every buffer, the
  page of `<<x, y>>` is longer than `ps_buff`, `ps_buff` is longer than the client's buffer.
* An array that nobody initialised holds only zeros or only junk, or, for `ps_buff`, what the last
  call left. A string without a terminator runs on behind its array, for one more cell of junk or
  not at all.
* `strcpy` of a string that fills `ps_buff` overflows `response_buff`: the process survives it or
  dies.
* A datagram is one letter. Nothing ever writes the byte behind it, so `strcmp(ps_buff, "T")`
  depends on a byte of the stack that is chosen once per thread (`clean`).
* The kernel keeps the order of the datagrams of a port and drops what does not fit. A copy to
  another host may be lost, a copy to the sender's own port only if it does not fit.
* `connect()` to a full queue fails. (It first waits for the send limit; the wait itself is not
  modelled, its result is.)
* A client opens one connection and is not started again; another client is another member of
  `Clients`.
* The programs hold their sockets as `VSocket*`, and neither `VSocket::Close` nor the destructor is
  virtual: every `->Close()` is the one that tests a variable it never assigned. `CloseMayThrow`
  says whether that variable may hold -1; then `CloseThrows` (`Intermediate`) and `Close`
  (`Descriptors`) end the process after the close. It is true in the runs `query` and
  `descriptors`; the runs about who may end the intermediate set it to false, because otherwise any
  close may. The proofs are for both.
* SIGINT comes at most once in a run, and `enviarSignal` runs in the main thread, which only waits, while the two
  others go on. (Where the kernel runs it in one of those, that thread stands still until `exit()`, which is one
  of the schedules.) A second SIGINT, whose handler would run beside the first, is not modelled, nor is SIGINT during
  main's own announcement, before the threads start.
* In `Descriptors` the network does what it should: `connect()` succeeds and peers answer, so that
  whatever goes wrong comes from the numbers. What the network may do is in `Query`.
* In `WebClients` lengths are counted in cells of eight bytes, the size of the pointer whose
  `sizeof` `SSLSocket::Write` takes for a length. A write on a socket that is not connected throws
  or raises SIGPIPE. The IPv6 address of the programs names an interface, which `gethostbyname2` does not
  understand, so their connection by port number never succeeds; by service name it may.
* In `Catalogue` the texts of a file are opaque, except the empty one, "0" and one with a terminator
  inside; jsoncpp throws where its accessors do (a name looked up in anything but an object or
  null, `asString` of a container, `asInt` of a text or of a number out of range). `Values` is what the
  files are made of: an object has a value for each of its keys, an array no keys, and nothing else has
  elements (`FilesAssumption`). That is how jsoncpp stores a value, not a restriction on the files.

`Query` and `Discovery` share one fact, whether `ps_ip` is empty. In `Query` it is `psKnown`, set at
any moment by `LearnPs`: any datagram on the port stores its sender, another intermediate's
included, and nothing in a run of the intermediate clears it. The two threads share the string without
a lock; the comparison with the empty text reads its length only, and an address fits the string's own
buffer, so it sees the old value or the new one: this is `LearnPs` between any two steps of the loop.

## 3. Runs

| run | instance | shows |
|---|---|---|
| `query` | two clients, one for the long page, one for a short, a broken or no figure or with an invalid request; server up or down, stops any time, starts again once | `TypeOK`, `OwnAnswer`, `NothingLeftOpen`, `AnsweredOnce`, and that it implements `QueryService` (`KeepsThePromise`) |
| `served` | a client that dies after `connect()`, queues of one, an intermediate started with argument 0 or 1 (which never answers) | `DeathNeedsTheServer`, `PeersWillWrite`, `EveryClientIsServed` (argument 0), `EveryClientEnds` (both) |
| `discovery` | two intermediates and a server, a lossy subnet, two datagrams per port, four starts, stops with E and crashes without | `TypeOK`, `NeverAnswersTwice`, `AnswersArePaidFor`, `Silence` |
| `simulation` | the three animals of the source, every set of taken ports | `TypeOK`, `NeverAllWaiting`, `FollowsTheFlow`, `EndsUnlessOneFails` |
| `webclients` | the three programs, every argument, requests of three cells, a buffer of three, answers up to four | `TypeOK`, `AnswerToTheRequest`, `KilledByIgnoredResult`, `EndsWhenTheServerActs` |
| `catalogue` | no file, a file that is no JSON, the five shipped shapes, and every combination of names, totals and up to three elements of six shapes; a buffer of eight lines | `TypeOK`, `HalvesMakeThePieces`, `SentIsTheFile` |
| `descriptors` | each program, SIGINT at any time, seven numbers, three connections | `TypeOK`, `AnswersItsClient`, `HarmNeedsAHit`, `LeaksOnePerRelay`, `ServerNeverFills` |
| `complete` | two clients | a violation: a long page arrives in part |
| `empty` | a client that dies after `connect()` | a violation: the request of the client before is executed for it |
| `noserver` | two clients, a server that stops | a violation: the intermediate ends instead of answering with an error |
| `meet` | one intermediate, one server, no loss | a violation: both listen and never learn of each other |
| `shipped` | the files of `catalogue` | a violation: a file the repository ships is not read |

**Bounds, and why they are enough.** Two clients are what stale data needs: one whose bytes stay
behind and one that finds them; the queue is full with one waiting and one arriving. Four cells let a
request fit or fill `request_buff`, and two let a page end inside, exactly at and beyond `ps_buff`. The
client's array has two cells in `query` (5.3 million states), so that it also prints what lies behind the first
block of an answer, and one in `served`, where it sees a part. `MaxStarts` bounds how often the pieces server is started
again; one restart lets a connection made to one run of it be met by the next. In `Discovery`,
`MaxStarts` counts the starts of all hosts together: four let a host stop and come back while two
others talk. `RcvBuf = 2` makes both an empty and a full buffer common. Seven descriptors and three
connections (8.4 million states) let an intermediate fill its table by the sockets it leaks, and let either program be
hit by both of its broadcasts; the listener, the datagram socket, a connection, a file, an S and an E need six.
A page of `Catalogue` has four lines and two for each element, so eight lines let it fit, fill the
buffer and exceed it. In `WebClients` answers are shorter than, as long as and longer than the
buffer. All data are small enough
for TLC to visit every state. `CHECK_DEADLOCK FALSE` is in every configuration because all these
systems stop by design: clients exit, SIGINT ends a server, starts are bounded.

**Fairness.** `Query` assumes that the thread `listen_client` and every client run when they can:
they are processes of a host whose scheduler is fair, and every blocking call of theirs is either
bounded by `SetTimeout(5)` (the read of `request_ps`, the client's read) or waits for a client,
which writes or closes. The pieces server is assumed *nothing* about: it is another machine, may
accept and never answer, and `EveryClientIsServed` holds all the same. SIGINT and datagrams are
never forced. `Discovery` lets the receiving threads of running programs run, and nothing starts or
stops a program. `Simulacion` lets every thread that is not blocked run. `WebClients` lets the program run
when its call does not block, and forces the web server to nothing.

`Silence` is checked with a bounded number of starts; the stop of the starts is what "when nobody
starts or stops any more" means, for every start is followed by a stop at most once.

### What the violations say

* `complete`: `request_ps` reads once, at most 1024 bytes and possibly one segment, of a page of up to
  9999, and the client reads once, at most 512. `src/README.md:37` says the queries obtain complete
  and consistent answers. What is relayed begins like the right answer or is the message of a time-out
  (`OwnAnswer`), unless the pieces server ended the connection before it answered; blocks of older answers may
  follow.
* `empty`: the result of the read at `src/src/intermediate.cc:61` is not looked at. A client that closes
  without writing leaves `request_buff` as it was, which passes the test of line 72, and the pieces
  server is asked again for what the client before wanted. `client.cc` does exactly this when it is
  given an argument: `sprintf` at line 30 writes into a string literal and kills it after `connect()`.
* `noserver`: `ps_ip` only says that *some* datagram came, from another intermediate or from the
  own announcement of a server that has gone since. The connection goes to a fixed address, and the
  exception of `DoConnect` is caught nowhere.
* `meet`: each program sends its T before its own port is bound. If the T of the second comes while
  the first has not bound, and the first has announced itself before, nobody speaks again. It also happens when
  the T does arrive: a datagram has no terminator, and where the stack of the receiving loop does not happen to hold one
  behind the letter (`clean` is false) `strcmp(ps_buff, "T")` fails and no S is sent. TLC shows whichever it
  finds first.
* `shipped`: `getLegoFromJson` expects a list of objects with `m1` and `m2`. The files under `src/files`, which
  `src/README.md:25` calls the database formats and `src/README.md:72` the JSON formats in use, have five other
  shapes: two make jsoncpp throw and so end the pieces server, one of them that of `camello.json`, which `client.cc` asks for;
  the other three give a page without a piece.

### Seen while modelling, without a run

* `GET /` without a name is answered with `ps_menu`, which is always empty; but only if nothing is
  left of a longer request in `request_buff`. After a request with a name, a shorter one keeps the
  tail of it and is taken for a request of that figure (`intermediate.cc:91`). `OwnAnswer` is
  therefore about requests that name a figure with its closing blank.
* `Socket::Write` throws on -1, so the test for -1 after it never holds.
* `recvfrom`'s result is kept in a `size_t` (`VSocket.cc:378`), so a time-out of the pieces server's
  loop is handled as a datagram. `NeverAnswersTwice` says why this does no harm: the answer to the T
  that lies in the buffer comes back to the own port and replaces it.
* When the pieces server closes or dies before it answers, `read()` returns 0 and `ps_buff` still holds the page of
  the client before, which is sent to the next one (`Fitting` with no block of its own). No comment or doc of the repository
  says otherwise, so it is an exception in `OwnAnswer` and not a violation.
* The second close of `send_broadcast` can hit, after an S and again after the E of SIGINT: the states in which the query thread hangs on a
  broadcast socket, an S goes to a client, or a client gets a time-out message for a page that
  arrived are all reachable in `descriptors`. The properties say what stays true: an answer never reaches
  another client, and without a hit nothing of this happens.
* An intermediate loses a descriptor with each request it relays, so after about a thousand
  `socket()` or `accept()` throws and ends it, and the client of that turn gets no answer (`LeaksOnePerRelay`,
  `FullOfLeaks`).
* `SSLSocket::Write(const char *)` sends `sizeof` a pointer, eight bytes, of the request of `tcp-cli`
  (`AnswerToTheRequest` has that exception). `Socket::Connect` compares the service names the wrong
  way round, which only sets a field nothing reads.
* In the simulation, `main` never returns if a thread fails while another is in `accept()` or
  `read()`: `EndsUnlessOneFails` has that exception for this reason.

## 4. Proofs

All theorems hold for every set of clients or hosts, every catalogue and every size that the
assumptions of the modules allow. The assumptions: the marks `NUL`, `JUNK`, `GET`, `SP` and the
letters differ; no figure is both good and bad; every page has at least one block; buffers have at
least one cell and `ps_buff` at least two (the message of a time-out and its terminator); queues
have room for one; the files of the catalogue are values as jsoncpp stores them, and their texts tell a
text with a terminator inside from the empty one and from "0"; a buffer of `Catalogue` has room for a
line, the requests of `WebClients` at least one cell and its buffer two; a table of `Descriptors` has room
for six numbers.

**Query.** None of the properties is inductive. `OwnAnswer` speaks of what a client prints, and is
only true because of what lay in the buffers of the intermediate several steps, and several clients, before. `IInv`
follows the data through one turn:

1. `TypeOK`, `ClientsInv`, `ClientQueueInv`, `PsQueueInv`, `StagesInv`: how far the two connections
   of a client can be; a connection is in its queue exactly once.
2. `RelayInv`: what `request_buff`, `request` and `ps_answer` hold in each place of the loop. At
   "dispatch" *every* string that `request_buff` can denote parses to the name the current client
   sent, although the tail of an older request may follow: `formatRequest` stops at the first blank
   after the name (lemmas `StringsPrefix`, `FormatPrefix` and `RequestKept`).
3. `ServingInv`, `AnswersInv`: what the pieces server holds and what was written on a connection
   belong to the client of that connection. This is what makes late answers harmless: each goes to a
   connection of its own, which `request_ps` has closed.
4. `OpenInv`: the only connections open on the intermediate's side are those of the current turn.

`ContentsInv` follows them across turns, block by block: at each place `ps_buff` holds a terminator, junk, the
time-out message or what some answer had at that place (`LeftAt`); `ps_answer`, and then what is written to the client,
is some blocks of the own page with such blocks behind (`Fitting`); what a client printed is a beginning of that, with junk
behind. It is proved beside `IInv` and needs it: that the own page is the one read is `AnswersInv`, that the request
did not change since is `ClientsInv`. Answers are never taken back (`Grown`), so what may lie in `ps_buff` only
becomes more (`LeftGrows`) and what fitted keeps fitting (`FittingGrows`); `ReadContents` is the one step that moves
blocks from an answer to `ps_buff`. `AnswersBelong` follows with `PrintedFits`.

`QueryTypes` proves that every action preserves `TypeOK`, `QuerySteps` the same of the other parts,
with one lemma for each action, and `QueryProofs` combines them: `TypeCorrect`, `Inductive`,
`AnswersBelong` (`OwnAnswer`), `ConnectionsClosed` (`NothingLeftOpen`), `ClientsAreHarmless`
(`DeathNeedsTheServer`), `WrittenOnce` (`AnsweredOnce`) and `NobodyWaitsInACircle` (`PeersWillWrite`). The
last adds `Heard` to `IInv`: a client that waits has written, one that has ended has closed. Its other
half, the pieces server's read, is `OpenInv` and `RelayInv`: the one connection that is open on the
intermediate's side and carries no request yet is the one it is about to write to.

**Discovery.** `NeverAnswersTwice` needs `ReplayInv`: when the inbox is empty and a T lies in the
buffer of a program that knows somebody, that T is unanswered. It holds because a program hears its
own answer: the S is in its inbox after an answer unless the inbox is full, and then it is not
empty; either way the next letter replaces the T before a time-out can look at it. Theorems
`DiscoveryTypes` and `AnsweredAtMostOnce`. `DebtsArePaid` is what makes the exchange finite: the `Debt` of
a host, the T in its inbox and those it has not answered, is a natural number, no receiving loop raises
anybody's, and whoever sends lowers its own. That no debt is negative is `NeverAnswersTwice` again; that an
S adds nothing to the debts of those who hear it, and that a letter taken from an inbox takes at most one T
with it, are lemmas about the inboxes (`NoNewQuestion`, `OneQuestionLess`).

**QueryService.** `QueryProofs` also proves `PromiseKept`: `Spec => KeepsThePromise`. Under `IInv` each of the
twenty-one actions maps to one action of `QueryService` or to a stutter: the `line` is the current client and
the queue behind it, so an accept is a stutter and the end of a turn removes the head; a reply maps to
`Answer`, and what `Fits` demands of it is `RelayInv` at "reply"; a process that ends, by whichever
way, maps to `End`.

**Descriptors.** An inductive invariant carries the five theorems: `Owners`, which thread
may hold a number of each kind and where, hits or not; `Places`, which program a place belongs to;
`Clean`, what each thread finds behind its numbers as long as nothing was hit; `Counted`, how many numbers have
then been lost; and `Filled`, that a table which was full was full of those. `AnswersGoHome` is the subtle one: a
client's number can be closed under the thread and given to a broadcast, but only the thread itself opens
connections, so the number it kept never stands for another one when it writes. `HarmIsOneHitAway` takes
`Clean` for the calls that fail and `Filled` for those that find no number: an intermediate then holds a
number for each relayed request beside at most six others. `ServerHoldsSix` bounds the cardinality of the
numbers in use, with the hits: `Owners` lets each thread be responsible for at most so many. `LeaksCounted` needs
`Clean` at every step: only if the number a thread closes is still its own do `OpenSpare` and the accept of the
test case add one to a cardinality and all other steps leave it alone.

**WebClients.** Three theorems, one for each invariant, from a short inductive invariant along the one
connection of a program: over SSL `main` writes only in a session (`Ready`); the web server has nothing or
what `Write` handed over, and answers only that (`Wired`); nothing is written or read before the connection
(`Early`); and a program gets past `Connect` without a connection only by service name (`Ignored`).

**Catalogue.** The inductive invariant says how far the decoder is: `Fresh` before the loop, `Reading` in it
(the pieces added so far are those the file says of the elements passed, every one of which has members) and
`Paged` after it. `PiecesLaced` rests on a lemma about one `add_piece` (`AddedPiece`), where the length of
the list decides which half is due. `FileIsSent` also needs the first terminator of a page to exist, by
well-foundedness of the numbers, and that a prefix of a prefix is one of the file's page. `NoShippedFileIsRead`
is about the five shapes in the repository: none of them has a first element with a first half (`Barren`), and the loop never
gets beyond such an element.

**Simulacion.** The three threads hand one message round, and `SimulacionProofs` says how far it is by
where they are: `Count`, the number of the last step announced, and `Written`, the directions something was
written in, are functions of the three places. The inductive invariant is `Shapes` (types), `Places` and
`Together` (which places the threads can hold at the same time), `Wired` (a direction carries one question
or one result if it is in `Written`, and nothing otherwise), `Held` (whose message is a question and whose a
result) and `Announced` (what is printed is 1 to `Count`). `FlowFollowed` follows from it: no step lowers
`Count`, a step that raises it is a step of `Flow`, any other a stutter, and what the client shows is a function
of `Count`. `NoCircle` (`NeverAllWaiting`) reads `Together` and `Written` against each other: what a waiting
thread waits for was not written, so the thread that is to write it is at a place before it. `Together` is what the ports are for: a server whose port is taken ends before anyone can have
connected to it.

**Only model-checked.** `EveryClientIsServed`, `EveryClientEnds`, `Silence`, `EndsUnlessOneFails`
and `EndsWhenTheServerActs` are liveness properties and out of the prover's reach. For three of them the part
that is about safety is proved: nobody waits in a circle (`PeersWillWrite`, `NeverAllWaiting`), and every answer
uses up a T (`AnswersArePaidFor`). That the threads then do run is the fairness TLC assumes. Every invariant
and action property of a passing run is the subject of a theorem.

## 5. Not modelled

* `listen_intermediates`: dead code, the call that would start its thread is commented out.
* The server side of `SSLSocket` (the certificate constructor, `LoadCertificates`, `Accept`, `Broadcast`) and
  `ShowCerts`, `GetCipher`: no program uses them, some are empty.
* `bind()` for IPv6, `Shutdown`, `sendTo`, `recvFrom` of the socket classes: no caller. `Lego::contains`,
  `Lego::print`, `JSONDecoder::getString` and `getInt`: no caller.
* The wording of the HTML, the log output.
* A wrong number *inside* a query: `Query` gives each process sockets of its own and `Descriptors` gives each
  peer good manners; a hit while the pieces server misbehaves is in neither.
* jsoncpp (`src/include/json`) is a vendored library, modelled only as far as `Catalogue` needs its
  accessors; the Makefile is the build.

## 6. Plan

Done: the query path with its abstract specification, the discovery, the descriptors, the catalogue, the
clients of external servers, the simulation, and the proofs of section 4. What is left:

1. `Query` and `Discovery` composed over `ps_ip`, in place of the free `LearnPs`, which allows more than
   the datagrams do.
2. A bound on the steps of a turn of the intermediate, the counterpart of `AnswersArePaidFor` for
   `EveryClientIsServed`.
