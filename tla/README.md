# urllib3 in TLA+

A formal model of urllib3: pools of connections shared by threads, what one connection
does from its socket to its response, retries and redirects and what they carry over,
HTTP/2, the reading of bodies, and the backend for browsers. There are TLA+ modules, TLC
configurations that check them on small instances, and proofs that TLAPS checks for every
value of the constants. Paths below are relative to the repository; line numbers are those
of the commit the model was written from.

## 1. The system

| Component | State it keeps | Operations | What makes it hard | What makes it correct |
|---|---|---|---|---|
| `HTTPConnectionPool` (`connectionpool.py`) | `self.pool`, a LIFO queue of `maxsize` slots (`None` or an idle connection) | `urlopen`, `_get_conn`, `_put_conn`, `close`, the finalizer | threads, responses that own a connection, `close()` at any time, exceptions on every path, garbage collection | a connection has one owner; a slot taken is a slot returned; nothing stays open without an owner; calls end |
| `HTTPConnection`, `HTTPSConnection` (`connection.py`) | socket, tunnel, pending response, what it learned of its peer and proxy | `connect`, `request`, `getresponse`, `close` | half-open states after errors, connections that open again by themselves, readers of a response that was released, contexts shared by connections | a request reaches only whom it is meant for, verified as demanded; a response answers its request; waits keep to their budget |
| `Timeout` (`util/timeout.py`) | a start time | `start_connect`, `connect_timeout`, `read_timeout` | `total` over two phases | never longer than `total` |
| `HTTPResponse` (`response.py`) | the connection it owns, the stream, the decoder, buffers | `read`, `data`, `read1`, `stream`, `read_chunked`, `drain_conn`, `release_conn`, `close` | calls of all kinds and sizes in any order; bytes are held back by zlib, by the decoder, by the buffer; responses that break off | every byte once, in order; the end is reported at the end; the connection goes back once, and clean |
| `Retry` (`util/retry.py`) | counters, history | `increment`, `is_retry`, `is_exhausted`, `sleep` | `None`, `False` and 0 mean different things; two nested loops share it | budgets are never exceeded, the loop ends, unsafe requests are not repeated |
| Redirects, request bodies (`poolmanager.py`, `connectionpool.py`, `util/request.py`) | method, headers, body and its position, passed from one call of `urlopen` to the next | `urlopen`, `rewind_body`, `body_to_chunks`, `request` | two loops, of pools and of managers, each with its own copy; a body that was read in part | each attempt sends the whole body, framed as announced; what must not reach another host does not |
| `HTTPHeaderDict` (`_collections.py`) | lists of values by lower-case name | mapping operations, `add`, `extend` | case, repeated fields, plain dicts in its place | no header is lost or comes back |
| `PoolManager`, `ProxyManager`, `RecentlyUsedContainer` (`poolmanager.py`, `_collections.py`) | an ordered dictionary of pools | `connection_from_*`, `urlopen`, `clear` | several threads, keys that forget spellings and defaults, eviction of a pool in use, redirects to other origins | the right pool, the least recently used one evicted |
| HTTP/2 probe (`http2/probe.py`, used by `connection.py`) | what is known of each origin, one `RLock` each | `acquire_and_get`, `set_and_release` | a lock held from one function to another, over a handshake | one prober, stable answers, the lock released |
| `HTTP2Connection` (`http2/connection.py`) | an `H2Connection` behind a lock, one stream, headers put so far | `putrequest`, `send`, `endheaders`, `getresponse`, `close` | frames queued but not sent, flow control, frames of the server in any order, a request that fails half-way | requests reach the server whole, responses come back whole, the exchange ends |
| Emscripten backend (`contrib/emscripten`) | a worker, a shared buffer per request | `send`, streamed reads, `close` | Python and worker side by side, late answers, timeouts | bodies in order and whole, nothing left behind, calls return |
| TLS configuration, host names (`util/ssl_.py`, `util/ssl_match_hostname.py`) | contexts that users share | `ssl_wrap_socket`, `match_hostname` | several options that weaken or replace the check | accepted means identified |
| `SSLTransport` (`util/ssltransport.py`) | two BIOs and a TLS engine | `recv`, `send`, `unwrap`, the I/O loop | engine, buffers and socket wait for each other | progress, nothing lost |

How they interact: a `PoolManager` hands requests to pools, and follows
redirects itself; `HTTPConnectionPool.urlopen` takes a slot, performs the request
on the slot's connection, and recurses for retries and redirects with the
`Retry` object that `increment()` returned. A response owns its connection until
its body is read (unless `urlopen` releases it in its `finally`), and returns it by
`_put_conn`. `HTTPSConnection.connect` asks the HTTP/2 probe before a handshake
and reports after it. Pools are shared by threads with no lock but the queue's;
`close()` replaces `self.pool` by `None` while others use the queue.

`PROJECT.json` lists the parts, how far each is modelled, and why the others are not.

## 2. The modules

| Module | What it is | Uses |
|---|---|---|
| `ConnectionPool` | the pool: threads in `urlopen`, responses, `close()`, the finalizer | |
| `BoundedSlots` | what a blocking pool promises: a bounded set of slots | refined by `ConnectionPool` |
| `Connection` | one slot and the connection in it, over several attempts: proxy, tunnel, TLS, request, response, timeouts | `HostName` |
| `HostName` | which certificate names which host | |
| `Redirects` | what a request carries over retries and redirects: method, headers, body | `HeaderDict` |
| `HeaderDict` | `HTTPHeaderDict` and plain dictionaries, as operators | |
| `Retry` | `Retry` and the two loops made of it | |
| `PoolManager` | pools by their keys, in a container shared by threads | |
| `Http2Probe` | the probe, as `connect()` uses it | |
| `Http2Connection` | an HTTP/2 connection and its server, frame by frame | |
| `ResponseBody` | one response: its body read, decoded, buffered, and the end of its connection | |
| `EmscriptenStream` | Python, the worker and the browser, and the response between them | |
| `ConnectionPoolProofs`, `ConnectionProofs`, `PoolManagerProofs`, `RetryProofs`, `EmscriptenProofs`, `ResponseBodyProofs`, `RedirectsProofs` | theorems about the module each is named for | |
| `Http2Proofs` | theorems about `Http2Probe` and `Http2Connection` | |
| `MC*` | constants and symmetry for TLC; the `.cfg` files are named after them | |

The subjects overlap where one module has the detail of what another abstracts: the
outcome of a request in `ConnectionPool` is what `Connection` and `ResponseBody` are
about; a pool in `PoolManager` is a count of the connections of `ConnectionPool`; the budget of
`Redirects` is `Retry`.

`PROJECT.json`, "map", names the source lines of each definition. Definitions
called *Mutant of ...* are not part of the model: each is a plausible bug of the
definition after it, and shows that some property would catch it.

### ConnectionPool

One action per access to shared state. A thread's place is `pc[t]`: `get`
(about to read `self.pool`), `dequeue` (in `self.pool.get`), `request` (in
`_make_request`), `backoff` (in `retries.sleep()`, before the `finally`),
`put_load`, `put` and `warn` (in `_put_conn`: reading `self.pool`, calling `put`,
logging that the pool is full), `respond` (after the `finally`), `holding` (the
caller has a response that owns a connection). `then[t]` says who called
`_put_conn`: `urlopen` or the response's `release_conn`.

- The queue's operations are atomic (it has a mutex). The queue outlives
  `self.pool`: a thread that read `self.pool` keeps using the queue `close()` drains.
- `self.pool` is read in `_get_conn` (once: `self.pool.get`), twice in
  `_put_conn`, and again by the warning; `close()` tests it and then takes it.
- Preloading reads the body inside `request`; what is sent and received is
  reduced to the outcome: a response (its socket kept or closed), an error that
  is retried, an error that is raised.
- `block` is a rigid variable, so that one run checks both kinds of pools.
- `Faults` are what the environment may do: drop a response, send a `Location`
  that does not parse, raise an exception asynchronously in a waiting thread.
- History variables: `lost` (slots whose response died unreleased).
- Garbage collection of a response closes its socket; collection of the pool
  runs the finalizer, once no thread is inside it.

### Retry

The recursion of `urlopen` is the loop; `count` is the current `Retry` object,
`passed` the one in PoolManager's `kw["retries"]`, `used` counts the repeated
attempts by cause. `None` and `False` are the model values `None` and `Disabled`, so
that a counter's arithmetic and truth value are those of the code. An
exhausted redirect or status ends in an error or in the response, as
`raise_on_redirect` and `raise_on_status` say. `managed` (rigid) says who follows
redirects: the pool, which passes on what `increment()` returned, or a
PoolManager, which increments its own object. Retry-After is abstracted to
its presence, jitter is left out.

### Http2Probe

`acquire_and_get` is two steps (under `_lock`, then under the origin's lock),
`set_and_release` two. The lock's owner is explicit: `AcquireKey` returns with
it held. `ConnectEnds` is everything between the two calls, ending in any outcome.

### PoolManager

`container` is the `OrderedDict`; a lookup is atomic (it holds the container's
RLock), using the pool is not. What a request asks for is a *context*: scheme,
host, its spelling, port, and which options it overrides. `MergePoolKwargs`, `Key` and
`NewPool` are the three things the code makes of it; `Effective` says when two pools are
alike. Options are kinds: absent, `None`, or a value, which the code tells apart in different
places. A thread refers to the pools of all its nested `urlopen` calls (`frames`), so
an evicted pool lives on while it is used, and only a pool nobody refers to
has its idle connections closed. A pool is its arguments, the number of its
idle connections and its users; `ConnectionPool` has the detail. `recent` is a history: the
keys in the order of their last use.

### Connection and HostName

One slot of a pool and one thread at a time that uses it (`ConnectionPool` shows that
they never share); the caller of an earlier response may still read or close it meanwhile
(`ReadLate`, `CloseLate`). One action per call of `connection.py` that can block
or fail; `pc` is the place in `urlopen`, `_make_request` and `connect`. Each action may
end in `Fail`: the `except` and `finally` clauses of `urlopen`, which close the
connection, put `None` in its place and decide whether the proxy is to blame.

- `conn` is what the object remembers (socket, tunnel, `is_verified`,
  `proxy_is_verified`, `has_connected_to_proxy`, the pending response, `cert_reqs`). `wire`
  is what is true: who reads what is written, which certificates were
  shown in which handshake, and whose responses are still to be read, where the rest
  of the first may be buffered, in the socket (where `is_connection_dropped` sees it) or still on
  its way.
- `ctx` holds the contexts a user gave, which every connection that uses them
  changes. `UsedContext` and `PeerAccepted` are `_ssl_wrap_socket_and_match_hostname`:
  which of OpenSSL's check, `match_hostname` and the fingerprint decides.
- A name is a sequence of labels; what the regular expression of `_dnsname_match` says
  of one label is the constant function `Fits`. `MatchHostname` is the code,
  `Identifies` is RFC 6125's meaning, against which it is checked.
- Time is counted in ticks that pass only in calls that block; `ConnectTimeout` and
  `ReadTimeout` are the arithmetic of `Timeout`.

### Redirects and HeaderDict

`args` are the arguments of the pool's `urlopen`, `kw` those of the manager's, which a redirect
changes and passes on. `at` is how far the body object has been read, by attempts that
succeed and by those that break off. The rules of `rewind_body`, `set_file_position` and of the
framing in `HTTPConnection.request` are operators. Headers are real dictionaries
(`HeaderDict`): an entry has a key with its case, and its values line by line, where values
joined by a comma are sequences; so a header that is lost, doubled or comes back in another
case shows. A plain dict does not fold case. `met` is a history of what happened on the way.
A redirect to the URL just asked for, or to the proxy that was asked for it, is not counted as
one to another host: the peer has seen the request already.

### Http2Connection

The client's calls, one action per call that reaches h2; the server's frames, in any order and
number: settings, window updates, headers, data, the end, a reset, and the close
of the connection. h2 is external: it numbers streams, queues frames, keeps the window, refuses a
frame that does not fit, and answers settings and data; `Takes` is what it makes of one frame.
`out` and `in` are the two directions of the socket. `recv` returns any number of the frames that are there.
`server` is what the server has understood.

### EmscriptenStream

Python, the worker and the browser are three processes with interleaved actions. `int0` and
`bytes` are the shared buffer: a store by the worker is visible at once, and Python reads it when
it wakes, or when its timeout fires. `inbox` is the worker's message queue, `awaiting` its
handlers that are suspended (several of one request may be, if Python gave up), and
`falling` the handler that has stored an error and runs on. `via` is one of the
three ways to make a request. `held`, `free` are the pool's connections.

### ResponseBody

One response and its reader. What is on the wire is a sequence of *units*: a unit
is some encoded bytes and carries the decoded bytes it stands for, each with
an identity, so a byte that is lost, repeated or moved shows in `delivered`. A unit that makes no
output is a header or trailer; `start` and `end` mark a compressed member.
Encoded sizes (`amt` of a raw read, `Content-Length`, chunk sizes) are counted in units,
decoded sizes in bytes. A *scenario* (rigid) is a framing (Content-Length, until the connection
closes, chunked), a coding, the units, how many of them the server sends before it
breaks off, and the calls the reader may make.

- `http.client` is external: `FpRead` and `FpRead1` are what its `read` and
  `read1` can come to (data, end, `IncompleteRead`, timeout), and when they close it.
  `fpchunk` and `chunk_left` are the two places where chunks are counted: its own, and
  that of `read_chunked`, which reads past it and looks only at the second. A `stream()` that
  begins while `fpchunk` is set has therefore lost its place: `iter.rest` is what is on the wire
  from there, as *tokens* (units, lengths and line breaks of chunks), and `LostTurn`, `LostEnd`
  and `LostFails` are a turn of the loop on them. A line may turn out to be any number, also 0, or
  none, since what a unit or a length is in hexadecimal digits is not known; then that many tokens
  are taken for a chunk, or all up to a line that may be empty are skipped and the response is
  closed without an error, its connection with it.
  The reader does not read in the body of its own loop over `stream()`, so `FpRead` never meets
  a `chunk_left`; a generator that is left is closed.
- zlib is external: `Zlib` consumes input until output has no room, holds that
  output back (`pend`), and keeps `unconsumed_tail` and `unused_data`.
  `Deflate`, `GzipPass` and `Gzip` are the decoders' own state around it.
- One action per raw read: a call that needs the network is in `call`, and
  `ReadMore` or `Read1More` is its next raw read with all the decoding and
  buffering up to the one after it. `stream` and `read_chunked` are generators in `iter`;
  each turn is an action, so the reader may stop in between (`Break`).
- `Receive` is `_error_catcher`: an error closes the response and the socket, and a
  closed response puts its connection back.
- History variables: `delivered`, `last` (how the last call ended), `spoiled` (an
  error was raised, or the body was closed or drained: nothing is promised of its end).

## 3. What the runs check

| Run | Instance | Checks | Result |
|---|---|---|---|
| `pool_slots` | 2 threads with 2 calls each, 1 closer, 3 connections, `maxsize` 1, `block` both ways, 1 retry, dropped responses and bad Locations | `ExclusiveOwnership ConnectionLimit NoOpenOrphan ImplementsSlots` | hold, 983,024 states (with symmetry) |
| `pool_liveness` | 2 threads, 2 calls each, 1 slot, 1 retry, asynchronous exceptions | `EveryCallEnds` | holds, 447,298 states |
| `connection` | 3 attempts, 6 routes with 8 demands on certificates each, 6 certificates, 3 timeouts, 2 addresses | `TypeOK RequestWhereMeant VerifiedSound ResponseAnswersRequest WaitsInBudget` | hold, 432,846 states |
| `redirects` | 3 retries or redirects, 5 ways to make a request, 4 URLs (the proxy's own among them), 3 sets of headers, every kind of body | `TypeOK BodyWhole BodyFramed HeadersDropped HeadersKept` | hold, 770,174 states |
| `retry_loop` | 42 kinds of budget, GET and POST, with and without a manager | `TypeOK TotalRespected NoUnsafeRepeat LoopEnds` | hold, 101,338 states |
| `manager_shared` | 2 threads, 2 requests each, 5 contexts of 4 keys, 2 pools kept, 4 pool objects, `clear()` | `LeastRecentlyUsed RightPool` | hold, 641,145 states |
| `probe` | 3 threads, 1 origin, 2 connections each | `OneProber Agreement ProberReleases` | hold, 20,203 states |
| `http2` | 2 requests on a connection, 5 bodies, a window of 3, frames of up to 2 | `TypeOK RequestWhole ResponseWhole BytesAnswered` | hold, 42,971 states |
| `body` | 53 scenarios: every framing and coding, bodies of up to 7 units and 6 bytes, whole and broken off, calls of `read`, `read1`, `stream` with amounts from 0 to 4 and without, `data`, timeouts at every read, `drain_conn`, `close` | `TypeOK InOrder EndMeansWhole FullReads CacheIsWhole CleanReuse CallsEnd` | hold, 68,929 states |
| `browser` | 2 requests, bodies of up to 3 units, a buffer of 2, a pool of 2, timeouts at any point | `TypeOK BodyInOrder NothingLeftBehind CallsReturn` | hold, 386,781 states |
| `body_gzip` | two gzip members, of 6 and 2 bytes, `read(6)` | `InOrder` | violated |
| `redirect_host` | one redirect of a `ProxyManager` | `HostAsDocumented` | violated |

Why the bounds are enough. One slot and two threads is where threads compete: one
waits, times out or is interrupted while the other holds, retries, loses or
returns the slot; a second call of each thread finds what the first left behind.
Three connections let a dead one, a pooled one and a fresh one coexist. One retry
distinguishes a budget that is left from one that is spent. Two calls of a probe's
threads put one before and one after the answer is known; three threads let
one wait behind a waiter. Four keys with two pools make every lookup evict or keep by
recency, four pool objects let evicted pools live on, and the five contexts differ in each
thing a key forgets: a spelling, a default port, an absent or a null option. The
budgets of `retry_loop` are every counter alone, beside a total, disabled,
zero, negative and unlimited; `MaxAttempts` (6) is above the longest bounded loop
among them and cuts only the unlimited ones.

In `connection`, three attempts are one that leaves something behind (an unread response, a
touched context, a dead or half-open socket), one that meets it, and one
after it was repaired. The six routes are all that the code tells apart: plain, forwarded plain,
TLS, TLS to a proxy that forwards, and the two tunnels. The demands cover each option alone
and the combinations that compete: a fingerprint replaces the host name, `assert_hostname`
another name or none, CERT_NONE with a context that checks, contexts for both
handshakes. A wait of `MaxWait` (2) ticks can use up a `total` of 3 in two calls, and `Forever`
(5) is above everything. `redirects` has one hop more than is needed to cross to another host and
come back with a changed method; its headers hold one of each kind that is dropped, and one on several
lines in two cases. In `http2` the window of three is used up by a body of
two and blocks the next; one DATA frame in a response is either there or not, in
any order with the others; two requests let one meet what the other left. In `browser` a
body of three units is cut into pieces larger and smaller than the buffer (2) and the
read (1); each request may time out and meet its late answer.

In `body`, a body of four units has a header, two units of data, one of which expands to
more than a call asks for, and a trailer; amounts 1 to 4 split and join units, chunks
of three units leave a rest, and 0 and none are the special cases of the code. A server that
breaks off after 0, 2 or 3 units does so before the header, in the middle of a chunk
and after a whole chunk. `Big` (20, `_READ_CHUNK_SIZE`) is above every body. The scenarios
leave out what is known to fail, each described below: raw deflate data and a
gzip member that ends exactly where a call has enough (`body_gzip`,
`MCResponseBody_deflate.cfg`), so several members are read as a whole; `read1()` without amount on
broken responses (`MCResponseBody_read1.cfg`). A chunked response is read in part, streamed
(and read as a whole), or both. In the third case stream() loses its place
(`MCResponseBody_mixed.cfg`), and `InOrder`, `EndMeansWhole`, `FullReads` and the part of `CleanReuse` that says what has been read
are not asked of it (`Apart`); that every call ends, what `data` caches, and that
a connection with an open socket comes back only from a closed response, is.

Each run says `CHECK_DEADLOCK FALSE` since the systems really stop: threads
make a bounded number of calls, a request is over, a pool is collected.

Fairness. In `ConnectionPool` threads inside `urlopen` keep running and callers
eventually read or release their responses; nothing makes anyone call
`urlopen` or `close`, makes a peer disconnect or raises an exception in a
waiting thread (`Interrupt` is not among the fair actions, or it would rescue
a thread that waits for ever). Weak fairness is enough for a waiting thread because
the number of calls is bounded; the queue itself promises no order among waiters.
In `Http2Probe` a thread that can go on does: handshakes have timeouts. In
`Retry` each attempt ends. In `ResponseBody` a call that was made continues
(each raw read returns, fails or times out) and a generator is iterated further or left; nothing makes
the reader call again. In `Http2Connection` the thread goes on, and the server reads
what it is sent, answers a request that has ended and ends an answer it has begun; it need
not answer early, and nothing makes an error happen. In `EmscriptenStream` Python, the worker's
event loop and the browser go on (a fetch ends in data or an error); no timeout need
ever fire, so `CallsReturn` does not lean on one.

### What the violations show

- `body_gzip`: `GzipDecoder.decompress` leaves its loop with enough output before it
  looks whether the member has ended (response.py:177-186). The next call feeds what
  follows to the finished zlib object, which only appends it to `unused_data` again, and
  the members that follow are decoded twice, or `read` never gets any further.
- `redirect_host`: `ProxyManager.urlopen` puts the `Host` it made into `kw["headers"]`, which
  PoolManager passes on with a redirect; there it counts as the user's, and the
  proxy is asked for a URL of the second host with the `Host` of the first
  (poolmanager.py:664; "Only sets headers not provided by the user", 642).

### Further divergences

The model contains these, and no run is spent on them. A configuration in brackets
is kept beside the runs and shows the violation: `tlc -config <it>` with its MC module.

Pools:

- [`MCConnectionPool_interrupt.cfg`, `NoFullPoolError`] An exception that leaves
  `self.pool.get()` before a slot was taken (KeyboardInterrupt, a signal handler) makes the
  `finally` of `urlopen` put a `None` that was never taken; another thread gets `FullPoolError`.
- [`MCConnectionPool_badlocation.cfg`, `NoSlotLost`] `is_same_host(redirect_location)`
  raises after the `finally`, and nobody drains the response: the slot is gone.
- `close()` drains the queue and wakes nobody: a thread that waits in
  `self.pool.get()` without `pool_timeout` stays there, as nothing is put into the
  queue any more (connectionpool.py:568; "the call will block until a connection has been
  released", 147-148). `EveryCallEnds` is therefore checked without closers.
- `_put_conn` that read `self.pool` before `close()` puts its connection into the
  drained queue, where it stays open until the finalizer ("If the pool is closed,
  then the connection will be closed and discarded", connectionpool.py:306).
- After `queue.Full` the warning reads `self.pool.qsize()` and raises
  AttributeError if `close()` came in between (connectionpool.py:330).
- Two concurrent `close()`: the second may drain `None` (connectionpool.py:565-568).
- With `preload_content=True, release_conn=False` the body is read before the
  response knows its connection, which it then keeps (docstring,
  connectionpool.py:687-689).
- A pool that is evicted from a PoolManager while in use gets a twin when its
  origin comes back, and the host sees the connections of both (_collections.py:118; "at most
  `maxsize` connections open to a particular host", docs/advanced-usage.rst:45-46).
  The bound is one of each pool (`ConnectionLimit` of `ConnectionPool`).
- `clear()` does not reach pools that requests hold: a retry in such a pool
  uses the same connection again (poolmanager.py:287-288).
- `PoolManager(timeout=None)` and an override `{"timeout": None}` share a key, but the
  override removes the option, whose default is not `None`: who comes second gets the first one's
  timeout (poolmanager.py:120-128, 353-377). The model's options have the default
  `None`, but for `blocksize`.
- `connection_from_host(scheme="HTTP")` raises KeyError for a pool it must make,
  and returns one that is there (the key is in lower case).

Connections:

- [`MCConnection_blame.cfg`, `ProxyErrorMeansUnconnected`] If the connection breaks while a response
  is awaited, `getresponse` closes it, which resets `has_connected_to_proxy`; the error
  is then blamed on the proxy (connectionpool.py:836), counts as one that never reached
  the server, and a POST is sent again.
- A response that was released unread and is closed while the rest of it is still on its
  way leaves bytes for the next request on the connection. `ResponseAnswersRequest` is
  checked and proved with `MayCloseInFlight = FALSE`.

Retries and redirects:

- [`MCRetry_managed.cfg`, `TotalOverPools`] PoolManager increments its own `Retry` object and
  not the one the pool used up, so `total` bounds each pool's retries separately.
- A redirect's Retry-After is slept for also when `respect_retry_after_header` is
  False (connectionpool.py:920, retry.py:182-183).
- With `total=None` a Retry-After response is never retried (retry.py:427, 73-74).
- After a 303 the body is dropped but not its position, and `rewind_body` raises ValueError
  (connectionpool.py:895-907). In the model: `PoolUrlopen` raises.
- Behind a proxy that is asked for `http` URLs, `is_same_host` compares with the proxy's own address
  (poolmanager.py:482, 635): a redirect that stays on its host loses the headers of
  `remove_headers_on_redirect`. `Dropped` in `HeadersKept` says so.
- A manager passes no position: a 307 sends what is left of a file, which is nothing.
- An iterator is empty on a retry, which is sent with an empty body (`Replayable` excludes both).

HTTP/2:

- [`MCHttp2Probe_waiters.cfg`, `EveryConnectEnds`] A thread that waited for a probe and is
  told the answer keeps the origin's RLock; the next waiter blocks for ever.
- [`MCHttp2Connection_streams.cfg`, `StreamsAnswered`] The end of a streamed body is queued,
  not sent, and `getresponse` waits for the server (http2/connection.py:192, 208).
- `getresponse` spins when the server closes: `recv` returns nothing again and again (235; `Spin`).
- A reset and a GOAWAY are ignored, and events of other streams, pushed ones included, are
  taken for the response's. A byte body longer than a frame or the window raises.
- `HTTP2Response` inherits `release_conn` and `drain_conn` from `BaseHTTPResponse`, where they
  raise NotImplementedError (response.py:591-595): a status that is retried over HTTP/2 ends in it
  (connectionpool.py:953). Its `get_redirect_location` returns None, so no redirect is followed.

Bodies:

- [`MCResponseBody_deflate.cfg`, `EndMeansWhole`] zlib can have consumed all of a raw deflate
  body and still hold back output; `has_unconsumed_tail` (response.py:119-122) looks at the input
  only, so `read(amt)` says that the body is at its end and `stream(amt)` stops. (The zlib format
  and gzip have a trailer, which stays unconsumed as long as output is held back.)
- [`MCResponseBody_read1.cfg`, `EndMeansWhole`] `read1()` without `amt` returns `b""` at the end of a
  truncated body without an error: the length is compared only if `amt` is given
  (response.py:1027-1047; "so all calls with incorrect Content-Length are caught", 1037-1038).
- [`MCResponseBody_mixed.cfg`, `StreamIsRead`] After `read(amt)` has begun a chunk, `stream()` reads
  a line of what is left of it and takes that for the length of the next chunk
  (response.py:1345-1358): `chunk_left` of urllib3 is None, and http.client's own is not looked
  at. So it is for bodies without a coding, too.
  Of a chunk `12345`, `read(1)` and `stream()` wait for 0x2345 bytes after the line, and yield what
  comes, the following lengths included. Of a chunk `10`, the `0` passes for the last chunk:
  what follows is skipped up to an empty line, which may be one of the body; the end is one
  without an error, and the connection goes back to the pool with its socket open, be there
  something left of the response or not. When `read` stopped at the end of a
  chunk, or the rest is no number, `stream()` raises `InvalidChunkLength`. The docstring calls
  `stream()` "A generator wrapper for the read() method." (1246).
- `stream()` on a chunked response also ignores what an earlier `read(amt)` left in the
  buffer, and yields nothing once the response is closed (response.py:1263, 1419).
- `stream()` without `decode_content` decodes a response with a length and does not
  decode a chunked one, since `read_chunked` does not replace `None` by the default
  (response.py:1439). The model streams with `decode_content=True`.

Emscripten:

- [`MCEmscriptenStream_zero.cfg`, `ZeroIsEOF`] The worker's `catch` stores an error and falls
  through to the code that stores a length of zero (emscripten_fetch_worker.js:39-58): if Python
  wakes late, it reads a broken body as one that has ended (fetch.py:183).
- `close()` and `drain_conn()` close the body without giving the connection back: the pool
  loses the slot (response.py:199-237). `NothingLeftBehind` counts it as lost.
- A request whose wait for the headers times out leaves the worker's reader open.
- A streamed response without a body makes the worker fail, a timeout below a millisecond
  becomes zero, and `read(0)` closes the response (not modelled: amounts are positive).

## 4. What is proved

TLAPS checks the following for any sets of threads, connections, origins, contexts and certificates
and any values of the constants that satisfy the named assumptions. Some properties are only
proved, and not among the runs' any more, since a theorem says more: they are marked (*).

**ConnectionPoolProofs.** `TypeCorrect` (*) is inductive by itself. `Shape` says what a
thread carries at each place (nothing before it has a slot, `conn` during the
request, the response's connection after that), and that a closer that drains
has closed the pool. On it rest:

- `OwnershipIsExclusive`: `ExclusiveOwnership` is inductive with `Shape`. A step
  drops connections, takes one nobody has, or moves one of its own to the queue.
- `SlotsAreConserved` (*), `NeverFull` (*): `SlotConservation` is not inductive, as it
  says nothing of a closed pool, where slots may only disappear. `SlotInv` adds
  *free + held + lost <= maxsize* in every state. Every step of a thread takes a
  slot, gives one back, drops one (a closed pool, a forgotten response) or
  keeps them (`SlotStep`), and room for a returned slot follows from counting.
- `PoolImplementsSlots`: under the mapping *free* = length of the queue, *holders* =
  threads that hold a slot, each step is a step of `BoundedSlots` or a stutter.
- `NoOrphans`: `Owned` (open sockets have an owner; a connection refused by a
  full queue is closed before the warning) with exclusive ownership.
- `ConnectionsAreLimited`: open sockets inject into the slots in use.
- `FinalizerClosesAll` (*), `HoldersClose` (*): from the invariants above.

Four of them (`SlotsAreConserved`, `NeverFull`, `PoolImplementsSlots`,
`ConnectionsAreLimited`) assume `"interrupt" \notin Faults`, and
`MCConnectionPool_interrupt.cfg` shows that they need it.

**ConnectionProofs.** `AcceptedIs` says that a handshake which the code accepts shows a
certificate as demanded, whichever of the three checks (OpenSSL's own, the fingerprint,
`match_hostname`) made it so; under it, `MatchIdentifies`: what `match_hostname` lets pass
identifies the host. `RequestWhereMeant` is not inductive: it says nothing of a connection between
two requests, or half set up. The invariant adds that a policy stays what the configuration says
although a shared context is changed by each connection (`PolicyKept`), when there is a socket
and whether it is set up for a tunnel (`SocketStages`), what each stage of connecting has shown so
far (`SetUpStages`), that a socket that is set up is as it was meant to be also while it idles in
the pool (`SocketsAreEstablished`), which timeout object and socket have at each stage
(`TimeoutStages`), and that there is something left of a response being read
(`SomethingUnread`). A step either forgets everything (`Fail`, an interrupt, a close) or goes on
(`FailOrGoOn`), and most of those show no certificate (`MostShowNothing`). From it come
`TypeCorrect`, `RequestsGoWhereMeant`, `VerifiedIsSound` and `WaitsStayInBudget`. `AnswersAreOwn`
adds `UnreadStages`: at most one response to an earlier request is on the wire, and none that
the connection does not know of once an attempt has begun. It assumes `~MayCloseInFlight`, and
section 3 says what happens without.

**PoolManagerProofs.** The inductive invariant says of every request that it has its context and
refers to its pool (`Carried`), that what is referred to exists (`Alive`), that the pool it
has is like the one its context asks for (`Suited`), that the container's pools are those of
their keys (`AllFiled`), and, element by element, that the container's keys are the last ones of
the history (`Ordered`), in which no key occurs twice. `KeysAgree` is the heart of
`PoolsAreRight`: contexts with one key ask for pools that are alike. `UsedLastAreKept`
follows from `TouchOrdered` and `InsertOrdered`: moving an entry to the end, and
appending one and dropping the first, do to the container what a lookup does to the history.
`TypeCorrect` (*) bounds the container by `num_pools`; for the idle connections it counts the
users of a pool (`PoolLimit`).

**RetryProofs.** `Spent(s, n, c)`: a counter that started as `s` and paid for `n`
repeated attempts is now `c = s - n`, and never went below zero. `IInv` keeps that
for every counter of a pool's loop, and for the redirect counter that the
next redirect counts against, whoever follows redirects. From it:
`RedirectsAreRespected` (*, always), `CountsAreRespected` (*) and `TotalIsRespected`
(without a manager; `MCRetry_managed.cfg` shows why). `TypeCorrect` and
`UnsafeIsNotRepeated` (`NoUnsafeRepeat`) need, of every call, what became of the latest
attempt: it is sent again only where the `Retry` object allowed it.

**Http2Proofs.** Of the probe: a thread that probes owns its origin's lock and the origin's
value is unknown until it reports; this gives `ProbersExclude`, `NeverReset` (*),
`WaitersAgree`, `KnownIsStable` (*) and `ProbeTypeCorrect` (*).

Of the connection: `RequestWhole` and `ResponseWhole` say nothing of the frames under way, and what
breaks them later is decided there. `Http2Inv` follows those frames, with a trace along
each direction:

- `Leads`: the frames on the wire and those h2 has queued, read one by one, take the server's view
  of the streams to one in which each stream is one request, at every step, and ended only
  with its whole body. `Sent` says what that view is of the stream at hand: what the thread has sent.
- `Tells`: the frames from the server, gathered one by one, take `reading` to what the server
  has sent of this stream, its end included (`Matches`), and nothing but quiet frames comes
  after an end. Hence a `recv` that brings the end brings all, and leaves nothing for the next response.
- `Weighs`: the data under way and the grants on their way back are together not above what the
  window has lost.
- `InTurn`: a stream is opened once, and all streams but the present one have been answered to their
  end. So every answer is to the present request, and getresponse need not look at a stream's number.
- `Placed`: fields are there only between `putrequest` and `endheaders`; a new socket has a new
  H2Connection (`Fresh`); streams are numbered by the requests (`Numbered`).

For each of the traces there are lemmas about `Append`, `\o`, `Tail` and a prefix taken away
(`LeadsTail`, `TellsAfter`, `WeighsConcat`, ...), and one for what `Taken` folds (`TakenFold`). `Http2TypeCorrect`,
`RequestsWhole` and `ResponsesWhole` follow. They assume of the constants that a request
of the kind `none` has a body of size zero.

**EmscriptenProofs.** Python and the worker take turns, so the invariant says of each request what
is known where its call is: whose turn it is (`Asked`: one `getMore` is on its way, or with the
fetch's reader; `Answered`: what the shared number then means), that the units read, those in
the shared buffer and those the worker has fetched but not copied follow on
each other (`UnitsOf`, `Ready`, `Delivered`), what is left after the end (`BodyClosed`), and that
every slot is free, held, or lost (`Slotted`). `Orderly` has the subtle part: a handler that
falls through after an error may only write while nobody relies on what it overwrites. It
gives `TypeCorrect`, `BodiesInOrder` and `NothingIsLeftBehind`, for any set of requests,
infinite ones included.

**ResponseBodyProofs.** Four results, each resting on those before.

- `TypeCorrect`, from `Types`: every piece of state, the decoders' own included, is what it
  should be, whatever zlib does within its contract.
- `InPlace`: if the reader is `Apart`, no `stream()` begins while http.client is inside a chunk of
  an open response, so the three actions of a lost generator are never enabled. (A read of
  everything is the only one beside the stream; it closes the response, or fails and does.)
- `ConnectionsAreReusedClean`, from `Released`: a response that http.client has closed has put
  its connection back, unless an error or `close()` closed the socket too; a connection put back
  with its socket open belongs to a closed response that, if the reader is `Apart`, was read
  as a whole. It holds if responses that are cut off are not
  read with `read1()`, which does not notice (`BreaksAreNoticed`; `MCResponseBody_read1.cfg`).
- `BytesComeInOrder`, `EndsAreWhole`, `ReadsAreFull` and `CachesAreWhole`, from `Sound`. Its core is
  `Order`: *the bytes delivered, then those in the buffer, then those the decoder holds back, are
  the bytes of the units it has consumed; and its unconsumed tail goes from there to
  what was read of the socket* (`Follows`, `Fed`). After an error, or a drain, this holds of some
  earlier point (`Lined`).
  `Calling` adds which calls can be under way when, `Holding` and `Unread` where nothing can be in
  the buffer or the decoder, and `Reached` that whoever is told of the end is there. The lemmas below it say what `BytesQueueBuffer` does (`PutIs`, `GetIs`: a split of
  a queue of pieces is a split of their concatenation), what zlib's contract is worth over many
  calls, what each decoder keeps of it, and that nothing is lost between `_fp_read`,
  `_raw_read` and `_decode`. Induction over positions of a sequence is done with *sets* of numbers
  (`SetInduction`), as the provers cannot instantiate the library's theorems on predicates.

These four speak of a scenario that is `Ordinary`: not encoded, brotli, or one well-formed member
of zlib or gzip; and a chunked response that is decoded and streamed is only streamed.
And the reader must be `Apart`, which the first three properties say themselves and `CachesAreWhole`
assumes: without, the bytes come in any order (`MCResponseBody_mixed.cfg`). The last three also need a break to be
`Noticed`: the body is not delimited by the connection's end, which hides a break from anybody, and
`read1()` is not called on a body with a length. `ReadsAreFull` needs `Fills`: without
decoding, `read(amt)` returns what one read of the socket found. What is outside of `Ordinary`
(several members, data after a member, raw deflate) is only model-checked, by the runs of `ResponseBody`.

**RedirectsProofs.** The first half is about dictionaries. `SetItem`, `Add`, `Update`, `Extend`,
`HTTPHeaderDict`, `Without` and `_set_proxy_headers` are folds over entries and lines; for each, by
induction over the positions of the fold, a dictionary stays a dictionary (`IsDict`: a key
comes once, with a value at least), which names it may then have, and that what it tells under any
other name is unchanged (`UpdateIs`, `HTTPHeaderDictIs`, `WithoutIs`, `ProxyHeadersAre`, `NamesAre`).
The second half is about a request. None of the four properties is inductive: they speak of what was
sent last, which is made of what was carried there. `Inv` says

- `Requested`: the arguments of the pool's `urlopen`, and of the manager's, follow from the caller's
  (`FollowsBy`): the body is his or, after a 303, none; the method then is GET; the headers are
  `CarriedBy`: of his names and those added for a proxy, without those that were to go after what
  has been met, and telling the same under all that need not go; and while no redirect has led away, a
  pool is still asked for its own URL, which is what `is_same_host` compares with;
- `Placed`: where a body that can be read again is, and that its position is recorded before it
  moves, and is the one it had at first, or says that it cannot be told;
- `Sent`: what was sent is what the arguments say, and as much of the body as there is.

`Types` bounds redirects by the budget. From `Inv` follow `TypeCorrect`, `BodiesAreWhole`,
`HeadersAreDropped` and `HeadersAreKept`; `BodiesAreFramed` also needs that a caller who gives
a length gives a body (`Announces`). They hold for every budget, any URLs, and any headers in
dictionaries of either kind.

Only model-checked: the liveness properties (`EveryCallEnds`, `LoopEnds`, `ProberReleases`,
`CallsEnd`, `BytesAnswered`, `CallsReturn`; liveness is out of the prover's reach). Every safety
property of a passing run is also proved, some of them under the conditions named above.

Assumptions on constants: `maxsize` is positive (a `LifoQueue` of size zero is
unbounded), the set of threads is finite, every option but `blocksize` has the default `None`, model
values are what they are named for; in `ResponseBody` a unit of a body that is not encoded is one
byte (the two are counted alike there), and `Big` is above the length of any body; in `Connection` a configuration that needs a tunnel uses TLS,
and no bound of a call's wait reaches `Forever`. In `Redirects` headers are dictionaries, a URL is two
strings, the proxy's headers frame no body, and a caller does not ask for two framings at once
(`FramingAssumption`; the code would announce both). `LiteralsAssumption` says of three literals that
they are strings, which the provers do not know.

## 5. Not modelled

- `SSLTransport`: when its loop waits for what is decided by OpenSSL; in `Connection` the
  second TLS layer is a handshake like the first.
- URL parsing (`util/url.py`), forms and multipart: pure functions of characters.
- SOCKS and pyOpenSSL: adapters to libraries, without state of their own.
- TLS versions, ciphers, the loading of certificates; which system call waits for a socket.
- zstd, several codings in a row, brotli with output limits, preloading and a switch of
  `decode_content` between calls, in `ResponseBody`; `Retry.from_int`, jitter, the
  history's contents, in `Retry`.

## 6. Plan

1. `SSLTransport`: the loop between an abstract engine, two BIOs and a socket; progress, and
   nothing lost at the end of the stream.
2. `ResponseBody`: zstd, several codings in a row, preloading; an abstract reader (a
   cursor in the body) that it implements; `BytesQueueBuffer` as a module of its own.
3. Composition: `ConnectionPool` with the connections of `Connection`, several slots at once.
4. Proofs: gzip with several members in the order theorems of `ResponseBody`.
