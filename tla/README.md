# Verification of the FirmUps device SDK

TLA+ models of the device SDK in `src/` (C, a library an application on a small device links
to read parameters, report its firmware and download firmware from a server), the TLC
instances that check them, and proofs about them checked by TLAPS.

## 1. The system

| component | code | state it keeps | operations |
|---|---|---|---|
| Context and lock | `src/src/sdk.c` | `struct firmups_sdk_context`: callbacks, crypto context, download context, two 128-byte buffers, `atomic_flag lock` | `firmups_sdk_initialize`; every public function is `LOCK_CONTEXT`, private function, `UNLOCK_CONTEXT` |
| Parameter and device info | `src/src/sdk.c`, `src/src/operation/*.c` | the context's `operation_buffer`, `response_buffer`; the caller's output arguments | `get_parameter`, `get_device_info`, `set_device_info` and their encoders and parsers |
| Firmware download | `src/src/sdk.c`, `src/src/operation/firmware.c` | `struct firmups_sdk_firmware_download_context`: firmware id, offset, chunk size, two halves of the caller's buffer, `valid`, a lock of its own; and one `static ret_code` | `download_initialize`, `get_chunk`, `finish` |
| COSE codec | `src/src/codec/cose.c` | `cose_ctx`: nonce, associated data (`crypto_ctx`) | `cose_encrypt_msg`, `cose_decrypt_msg`, header encode/decode |
| Crypto | `src/src/codec/crypto.c` | none | `encrypt_data`, `decrypt_data` around the `get_key` callback and ascon AEAD |
| CBOR helper | `src/src/codec/cbor_helper.c` | none | header sizes and writes |
| Gateway | `src/src/sdk.c` | none of its own | `gateway_send_message` |
| Server and transport | not in the repository | device records, parameters, images | `send_data` callback; answers |
| Application | not in the repository | the firmware it runs and the one it fetches | start, report, look, download, install; reset |
| Logging, test, build files, submodules | | | not modelled (section 9) |

**Interaction.** An application thread calls a public function. It tries the context's lock
and returns `UNSUPPORTED_CONCURRENCY` at once if that is taken; it never waits. Inside, the
call encodes an operation into one buffer, draws a nonce into `cose_ctx` and seals the
operation into another buffer, hands it to `send_data` (which blocks until it has a reply or
gives up), opens the reply with the header stored in the same `cose_ctx`, first looks for an
error operation, then parses the response, compares what the server echoes, and only then
changes the session or reports success. The operations other than the download use
`response_buffer` and `operation_buffer` for this, `get_chunk` the two halves of the
download buffer; the buffers swap their roles between request and reply.

**What is hard.** Two threads on one context, with callbacks in the middle of the critical
section; some thirty early returns that all must come back to the unlock; two threads on two
contexts sharing the one `static ret_code`; a transport that times out and later delivers
the reply to an earlier request, damages it, or delivers a request twice; random and key
callbacks that fail; buffers that still hold the last exchange; a device reset in the middle
of a call, whose memory still holds a taken lock and an open session; a download session
over several calls with retries; associated data that is built byte by byte around a header
in one direction and encoded in one go in the other; a header that is accepted entry by
entry; sizes at the edge (exact fit, chunk size 0, image a multiple of the chunk size).
`PROJECT.json` lists each at its line under "hazards".

**What makes each part correct.**

- Lock: a context is locked exactly while one thread is inside; every call ends.
- Operations: what is sent is this call's operation; what is returned is what the server
  holds; an error of the server reaches the caller; an update reported as done is one the
  server could open and has put on the device's record.
- Download: the application holds exactly the first `offset` bytes of the image of the
  session's firmware; nothing but `finish` and `initialize` ends a session and nothing
  changes an open one but progress; "complete" means whole; the return code tells whether
  the chunk was counted.
- Codec: no nonce twice; what a message opens as depends on that message and the key alone,
  never on the message before; exactly the headers of the protocol are accepted; the
  associated data of both directions agree.
- Application: with these functions alone it gets from any state to the firmware the server
  wants, and never runs one it did not receive whole.
- Sizes: a request and the reply to it fit the buffers they were computed for.

## 2. Modules

```
SdkTypes          error codes, opcodes, CBOR items, messages as frames
  CborSizes       bytes the encoders produce; tag and header sizes
    Operations    request encoders and response parsers as operators
      Backend     the server and its answers (external)
        FirmupsSdk        the SDK: threads, contexts, calls, transport
          SdkProperties   TypeOK, safety, action, liveness, refinement
            MCSdk            instances for TLC
            UpdateAgent      an application on top of the SDK, with resets (external)
              MCUpdate         its instance for TLC
            SdkProofs        lock invariant
              SdkTypeProofs      type correctness
                SdkExchangeProofs  nonces and requests
                  SdkReplyProofs     replies and return codes
                    SdkDownloadProofs  session lock, sessions and images
                    SdkResultProofs    values, records, updates, errors
                      UpdateProofs       the application (with SdkDownloadProofs and
                                         UpdateAgent)
    CoseCodec     cose.c and crypto.c from inside: one crypto context, byte by byte
      CodecProperties   what sealing and opening must do, about the message alone
        MCCodec           instances for TLC
      CodecProofs       associated data, decoding loop, sealing and opening
DownloadSession   abstract download session, INSTANCEd by SdkProperties
```

Each level `EXTENDS` the one above it. No module declares a `RECURSIVE` operator, so all can
be proved about.

### State and code (FirmupsSdk)

| variable | code |
|---|---|
| `ready` | `firmups_sdk_initialize` has returned this context |
| `lock` | `context->lock` |
| `dl` | `firmware_download_ctx`: id, offset, chunk size, buffer sizes, `valid`, `lock` |
| `cry` | `cose_ctx.crypto_ctx`: the header whose nonce and associated data are in place |
| `mem` | contents of `operation_buffer`, `response_buffer`, `buffer1`, `buffer2` |
| `static_ret` | `static ret_code` of `sdk_firmware_download_get_chunk` |
| `pc`, `call`, `ret`, `loc`, `out` | one call per thread: control point, arguments, return code, local opcode and message token, output arguments |
| `drawn`, `reqs`, `served`, `reps`, `srv` | random source, messages sent and read, replies, server's records |
| `budget`, `flash`, `window`, `got` | calls left (bound), what the application wrote, device records seen during a call, the reply a call was given (the last two are history) |

A buffer holds a *frame*: a plain operation (list of CBOR items), a sealed message
(header, key, operation), a piece of image, or bytes nothing is known about. Integers, ids
and sizes are numbers with their real encoded sizes, so whether something fits a buffer is
decided as in the code. `UINT32` is a constant (65536, in the codec 2^30, since TLC's own
integers are 32 bits); the truncations of the parsers and the wrap of `offset` are `%
UINT32`.

### Actions and code

A step runs from one callback, or one access to memory others can reach, to the next.

| actions | code |
|---|---|
| `SdkInitialize` | `firmups_sdk_initialize` |
| `CallLocks`, `CallRefused`, `CallRejected` | `LOCK_CONTEXT` of each public wrapper, the gateway's check before it |
| `RejectArguments`, `RejectNoSession` | argument and `valid` checks |
| `InitializeTooSmall`, `InitializeBusy`, `InitializeStarts`, `Finish` | `sdk_firmware_download_initialize`, `..._finish` |
| `CreateRequest` | `operation_create_*_request` |
| `DrawNonce`, `RandomFails`, `Seal` | `cose_encrypt_msg`, `encrypt_data` |
| `Send`, `Forward`, `Deliver`, `SendFails` | the call of `send_data`, its return with and without a reply |
| `OpenHeader`, `NotAMessage`, `Open` | `cose_decrypt_msg`, `decrypt_data` |
| `ParseError`, `ParseSimple`, `ParseChunk` | `operation_parse_*_response` |
| `CommitMismatch`, `CommitSimple`, `CommitChunk` | echo comparison; offset, `is_complete`, output |
| `Bail` | each `if (ret_code != NONE) return ret_code;` |
| `Leave`, `Unlock` | `return ret_code;`, `UNLOCK_CONTEXT` |
| `Consume` | the application uses the result |
| `ServeNew`, `ServeAgain` | server (external) |

Operators headed "Fault:" are plausible bugs; `PROJECT.json` pairs each with a property it
breaks. They are not part of `Next`.

### The codec from inside (CoseCodec)

`FirmupsSdk` uses the codec for what it promises: a message opens exactly with the key and
the header it was sealed with. `CoseCodec` is the code that has to keep this promise.

| definition | code |
|---|---|
| `crypto_ctx` | `cose_ctx.crypto_ctx`: `ad`, `adlen`, the sixteen bytes of the nonce |
| `callbacks` | which build: crypto callbacks or the library's own cipher |
| `aad_buffer`, `last`, `left` | the memory the associated data is built in; the last operation with its result; operations left (bound) |
| `create_aad`, `SealingAad` | the associated data as `create_aad` encodes it, and as `cose_encrypt_msg` builds it around the header, in a buffer that holds an earlier message |
| `encode_protected_header`, `decode_protected_header` | a header as a list of map entries (key, type, value, length); decoding folds over the entries, with the nonce copied byte by byte |
| `RandomFails`, `SealRefused`, `SealFails`, `Seal` | the returns of `cose_encrypt_msg` |
| `OpenUnframed`, `OpenTooLarge`, `OpenMalformed`, `OpenBadHeader`, `Open` | the returns of `cose_decrypt_msg`; `DecryptCode` is `decrypt_data` |
| `Arriving` | messages a server (or an error on the way) can produce from the headers of the instance |

Bytes of the associated data are bytes: fixed ones are their value, those of an encoded
header are "byte i of header h", so equality of two byte strings is decided byte by byte
while the inside of the encoding (tinycbor's) stays abstract. A nonce byte is likewise "byte
i of nonce v".

### The application (UpdateAgent)

The shortest program that uses the functions for what they are for: initialise, report the
running firmware, look up the desired one, download it chunk by chunk, install, restart.
Each call is repeated until it succeeds. `Reset` strikes between any two steps: the call in
progress is gone, the context's memory stays as it is (lock taken, session open), and
messages on their way still arrive. It is for `firmups_sdk_initialize` to make the context
usable. `AgentCalls` are the calls the application can come to make, and `AgentAssumption`
makes them those the SDK's model is given. The firmwares of its device fit a `uint16_t`,
which is what `download_initialize` takes (`src/include/firmups-device-sdk/sdk.h:98`).

### Abstractions and assumptions

- **The static return code.** `ret_code` in `get_chunk` is one object for all contexts,
  accessed without synchronisation. Every read yields either that object's value or what the
  same call stored last (an optimising build may keep it in a register; the default Debug
  build does not).
- AEAD is ideal: opening succeeds exactly with the sealing key, header and ciphertext. The
  random source never repeats itself when it succeeds.
- `get_key` may fail; its return code is ignored, as in the code, and the key is then all
  zeros.
- The application does not re-initialise a context while a call uses it, has one downloading
  thread per context, and gives a non-null context.
- A reply is handed only to calls on the context whose request it answers. With `Matching =
  TRUE`, only to that very request; with `FALSE`, also to later ones (a late reply after a
  timeout). Which one a deployment has depends on the application's `send_data`, so runs of
  both kinds exist.
- tinycbor's own errors appear where its input can cause them: missing item, wrong type, too
  little room. Bytes nothing is known about give any error code.

## 3. Runs

Each takes less than two minutes. The runs of the SDK use `MCSdk`, with threads `t1`, `t2`
and context `c1` (`c2` only in `shared_return_code`); the constant `MaxCalls` bounds the
calls each thread makes. `update_cycle` uses `MCUpdate`, `codec` and `callback_userdata` use
`MCCodec`.

| run | bounds | checks |
|---|---|---|
| `concurrent_calls` | 2 threads x 2 calls on one context; random failures, duplicated requests | `MutualExclusion`, `RequestFaithful`, `ParameterIntegrity`, `InfoIsCurrent`, `ServerErrorReported`, `NonceUnique` |
| `download_stale` | 6 download calls; timeouts, damaged and late replies | `TypeOK`, `ImageIntact`, `ChunkReturnHonest`, `DownloadImplementsSession` |
| `download_complete` | 4 download calls and 1 update or forwarded message from another thread; failing key callback; replies matched | `CompleteMeansWhole`, `SessionLock`, `SessionStable`, `CallsReturn` under `FairSpec` |
| `update_cycle` | a firmware of two chunks; two misfortunes out of resets, failing random and key callbacks, timeouts, damaged and late replies | `InstalledWhole`, `UpdateApplied`, `UpdateHappens` under `FairAgentSpec` |
| `codec` | 3 operations on one crypto context, 17 shapes of header, both builds, failing callbacks | `SealedCanonically`, `OpensExactly`, `OpenedFields` |
| `chunk_error_code` | violation | `ServerErrorReported` |
| `shared_return_code` | violation | `ChunkReturnHonest` |
| `tag_failure_code` | violation | `ReturnCodeInEnum` |
| `exact_fit` | violation | `TooSmallIsTooSmall` |
| `empty_chunk` | violation | `ChunkProgress` |
| `reply_room` | violation | `ReplyFits` |
| `callback_userdata` | violation | `CallbackUserdata` |

**Why the bounds are enough for the question asked.** In `concurrent_calls`, two threads
meet at every control point, and the second call of a thread finds the state its own and the
other's first call left; the calls cover every parameter type family, buffers one byte too
small and just large enough, an unknown id, an update and a forwarded message. In
`download_stale` six calls allow a session, a timed-out chunk, `finish`, a new session on
another firmware or with another chunk size, and a chunk that meets the late replies of
both. In `download_complete` four calls carry images of four and five bytes in chunks of two
or three (multiple and not) to their end, or open, refuse and reopen sessions. In
`update_cycle` two misfortunes are enough for one to prepare the other: a late reply after a
reset, a second reset before the first was recovered from, a damaged chunk and then a chunk
of the earlier attempt; `MaxCalls` is 24 so that the budget of calls never ends a cycle that
two misfortunes interrupted (eight calls without any). In `codec` three operations let a
message be sealed after another was opened and the reverse, over what it left in the
context; the headers include each way of being refused, both sides of the 51 byte limit,
double entries, short and long nonces, and keys that only an `int` cast makes known. Faults
not enabled in a run are enabled in another whose properties depend on them.

**Properties that depend on the transport.** `get_parameter` and `get_device_info` compare
nothing in the reply with the request, so `ParameterIntegrity` and `InfoIsCurrent` are
checked with matched replies only; with late ones they do not hold, and the code has nothing
to make them. The same is true of `CompleteMeansWhole`: `is_complete` compares the reply's
size with the current chunk size, and a late reply from a session with smaller chunks has
the right offset and firmware. It does hold with late replies when all downloads are opened
with buffers of one size (`OneBufferSize`, section 5): then every session asks for chunks of
the same size. That is why `InstalledWhole` holds in `update_cycle`. `ImageIntact`, the
refinement and `UpdateApplied` hold also with late replies, because of the echo comparisons.

`ServerErrorReported` passes in `concurrent_calls`, whose calls are not downloads, and fails
in `chunk_error_code`. `ChunkReturnHonest` passes with one context and fails with two.

**The stop of `update_cycle` and `codec`.** They run without the deadlock check: a device
that is up to date, and a codec whose bound is reached, have nothing left to do.

**Fairness.** `FairSpec` assumes weak fairness of each thread's next step in a call it has
begun (the thread is scheduled and the callbacks return; a `send_data` that never returns
would block the SDK and is outside its control) and of the server reading new messages. No
fairness for beginning a call or for re-reading. `Step` of a thread is one disjunction, so
fairness does not choose between success and failure: `SendFails` is enabled when no reply
can come. `FairAgentSpec` assumes the same of the application (`UpdaterStep`: it goes on
with what it is about) and of the server, and nothing of the outcome of a step. Instead the
number of misfortunes is bounded (`MaxMisfortunes`): a step that goes worse than it had to
counts one, and when none is left only the good outcome is. A device whose transport fails
for ever is never updated, and no property says so.

## 4. What the code says and does not keep

1. `chunk_error_code`: `get_chunk` decrypts into `buffer2` but looks for an error in
   `operation_buffer` (`src/src/sdk.c:491`). That buffer holds the last operation of another
   function or, in the run, where nothing but `download_initialize` came before, what the
   application's memory happened to hold: the code returned is that of those bytes, and the
   server's NOT_FOUND is not.
2. `shared_return_code`: the return code of `get_chunk` is static (`src/src/sdk.c:448`),
   while locks are per context: a chunk that was counted can be reported as failed and the
   reverse.
3. `tag_failure_code`: `-1` of `decrypt_data` leaves the SDK as an `enum
   firmups_sdk_error_code` (`src/src/codec/cose.c:288`).
4. `exact_fit`: a binary value exactly as large as the buffer is refused as too large
   (`src/src/operation/parameter.c:137`).
5. `empty_chunk`: a download buffer whose half equals the overhead is accepted
   (`src/src/sdk.c:419`) with a chunk size of 0: chunks of no bytes, none of them the last.
6. `reply_room`: the chunk size leaves no room for the CBOR items around the data
   (`src/src/sdk.c:416`), so a session can be opened in which no reply to a request for a
   full chunk fits.
7. `callback_userdata`: in the build with crypto callbacks both are given the userdata of
   the random source (`src/src/codec/cose.c:85`, `87`).

## 5. Proofs

For every set of threads and contexts, all calls, parameters, images, faults and both kinds
of transport, from `UINT32Assumption` and `SdkAssumption` (non-empty `Contexts`, calls are
well-formed records, device ids differ from the two key names with a meaning of their own,
server data has its type):

- `SdkProofs!ContextLockExact`: `Spec => []MutualExclusion`. `MutualExclusion` becomes
  inductive once the types of `lock`, `pc` and `call` are added (`LockTypes`; `LockInv` is
  both): its two halves carry each other, since taking a free lock is safe only because a
  free lock means that nobody is inside, and releasing it is right only because nobody else
  was. `InnerStepMoves` shows for each of the 25 actions inside a call that it stays inside
  and leaves the lock and the call alone; `InsideStepKeepsLock` and `OutsideStepKeepsLock`
  conclude for those; entering, refusing, leaving and initialising have a step of their own
  in `LockInvStep`.
- `SdkTypeProofs!TypeCorrect`: `Spec => []TypeOK`. `TypeOK` is split into `LockTypes`, which
  the first proof gives, and `DataTypes`, one group per kind of variable (memory and
  sessions, return codes, locals and outputs, network, application). Lemmas type each
  operator that builds a value: payloads, frames, the parsers, the server's answers. The
  only step whose type is not local is `InitializeStarts`: `chunk_size` is a natural number
  only because `TooSmall` was tested, which is also what keeps the code's `uint16_t` from
  wrapping.
- `SdkDownloadProofs!SessionLockExact`: `Spec => []SessionLock`, with the types as part of
  the invariant. Only `InitializeStarts`, `Finish` and `SdkInitialize` touch the two flags;
  every other step keeps them (`CommitChunk` changes only `offset`).
- `SdkExchangeProofs!NoncesNeverRepeat`: `Spec => []NonceUnique`, and `RequestsAreTheCalls`:
  `Spec => []RequestFaithful`, both from `OneDownloadContext` (all downloads go through one
  context), the second also from `"key" \notin Faults`. Neither property is inductive: what
  is sent was prepared two callbacks earlier. `ExchangeInv` says what lies in the context at
  each control point between encoding and sending (`Prepared`: `HeaderInv`, `DrawnInv`,
  `SealInv`, `SendInv`), that a nonce drawn and not yet sent is in no message and in no
  other context (`FreshInv`), and what has been sent (`SentInv`). `OthersKeepTheirs` is
  where the lock is used: a step of one thread leaves the context of another alone.
  `OneDownloadContext` is needed for `CodeInv` only: with two downloading contexts the
  static `ret_code` of one call can hold the NONE of the other when it tests it, and a
  message goes out that was never sealed (TLC finds `ExchangeInv` violated on the instance
  of `shared_return_code`, and holding on those of `concurrent_calls` and
  `download_complete`).
- `SdkReplyProofs!ChunkReturnsAreHonest`: `Spec => []ChunkReturnHonest`, from
  `OneDownloadContext`, which the run `shared_return_code` shows to be needed.
- `SdkDownloadProofs`: `SessionsAreStable` (`SessionStable`), from `OneDownloadContext`
  alone: an open session advances by a chunk that `get_chunk` hands out and counts once, and
  ends by `finish` or by `firmups_sdk_initialize` while no call uses the context; nothing
  else touches it. `OwnStepStays` takes the steps inside a call, of which only
  `InitializeStarts`, `Finish` and `CommitChunk` write the session, `CommittedFits` says
  that the chunk is no longer than the buffer, and `SessionStays` adds all other steps. With
  `OneDownloader` and `ImagesFit` besides: `ImagesAreIntact` (`ImageIntact`),
  `DownloadRefinesSession` (`DownloadImplementsSession`, the initial states and every step)
  and, with `Matching = TRUE` or `OneBufferSize`, `CompleteImagesAreWhole`
  (`CompleteMeansWhole`).
- `SdkResultProofs`: `UpdatesAreApplied` (`UpdateApplied`: a `set_device_info` that returns
  NONE has had a request of its context opened by the server, under the device's key, that
  put this firmware and status on the device's record; that the server was merely given a
  message is not enough, since one sealed under the zero key is read and not opened),
  `ParametersAreIntact` (`ParameterIntegrity`), `InfosAreCurrent` (`InfoIsCurrent`),
  `ErrorsAreReported` (every call but `get_chunk`, in any application) and
  `ServerErrorsAreReported` (`ServerErrorReported`, in an application without `get_chunk`).

**From the request to the result.** These last three modules rest on one invariant,
`ResultsInv`, which joins `LockInv`, the types, `ExchangeInv` and `ReplyInv`. `ReplyInv`
says

- `CodeInvariant`: while a `get_chunk` relies on `ret_code`, it holds what that call stored
  last, and bytes are handed out exactly with NONE;
- `RepliesAnswer`: each reply on its way is what the server answers to a request it has
  seen. `AnswerCases` and `AnswerByOpcode` list the five forms an answer can have;
- `Following`: what lies in the reply's buffer at each control point from `send_data` to the
  comparison of the echo, and that the output arguments are the fields of an answer to a
  request of this context. `OthersKeepTheirs` carries it over the steps of other threads,
  `NetGrows` over the growth of the network.

On top of it, `DownloadInv` makes `ImageIntact` inductive with `SessionLock`,
`OpenWhileFetching` (a call past its check works for an open session: the context's lock
keeps `finish` away) and `OffsetsFit` (the offset never exceeds the image, so it does not
wrap); `PrefixGrows` is the lemma on sequences, that a prefix and the bytes behind it are
a longer prefix. `DownloadRefinesSession` takes each step of `Next` to a step of
`DownloadSession` or a stutter. `WholeInv` follows the size a chunk was asked for to its
reply; where the reply may be one to an earlier request, `SizesInv` says that this request
asked for as much, since every session was opened with the same buffer (`ImagesInv` joins
the three). `RequestInv` traces a request to the call that made it, so that an update the
server applied is one the application asked for; `InfosInv` adds that the reply in hand
shows a record the server held since the call began, `ErrorsInv` that an error operation
is in the very place where `operation_parse_error_response` will look. `InfosInv`,
`ErrorsInv` and `RequestInv` were checked by TLC on `concurrent_calls` first.

**Hypotheses on the constants**, each named and next to the theorem that uses it:

| hypothesis | says | why |
|---|---|---|
| `OneDownloadContext` | all downloads go through one context | the static `ret_code`, section 4 item 2 |
| `OneDownloader` | the thread that gets chunks of a context is the one that opens its sessions | `*output` is read after the unlock (`src/src/sdk.c:512`): another thread's new session would mix two images |
| `ImagesFit` | firmware ids and image sizes are below 2^32 | `src/include/firmups-device-sdk/sdk.h:60-61`; past it the offset wraps (`src/src/sdk.c:510`) |
| `Matching = TRUE` | `send_data` returns only the reply to its own request | section 3, properties that depend on the transport |
| `UpdatesFit`, `DesiredFit` | firmware and status passed to `set_device_info` are a `uint32_t` and a `uint8_t`, and so is a desired firmware | `src/include/firmups-device-sdk/sdk.h:60-69`; the parser cuts to these widths |
| `OneBufferSize` | all downloads are opened with buffers of one size | section 3, properties that depend on the transport |
| `KeysAreRead` | the key callback does not fail | its return code is ignored, and with a key of zeros nothing opens |
| `NoDownloads` | no call of `get_chunk` | section 4 item 1 |
| `FactoryIsOwn` | the server does not offer the firmware the device is delivered with | `InstalledWhole` excepts firmware that was never downloaded |
| `Factory < UINT32` | the firmware it is delivered with is a `uint32_t` | `UpdatesFit`, of the application's own reports |

The instances of the runs that check these properties satisfy the hypotheses of their
theorems. The application of `UpdateAgent` satisfies the first two and `OneBufferSize` by
the calls it makes (`UpdaterObserves`).

**The application, with resets.** `UpdateProofs` is about `AgentSpec`: any number of resets
between any two steps, late replies, every fault, any images and parameters, from
`AgentAssumption` besides.

- `InstalledImagesAreWhole` (`InstalledWhole`): the device never runs a firmware whose image
  it has not received whole, byte for byte.
- `ContextsAreRestored`: from the return of `firmups_sdk_initialize` to the next reset,
  `MutualExclusion`, `SessionLock` and `ImageIntact` hold, over whatever the reset left in
  memory.
- `ReportsAreApplied` (`UpdateApplied`) and `NoncesSurviveResets` (`NonceUnique`): answers
  of before the reset are not taken for confirmations they are not, and no nonce is used
  twice.

The argument is `AgentInv`. A reset breaks two of the SDK's invariants, and only these: the
lock of an interrupted call stays taken with nobody inside, and the session in memory no
longer counts what the application has written. They are `InUse`, and `StartRestores` proves
that `firmups_sdk_initialize` makes them true again; `Reinitialized` says that they hold
whenever the application is past it. All else that was proved of the SDK (`Lasting`: what
was sent, what the server answered, what lies in a context) is kept by a reset
(`ResetKeeps`): a call that is gone leaves nothing to follow. In between, each step of the
application's thread in a call and of the server is a step of `FirmupsSdk`
(`UpdaterUsesSdk`), and the step lemmas of the earlier modules are cited as they stand.

What is the application's own is in three parts. `PhaseInv`: a call in progress is the one
of the phase, and what is downloaded is what the server wants and is not running yet.
`TargetInv`: every session, also one that survived a reset, is for that firmware, because
`DesiredIsLearned` says that this is what `get_device_info` returns, late replies included.
`FlashInv`: with the last chunk the image is whole (`LastChunkCompletes`), and nothing
writes to it afterwards. TLC checked `AgentInv` on the instance of `update_cycle` first.

The refinement of `DownloadSession` is not claimed across resets: a chunk that was counted
and not yet written is lost with the reset, and the session starts over.

**The codec.** From `CodecAssumption` and `ServerAssumption` (the types of the arguments
and of the headers that arrive, the latter otherwise arbitrary):

- `CodecProofs!AadBothWays`: for every header of 24 to 51 bytes and every content of the
  buffer, the associated data that `cose_encrypt_msg` leaves in place is the one
  `create_aad` encodes. The lemmas give type and length of each piece (prefix, byte string
  head, header, empty string head), then the four writes in place are followed one by one.
  With fewer than 24 bytes the head would take one byte, with the header two bytes behind
  it, and the two would differ.
- `OwnHeaderSize`: the device's own headers have 38 to 44 bytes, the size `CborSizes` counts
  with for the SDK, so that `AadBothWays` holds of them. `OwnHeaderSays` adds that they are
  acceptable and say what `cose_encrypt_msg` was given.
- `DecodesExactly`: for every list of entries, `decode_protected_header` accepts exactly the
  headers the declarative `Acceptable` describes, with the last device id and opcode, and
  with the nonce `WireNonce` describes byte by byte. The map must have five entries, so
  `FiveEntries` unfolds the loop, and no induction over data is needed; `EntryIsRead` is one
  turn of it and `Says` its invariant after j entries (`LoopSays`).
- `SealsCanonically` (`SealedCanonically`, with `SizesFit`: no operation reaches 2^32 bytes
  with its tag), `MessagesOpenExactly` (`OpensExactly`) and `FieldsAreOfThisMessage`
  (`OpenedFields`): for every sequence of calls on one context. The invariant is `CodecInv`.
  What an earlier message left behind can matter in two places only: the buffer, of which
  `BufferWhole` keeps the length and nothing else, since whatever the cipher is given was
  written by the same call (`SealingReadsAad`, `OpeningReadsAad`); and the device's own
  message, which may come back, for which `Sealed` remembers what it was asked to seal.
  TLC checked `CodecInv` on the instance of `codec` first.

**Only model-checked.** Liveness (`CallsReturn`, `UpdateHappens`), which is out of reach of
the prover: every safety and action property of a passing run is proved.

## 6. Plan

Order of work, most important first; all of it done.

1. Core: `SdkTypes`, `CborSizes`, `Operations`, `Backend`, `FirmupsSdk`, `SdkProperties`,
   `DownloadSession`, `MCSdk`.
2. Proofs of lock, types, session lock.
3. `CoseCodec`: the codec from inside, in both builds, and the proof that both ways of
   building the associated data agree.
4. The sizes at which a download cannot work (`ChunkProgress`, `ReplyFits`).
5. `UpdateAgent`: an application over the SDK, resets, liveness of the update.
6. Proofs of `NonceUnique` and `RequestFaithful`.
7. Proofs of what calls return: `ChunkReturnHonest`, `ImageIntact`, `SessionStable`, the
   refinement to `DownloadSession`, `CompleteMeansWhole`, `ParameterIntegrity`,
   `InfoIsCurrent`, `UpdateApplied`, `ServerErrorReported`.
8. Proofs of the codec's state machine: `OpensExactly`, `OpenedFields`, `SealedCanonically`.
9. Proof of `InstalledWhole` for the application with resets, of what a reset leaves and of
   what `firmups_sdk_initialize` restores.

## 7. Running

In this directory: `tlc -config concurrent_calls.cfg MCSdk.tla` (and so on for each `.cfg`,
with the module section 3 names), `tlapm SdkProofs.tla` (and `SdkTypeProofs`,
`SdkExchangeProofs`, `SdkReplyProofs`, `SdkDownloadProofs`, `SdkResultProofs`,
`UpdateProofs`, `CodecProofs`); the longest takes a few minutes.

## 8. Reading order

`DownloadSession` (what is promised), `FirmupsSdk` (how), `SdkProperties` (what is claimed),
`UpdateAgent` (what it is for), then `CoseCodec` with `CodecProperties`, and the proofs.

## 9. Not modelled

- Logging: output only. `src/test/sdk_test.c`: one placeholder test.
- CMake, Zephyr, Nix and CI files; tinycbor, ascon-c and unity (submodules, not in the
  tree).
- tinycbor's bytes: an encoding is a list of items with its size (in `CoseCodec` also with
  the identity of each byte). Where the code does not test the type of an item before it
  reads it (`src/src/operation/firmware.c:87`), the argument of the item's head is read, as
  without assertions; with them tinycbor stops the program.
- The cipher: ascon AEAD is ideal. Key storage: `get_key` yields the device's key or fails.
- Bytes written for CBOR lengths of 2^32 and above, which the library never passes.
- A null context, and re-initialising a context in use: misuse by the application that the
  code cannot see.
