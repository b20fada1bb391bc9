# A formal model of httpxx

httpxx is a small C++ library for HTTP messages.  It does no I/O: its user hands the
bytes received from a peer to a *parser* and sends the bytes a *composer* writes.  This
directory holds a TLA+ model of the library, the TLC runs that check it on small
instances, and proofs, checked by TLAPS, of the properties that hold for every instance.

Paths below are relative to the root of the repository (`src/...`, `include/httpxx/...`).

    tlasany M.tla                               parse a module
    tlc -workers 2 -config header_section.cfg MCMessageParser
    tlapm MessageParserProofs.tla               check the proofs of a module

## 1. Inventory

### MessageParser (`src/message_parser.cpp`, `include/httpxx/message_parser.h`)

*State.*  One of 27 parsing states; position, line and column; three start-line tokens;
the name and value of the header field being parsed; the headers filed so far; the
declared content length and the body bytes counted against it; the digits of a chunk
size, the size, and the chunk bytes counted against it; six limits, three of which have
setters.

*Operations.*  `parse(char, isBodyChar*)` takes one character, and either returns
whether it completed a message, or throws an `Exception` with a code and a position.
`parse(buf, len, os)` loops over a buffer until a message completes or a call throws.
`reset()` and the setters may be called at any time; accessors read the last message.

*Hard behaviours.*
- One object parses many messages, mostly without `reset()`: the first character of a
  message clears what the last one left.
- A message arrives in pieces that end anywhere, so each transition has to keep in the
  object all that the next one needs.
- A call may throw in the middle of a step.  Nothing documents what state it leaves.
- Four sources decide where a message ends (chunked, a declared length, an unreadable
  length, none), and headers may be repeated, written in another case, or added by a
  trailer after the body.
- Sizes arrive as text and are accumulated in an `unsigned int`; positions are `size_t`
  and reported as `int`.
- Limits are compared with lengths in several places, before or after an append, and may
  be lowered in the middle of a message.

*Correct when* a body ends exactly where the readable headers say; no counter passes its
limit; a throw has no effect; a field's text never leaks into another field; the first
value filed under a name is the one found until the message ends; lengths stay within
limits; positions tell where the character is; the reported body characters are the
counted ones.

### Headers (`include/httpxx/headers.h`, `src/common.cpp`)

*State.*  A `std::multimap` from names to values in the order of a case-insensitive
comparator.  *Operations.*  `add`, `have`, `haveValue`, `value`, `erase`,
`composedSize`.  *Hard*: duplicates, equivalent names written differently.  *Correct
when* the comparator orders the names consistently, a lookup finds the first entry of a
name, and an insertion moves nothing that is there.

### String utilities and character classes (`src/string_utils.*`, `src/char_utils.*`)

Pure functions: `trim`, `toUnsignedInt`, percent encoding; predicates on characters.
*Hard*: the overflow test of `toUnsignedInt`, its optional `+`, empty input.

### MessageComposer (`src/message_composer.cpp`, `include/httpxx/message_composer.h`)

*State.*  The three tokens; the state that matters is the caller's: a stream with its
formatting flags, or a buffer with a payload in it, and the order of the calls of a
chunked transmission.  *Operations.*  An identity envelope, and the envelopes of a first, a
next and the last chunk, each into a stream, into a buffer, and (but for the last) in
front of a payload already in a buffer; `reset`.  *Hard*: the caller's own framing headers
must be replaced; an empty chunk would end the message and throws; `std::hex` stays set
on the caller's stream; the place of an envelope before a payload is pointer arithmetic;
a buffer that is too small must stay as it was.  *Correct when* a parser reads back what
was composed, a call does not depend on the calls before it, only the envelope is written,
and a call that throws writes nothing.

### Params and Uri (`src/params.cpp`, `src/uri.cpp`, and their headers)

*State.*  A `Uri` is the encoded path, the decoded path and the query of a target; `Params`
is a multimap from names to values, read from a query and added to.  *Operations.*  The
constructors, `compose`, `composedSize`, `add`, `have`, `value`.  *Hard*: delimiters and
escapes inside names and values, escapes that are cut off, names without a value and
values without a name, repeated names.  *Correct when* what is composed is read back in
order, fits the place in a start line it is meant for, and has the size that was
announced.

### The example server (`examples/httpd_file_browser.cpp`)

*State.*  An acceptor; one `HttpTask` per connection with a socket, a buffer, a parser and
a packet, kept alive by the operation it has under way.  *Operations.*  The handlers
`accept_handler`, `on_receive` and `on_send`, run one at a time by one event loop when an
asynchronous operation completes or fails.  *Hard*: partial receives and partial sends;
the request and the response share the buffer; any operation may fail at any time.
*Correct when* a client gets its response whole, in order and once, and every task ends.

### Interaction

```
 caller --tokens, headers, payload--> MessageComposer --bytes--> wire --buffers--> MessageParser
              Headers::erase, add  <------'                                            |
                                                        Headers::add, have, value  <---'
                                                        toUnsignedInt, trim        <---'
```

Everything is a synchronous call but the wire.  The library has no threads, timers,
callbacks or persistent state, so there is no crash recovery and no timeout to model; the
only concurrency is that of the two ends of a connection, and of the example's
asynchronous handlers, which a single thread runs.  The hazards of the code, each at its line, are listed in
`PROJECT.json` with the properties that watch them.

## 2. Modules

| module | models | by |
|---|---|---|
| `CharUtils` | `src/char_utils.h`, `char_utils.cpp`, `tolower` | operators |
| `StringUtils` | `trim`, `toUnsignedInt`, the order of `std::string` | operators; `toUnsignedInt` is a recursive function of the digits read, that wraps at `UIntSize` |
| `PercentEncoding` | `encodePercent`, `decodePercent` | operators |
| `Headers` | the multimap and the comparator | the sequence of entries in iteration order |
| `MessageParser` | the class, whole: all 27 cases, `reset`, the setters | one action per case |
| `MCMessageParser` | | choices of the characters that may arrive |
| `MessageText` | | a reference: how the whole text of a message is read |
| `ParserHistory` | a user who keeps the body and goes on after exceptions | `MessageParser!Parse` with the text as history variable |
| `MCParserHistory` | | start lines and fields; bodies |
| `Envelope` | what each composer method writes | operators from arguments to bytes |
| `Buffers` | `std::string::copy` into a buffer, `Packet` | operators |
| `MessageComposer` | the class, with a stream and a buffer of its caller | one action per method |
| `MCMessageComposer` | | short headers and tokens |
| `Exchange` | composer, connection, `parse(buf, len, os)` | actions around `MessageParser!Parse` |
| `MessageChannel` | what composer and parser promise together | the abstract specification |
| `MCExchange` | | four messages chosen to be confusing |
| `ChunkedScenario`, `MCChunkedScenario` | the program in the documentation of the composer | a loop of two actions |
| `Uri`, `Params`, `MCParams` | the classes | operators, and `add` as an action |
| `HttpServer`, `MCHttpServer` | the example server | one action per handler, with its outcomes |
| `StringUtilsProofs` | | lemmas: induction, recursive functions, `trim`, `toUnsignedInt`, the order of strings, insertion |
| `MessageParserProofs` | | theorems about the parser: types, buffers, counters, positions; headers, framing, limits, rejected sizes |
| `MessageTextProofs` | | lemmas: the comparator is a strict weak order, what `add` and `erase` leave where it is; numbers as text; what one more character does to the reading of a text |
| `ParserHistoryProofs` | | theorems about the text the parser has taken |
| `MessageComposerProofs` | | theorems about the composer |
| `ExchangeProofs` | | theorems about composer and parser over a connection |
| `ParamsProofs` | | theorems about percent encoding, `Uri` and `Params` |
| `HttpServerProofs` | | theorems about the server |

**The parser.**  Each field of the class is a variable of its name without the
underscore (`_state` is `state`, `_pos` is `pos`), and each `case` of the switch in
`parse(char)` is an action: `ParsingFirstToken` is `ParseFirstToken(ch)`.  The helpers
`parseHeader`, `parseHeaderName`, `parseHeaderValue`, `parseHeaderValueLF`,
`parseHeaderValueLWS` and `appendHeader` keep their names and, as in the code, are
shared by header and trailer.  A branch of a case is a disjunct, whose guard is the
conjunction of the conditions the code has tested before it.  The variable `result` is
what the last `parse(char)` answered: nothing, a return value with `*isBodyChar`, or the
fields of the `Exception`.  `Accept` is the common tail of the function: the new state,
`++_pos`, line and column.  `Raise` is a `throw`, which leaves that tail out; `Throw` is
a `Raise` in a place where nothing else has been assigned.  What *was* assigned before a
throw (`parseHeader()` clears the field first) is in the action.

**Data.**  A `std::string` is a sequence of byte values.  In the TLC instances
`Transfer-Encoding`, `Content-Length` and `chunked` are the one-character strings `T`, `L`
and `c`: the parser only compares them, case-insensitively for names and exactly for the
value, and the instances offer both cases of names.  The sizes of `unsigned int`, `int`
and `size_t` are constants.  `pos`, `line` and `col` are unbounded naturals in the model;
what an `Exception` reports of them is narrowed as the code narrows it (`ToInt`).
`Exception::InvalidState` has no counterpart, because the switch has a case for each
state.

**The exchange.**  `Compose` picks a message and computes what the composer's methods
write for it, piece by piece; a chunk the composer rejects is skipped, as a caller would
that handles the exception.  `Write` puts the next piece on the wire.  `Receive(n)`
takes `n` bytes of the wire, however they fall; `ParseNext` is one round of the loop in
`parse(buf, len, os)`; `Take` is the caller that reads a completed message and goes on
with the rest of the buffer.  The refinement mapping is in `Channel`: `sent` is what has
been written to its last byte, `received` what has been taken, both seen as
`View`/`Taken` see a message: tokens, headers in iteration order, body, and size.
A composer writes what it is given: which messages a parser can read is up to the sender, and is
what `ProperMessage` says.  Tokens and names are of the characters the parser takes for them, a
value breaks its line only in front of a blank, nothing is longer than the limits of the parser, and
a message that is sent in chunks has one that is not empty.  Everything else is left open: framing
headers of the sender's own, in the headers or in the trailer, names that differ in case only,
blanks around values, payloads of any bytes, empty chunks among others.  `View` is what the receiver
of such a message should see: its values on one line and trimmed, the framing headers
replaced, the trailer filed among the headers.

**The text of a message.**  `ParserHistory` adds to the parser the characters it has taken
since the message began, and the body a user has collected.  `MessageText!Reading` reads
such a text at once, by cuts at delimiters and without any state: words of the start
line up to the first CR, fields from lines, joined where a line begins with a blank, then a
part of the text of the declared length, or chunk after chunk and the fields of the
trailer.  It shares with the parser only what is said of data (`trim`, `toUnsignedInt`,
`add`).  A character that the parser refuses does not enter the text, so that the property
also says what a caller gets that goes on after an exception.

**The composer.**  `Envelope` is what the methods write into a stream in its initial
state, as functions.  `MessageComposer` is the class in use: a stream is its text and the
flags that formatting depends on (`base`, `showbase`).  Each method (`WithFirstChunk` and its
siblings) is the sequence of its checks, manipulators and insertions in the order of the code, and
`thrown` cuts that sequence off behind a check that fails, so that what was inserted before it
would stay in the caller's stream.  The buffer and prepend forms compose into a stream of their
own, compare its size with the room, and copy.  The history variable `promised` is the
envelopes of the calls into the stream that returned, as the functions of `Envelope` give them, with
a `0x` before a chunk size for a caller that has asked for one with `showbase`.  Its properties
say that the class implements these functions, of which `Exchange` shows what a parser makes.

**The server.**  Each task has the set of operations it has started; a handler takes its
operation out of it and may put the next one in.  A task whose set is empty is destroyed.
Receives and sends complete with any number of bytes, in any order among tasks.  The
parser is reduced to what it answers on a buffer, the response to its sizes and
numbered bytes, so that the model can tell every byte of the buffer where it came from.

## 3. Runs

Bounds are in the configurations.  `Offered` says which characters may arrive in which
state: in the part of a message a run is about, a member of each class the code tells
apart; elsewhere the shortest way through.  `MaxPos` bounds the length of a message, not
of a behaviour: any number of messages, throws and resets follow one another.

| run | states | shows |
|---|---|---|
| `header_section` | 244 thousand | Header sections with folding, duplicates in two cases, each kind of failing call, and limits that move: `TypeOK`, `FieldBuffersInUse`, `ThrowLeavesParserUnchanged`, `FirstValueStays`, `LimitsInForce`. |
| `fields` | 300 thousand | Start lines and fields with all classes of characters, accepted or refused, and limits 2, 0 and 2: `CompletedMessageIsItsText`, `ContentBounded`, `PositionConsistent`. |
| `bodies` | 740 thousand | One message after another with a length, two lengths, an unreadable one, none, or chunked with extensions, sizes that overflow, and trailers that name the framing headers: `CompletedMessageIsItsText`, `PositionIsPlaceInText`, `BodyCountersExact`, `CompletedFraming`, `BodyCharsAreCounted`, `PoisonedUntilReset`. |
| `exchange` | 21 thousand | `NothingThrown`, `BodyIsPayloadPrefix`, and `ImplementsChannel`: safety and liveness of the channel. |
| `composer` | 95 thousand | Two calls of any methods on one stream and one buffer, each of which may throw: `StreamHoldsTheEnvelopes`, `PacketIsMessage`, `OnlyTheEnvelopeIsWritten`, `LastChunkFits`. |
| `params` | 190 thousand | All targets of four characters and all queries of four, each with up to two params: `ParamsReadBack`, `QueryFitsATarget`, `UriReadsBack`, `ComposedSizesExact`, `QueryOrderIsKept`. |
| `server` | 17 thousand | Two clients: `PacketIsTheRest`, `AnsweredInFull`, and the liveness property `EveryRequestEnds`. |

*Why the bounds are enough.*  The parser compares its data with constants only: a length
with a limit, a counter with a size, a character with a class.  Limits of 0, 1 and 2
reach below, at and past each limit.  `MaxPos` leaves room for the shortest message
(9 characters in the instances) and two header fields, or two chunks of two bytes, or one
and a trailer field.  `UIntSize = 32` (16 in `doc_overflow`) lets two decimal or two
hexadecimal digits overflow, both by a wrap that the code detects and by one it does not;
`MaxSizeDigits = 3` is past that.  In `header_section` the limits of names and of headers have two
values each, so that each may be lowered below what is there and raised again at any character.
In `exchange`, buffers of up to 3 bytes split every delimiter and join the end of one
message and the start of the next; two messages of four kinds are enough for one
to disturb the next; `NothingOffered` takes the free input of the parser away, since here its
input is what the wire carries.

In `composer`, the rooms 4, 5, 24 and 25 are the sizes of a next chunk's envelope and of a
last chunk with headers, and one less, with others in between; a payload of 12 bytes is
written `12` or `c`; the stream starts in decimal or in hex, with `showbase` or without, and a second
call finds what the first one left, also one that threw for an empty chunk.  In `params`, four characters are enough for an escape cut off at either
digit, a name between two delimiters, and a repeated name.  In `server`, a buffer of four
bytes has room for envelopes of up to two and bodies of up to two; responses of one and
three, and of none, two and three, lie on either side; two clients are enough for one to
wait for, or to disturb, another.

Between them the three parser runs reach every state, and in every state each answer of the
code: a character accepted and each code thrown, in the header or in the trailer, which
share their operators.

*Deadlock* is checked in the parser runs, where `Reset` is always possible.  It is not in
`exchange` and `server`, where the system rightly stops once everything has been sent and
answered, nor in `composer` and `params`, where the number of calls is bounded.

*Fairness.*  `exchange` assumes weak fairness of `Receive`, `ParseNext` and `Take`, each on
its own.  The connection delivers what was written (TCP), and the
receiver is a loop that has nothing else to do.  Nothing is assumed of the sender, who
may stop in the middle of a message; accordingly the channel promises delivery only of
messages that have been written to the last byte.  `server` assumes weak fairness of
`Accept`, `OnReceive` and `OnSend` of every client: the event loop runs the handler of every
operation that has completed, a receive completes once bytes have come, a send once
the network takes some.  Nothing is assumed of clients, which may stop in mid-request, and
no operation has to fail.

### Disagreements found

Each of these is a run whose single property is a sentence of the repository, which TLC
refutes; the property's comment quotes it.

| run | disagreement |
|---|---|
| `doc_scenario` | The loop given for chunked transmission (`message_composer.h:22`) composes an empty chunk at the end of its input, for which the composer throws: the last chunk is never sent (`message_composer.cpp:140`). |
| `doc_completed` | `isCompleted()` is `TRUE` for a parser that has parsed nothing (`message_parser.h:285`). |
| `doc_error_position` | An error at the first character of a message is reported where the last message ended: the throw comes before the `reset()` (`message_parser.cpp:85`). |
| `doc_int_position` | A position past the largest `int` is reported negative; the widths are scaled down. |
| `doc_overflow` | `newResult < result` misses overflows that wrap past the previous sum: with 32 bits, `10000000000` is read as 1410065408 (`string_utils.cpp:92`), and a chunk size `123456789` as hexadecimal `23456789` (`string_utils.cpp:78`).  TLC stops at the first, a length; without that conjunct it finds the second. |

## 4. Proofs

Each theorem below holds for every value of the constants that the assumptions admit: all limits and
widths, any characters offered, any strings for `TransferEncoding`, `ContentLength` and
`Chunked`, any number of clients, any sizes, and texts of any length.

| module | theorem | states |
|---|---|---|
| `MessageParserProofs` | `TypeCorrect` | `TypeOK` |
| | `FieldBuffersCorrect` | `FieldBuffersInUse` |
| | `ThrowHasNoEffect` | `ThrowLeavesParserUnchanged` |
| | `BodyCountersCorrect` | `BodyCountersExact` |
| | `PositionCorrect` | `PositionConsistent` |
| | `BodyCharsCorrect` | `BodyCharsAreCounted` |
| | `FirstValueCorrect` | `FirstValueStays` |
| | `FramingCorrect` | `CompletedFraming` |
| | `ContentBoundedCorrect` | `ContentBounded` |
| | `LimitsCorrect` | `LimitsInForce` |
| | `PoisonedCorrect` | `PoisonedUntilReset` |
| `ParserHistoryProofs` | `HistoryImplementsParser` | `HistorySpec => Spec`: a parser with its history is a `MessageParser` |
| | `PlaceCorrect` | `PositionIsPlaceInText` |
| | `TextCorrect` | `CompletedMessageIsItsText` |
| `MessageTextProofs` | `LengthsReadBack` | `toUnsignedInt` reads what the composer writes of a length, in both bases |
| `ExchangeProofs` | `NothingThrownCorrect` | `NothingThrown` |
| | `BodyPrefixCorrect` | `BodyIsPayloadPrefix` |
| | `ChannelSafety` | `ExchangeSpec => Channel!Safety`: the safety of `ImplementsChannel` |
| `MessageComposerProofs` | `StreamCorrect` | `StreamHoldsTheEnvelopes` |
| | `PacketIsMessageCorrect` | `PacketIsMessage` |
| | `WritesCorrect` | `OnlyTheEnvelopeIsWritten` |
| | `LastChunkCorrect` | `LastChunkFits` |
| `ParamsProofs` | `PercentReadsBack` | `decodePercent(encodePercent(str)) = str` |
| | `ReadBackCorrect` | `ParamsReadBack` |
| | `UriReadBackCorrect` | `UriReadsBack` |
| | `QueryFitsCorrect` | `QueryFitsATarget` |
| | `SizesCorrect` | `ComposedSizesExact` |
| | `QueryOrderCorrect` | `QueryOrderIsKept` |
| `HttpServerProofs` | `PacketCorrect` | `PacketIsTheRest` |
| | `AnsweredCorrect` | `AnsweredInFull` |

*Assumptions.*  `ParserAssumption`: `int` has an even positive number of values,
`size_t` at least as many as `unsigned int`, limits are naturals.
`UIntSizeAssumption`, `HeadersAssumption`.  `ComposerAssumption` and `ParamsAssumption`: what a
caller passes is strings, headers and lengths, and buffers have a size.  `ServerAssumption`: the body
part of the buffer starts within it, and a client that connects sends at least a byte, by
which the model tells it from one that has not connected.  `ExchangeAssumption`: the messages
that may be sent are proper (`ProperMessage`), `chunked` has no blanks around it, and the names of
the two framing headers are not equivalent.  TLC evaluates each of them in the
runs of its component.

### Induction over data

What a recursive function computes for every input is proved here by induction on the set of
the numbers for which it is right (`NatSetInduction`, from the definition of the naturals as the
library gives it); only the library's theorems that take an operator as a parameter cannot be used.
A function that TLA+ defines by `f[n] == ... f[n - 1] ...` is a `CHOOSE`: `Iteration` builds
one that takes the steps of the definition, and `IterationIsUnique` shows that the chosen one
agrees with it.  After that a proof speaks of `f[0]` and of how `f[n]` follows from `f[n - 1]`.
The recursions of `decodePercent` and `Pieces` jump ahead by what they have read; `JumpsExist`
and `JumpsType` do for them what `Iteration` does for the others, downwards from the end.

### The parser

`TypeOK` is inductive.  Its proof follows the structure of the model:
one lemma per building block (`AcceptControl`, `ExtendValueType`, ...), one per section
of the switch, and `ParseType` puts these together.  The step that is not routine is
`TypeOK` of the headers after `appendHeader()`, which rests on `TrimType` and
`AddProperties`.

`FieldBuffersInUse` and `BodyCountersExact` are each inductive together with `TypeOK`.
They were written to be: `BodyCountersExact` speaks of every state in which a counter
could matter to a later one, which is what makes "the body never runs over" inductive.
`IncrementBelow` shows that `++n` of a `size_t` that is below an `unsigned int` does not wrap.

`ThrowLeavesParserUnchanged` is a property of steps, and follows from
`FieldBuffersInUse`: the one place that assigns before it throws is `parseHeader()`,
which clears two buffers; it is entered only in states that are not in `FieldState`,
where these are empty already.

`PositionConsistent` is inductive together with `TypeOK`.  `SuitsLineParse` says of every case
but the first which character takes the parser to which kind of state, and
`PositionAdvance` that such a step keeps the position right.  `PositionIsPlaceInText` needs
the same of the history: `PlaceInv` relates position, line and column to the text taken, not
to the state, and `PlaceOfNext` says what one more character does to the place.

`BodyCharsAreCounted` follows from `BodyCountersExact`: a counter that is below its size does
not wrap, and `bodyExpected` is true in just the two states whose case counts.

`FirstValueStays` needs the multimap.  `MessageTextProofs` shows that the comparator is a
strict weak order on all strings (`BeforeTotal`, `BeforeTransitive` by the first place where two
texts differ), hence that the entries stay sorted (`HeadersInOrder` is the inductive
invariant), hence that `add()` puts an entry behind all that are equivalent to it, and
`value()` finds what it found.

`CompletedFraming` is not inductive.  `FramingInv` adds `BodyCountersExact`, that a body of a
declared length has a length above 0 (`HasLength`), and that a trailer follows the chunk of
size 0: a completed message got there by one of four ways, and each leaves the headers
saying so.  That a trailer may itself name the framing headers is what makes this more than
a case split: `ChunkedStays` shows that "chunked" is found after anything has been added, and
the header fields of an identity body are the ones its length was read from.

`ContentBounded` is not inductive either.  The first character of a token is taken without a
look at its limit, the others only below it (`Grows`), so `BoundedInv` adds that a token which
has not been begun is empty (`TokensRead`): what a message before left would otherwise be
extended past the limit.  A trailer is held against limits of its own, and every field that is filed
lay within the limits of where it was read.  It bounds by the largest limit, since a limit may be
lowered below what is there already; `LimitsInForce` is the other half, of steps: `FieldGrows`
and `HeadersParse` say that a buffer is extended, and a field filed, only below the limit that holds
when the character arrives.

`PoisonedUntilReset` is about a size whose digits do not make a number, and that more digits
cannot repair: `NotANumberStays`, by induction over the digits.  It needs `SizeIsHex`: the
digits collected are hexadecimal, so what `toUnsignedInt` rejects is their overflow.

### The parser and the whole text

`CompletedMessageIsItsText` compares a parser that sees one character at a time with
`MessageText!Reading`, which cuts a finished text.  It says nothing of a message that is under way, so
the invariant `TextInv` has to: `ReadSoFar` gives, for each group of states, how much of the
reading has been done in the text so far, and what the fields of the class hold of it.

- In the start line (`InStartLine`), the places where words and blanks begin, as far as the state has
  come (`LinePhase`); a token is what lies between two of them, or from the last of them to the end.
- In the header section (`InHeader`), a finished start line; the fields that have ended are filed, and
  the two buffers hold what has been read of the one that has not (`SectionRead`).
- In a body of a declared length (`InIdentityBody`), a finished header section, a length that
  is the one the headers declare, and a body that is the text behind them.
- In chunks (`InChunks`), the chunks that have ended, and one that is being read.
- In a trailer (`InTrailer`), the chunks up to the one of size 0, and a section as above that adds
  to the headers.

`FieldBuffersInUse` and `BodyCountersExact` are needed beside it: the first, because a field
that begins must find its buffers empty, the second because a counter that wrapped would take more of
the text than the size says.

`MessageTextProofs` knows nothing of the parser.  What a delimiter has cut off is not changed by the
characters that follow (`FirstStays`, `LineStays`, `FieldStays`, `ChunksStay`); the piece that is open
grows by the character that is added (`PartGrows`, `JoinedAppend`, `ValueGoesOn`).
`Filed`, `Joined` and `Chunks` are recursive functions of the text, whose values are fixed by
induction (`FiledIs`, `JoinedIs`, `ChunksAre`) as described above.  Where a line
begins with a blank is the subtle part: whether a field has ended is known only at the first
character of the next line, and so is what the break between them adds to the value.
`ParserHistoryProofs` has one lemma for each case or group of cases of the switch (`StartLineReads`,
`SectionReads`, `ChunkReads`, ...); a call that throws leaves text and parser as they were
(`ReadStays`, and `ThrowParse` as above), whence the theorem holds of a caller that goes on after any
number of exceptions.

### The composer

`ComposerType` is the inductive invariant: what the stream, the buffer and the last call hold.
`StreamHoldsTheEnvelopes` is an invariant over the whole history of the stream.  `ComposedAdds` says that
a method adds, to a stream in any state, either the text of `EnvelopeIn` or, if it throws, nothing:
each method sets the base that it depends on before it inserts a number, and looks for an
empty chunk before it inserts anything.
`OwnEnvelope` says the same of the stream that the buffer forms make for themselves; `CopiedBytes` and
`PacketJoins` are about the arithmetic of the copy: an envelope of *n* bytes that ends where the
payload begins.  `LastChunkFits` rests on `ComposeHeaderLength`, an induction over the fields of
a trailer.  `LengthsReadBack` joins composer and parser: `NumberTextStep` says that the text of
a number is that of its quotient and one digit more, `NumberOfAppend` that a digit more is read
as a multiplication and an addition, and a number below `UIntSize` overflows nowhere
on the way.

### Composer and parser over a connection

`TextCorrect` says what the parser has read if it does not throw.  That it does not throw on what a
composer writes, and reads what the sender meant, is another proof: it goes along the text that is
still to come, not along the one that has been taken.

`ExchangeInv` is the inductive invariant.  It takes the sequence `S` of the messages composed so
far, which is no variable of the model, as a witness.  *The bytes that are not parsed yet*
(`Unparsed`: the rest of the buffer, the wire, the pieces not written) are either the texts of the
messages of `S` that have not been taken (`Idle`), or the rest `r` of one text and the texts behind it
(`MidMessage`).  With this, `Write` and `Receive` move bytes and change nothing, however
they cut; `Compose` adds a text at the end; and only `ParseNext` needs to know what a
message looks like.  `InMessage(m, r)` tells it: the parser is in a state that suits `r`.

- In the start line and in the fields, `r` is the rest of a token, a name or a value, and what
  follows it; what has been taken of it is in its buffer, and is within its limit.
- Of the headers, those read so far are in the container: `Filling` of the fields read.
- Behind the header section, the headers say how the body is framed: `FramedByLength` and
  `FramedByChunks` show that whatever framing headers the sender had given have been erased, whatever
  their case, and that the length is read back (`LengthsReadBack`).
- In a body, what has been collected and what is still to come are the payload, and the counter is
  the length of what has been collected; in chunks the same, of one chunk and of those before it.
- In the trailer, the headers and the fields of the trailer read so far.

Each case of the switch has a lemma which shows that the next character of `r` takes the parser
to a state that suits the rest, and does not throw (`MessageStep`); `MessageDone` is
reached at the last byte of `r`, neither before nor after.  From `ExchangeInv` the three theorems
follow: nothing is thrown; a body is a prefix of its payload, `InMessagePrefix`; and the message taken
is `View` of the next one sent, `TakenIsNext`, so that every step of `Exchange` is a step of the
channel or none.

What the receiver finds in the container is stated without a look at the parser: fields that
come in the order of the container are filed in that order (`FilledInOrder`), values lose their line
breaks and the blanks around them.

### Params and Uri

`ParamsInv` is the inductive invariant: the `Uri` is one that the constructor makes, the
container is sorted, and the values of *every* name, whether it is there or not, begin with
those of the query, in its order (`QueryOrderIsKept` alone speaks of the names that are there,
and would not survive the first `Add` of a new one).

`PercentReadsBack` follows `decodePercent` through an encoded text: where the piece for one
character begins, it reads that character and jumps to the next piece (`DecodesEncoded`,
`FlattenPlaces`).  `ParamsReadBack` is an induction over the entries of the container.
`EntryTextProperties` says that the text of one entry holds no ampersand, is not empty, and
reads back as the entry; `PiecesLonger`, that an ampersand and such a text more are one piece
more; `ParseLonger`, that a piece more is an `add()` more; and `AddAtEnd`, that an `add()` of
entries in order is an append.  That the container is in order is therefore needed for
what is read back to have the same order, not just the same values.  `AddForName` says what `add()`
does to `equal_range()`, from which `QueryOrderIsKept` follows for the whole query.

### The server

`PacketIsTheRest` is inductive with `ServerInv`, which adds that a task has one operation
under way at most (so it does not receive into the buffer it sends from), that a
client has got nothing before its task sends, and that the packet lies in the buffer.
`ComposedPacket` shows that the two copies leave envelope and body without a gap,
`SentPart` that a partial send moves bytes from the packet to the client.
`AnsweredInFull` needs `AnswerInv` on top of that: what a client has still to send is what its task has
not read (`Unread`, `UnreadGoesOn`: whatever pieces it arrives in), a task that answers has
read a complete request, what a client has got is a prefix of its response, and an
outcome is set only where a task ends.

### Only model-checked

- Liveness: `EveryRequestEnds` of the server, and that a message that has been written is in the end
  delivered, which `ImplementsChannel` says beyond `ChannelSafety`.  TLAPS does not handle fairness.

Every other property of the runs that pass is one of the theorems above.

## 5. Not modelled

- `parse(buf, len, Payload*)`: declared in `message_parser.h`, implemented nowhere.
- `envelopeSize()` and its three siblings in `message_composer.h`, two constructors of `Uri`
  and its `compose()` into a buffer: declared, implemented nowhere.
- `isAllowedInVersion`, `isAllowedInUri`, `isAlpha` and its two halves in `char_utils.h`, which no
  code calls; the lookup of a pair in `Params`, which is that of `Headers`.
- The directory listing of the example, but for its size, and the name of the target
  it lists.
- Copying of parsers and composers, accessors that return a field, message texts of
  exceptions and `std::bad_alloc`: no behaviour a property speaks of.
- Tests and build files: read as a reference, no behaviour of their own.

## 6. Plan

In this order, the most important behaviour first.  All of it is done.

1. `CharUtils`, `StringUtils`, `Headers`, `MessageParser`: the parser, its runs, the
   disagreements, and the theorems above.
2. `Envelope`, `MessageChannel`, `Exchange`: composer and parser over a connection, as a
   refinement of a channel.
3. `MessageComposer`, `ChunkedScenario`: the composer with its caller's stream and buffer,
   and the documented transmission.
4. `HttpServer`: the example server with partial receives and sends in one buffer.
5. `MessageText`, `ParserHistory`: a parser that is reused, and resumed after exceptions,
   against a reading of whole texts.
6. `PercentEncoding`, `Uri`, `Params`: against each other, over all short targets.
7. Proofs of every property the runs check, but for those under "Only model-checked".
8. The proof that composer and parser implement the safety of a channel.
