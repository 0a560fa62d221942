# A TLA+ verification of pg-cpp-utils

`pg-cpp-utils` is a PostgreSQL extension in C++: seven SQL functions, each a thin wrapper
that unpacks its arguments and hands three lambdas (make the utility, run it, delete it) to
one driver, `pg_cpp_utils_utils_common`. The code is sequential, one backend process and no
thread, but control leaves it in ways that are hard to test: by return and re-entry (the
set-returning-function protocol calls the same C function once per row and once more for the
end), by C++ exceptions, and by PostgreSQL's `ereport(ERROR)`, a `longjmp` that runs no
destructor. Most of what can go wrong is who releases what on which of those ways out.

The larger part of the code by far is JsonCpp, vendored in `src/jsoncpp` and compiled into the
extension, which uses one of its writers. Its readers, values, paths and writers are modelled too:
one recursive descent with flags, pointers kept across calls and hand-made memory management.

Paths below are relative to the repository root (`src/pg-cpp-utils.cc`,
`src/pg/cpp/utils/...`, `src/jsoncpp/...`); line numbers are those of the commit modelled.

## 1. Inventory

| Component | Code | State it keeps | Operations | Used by |
|---|---|---|---|---|
| Driver | `pg-cpp-utils.cc` 89-200 | the `FuncCallContext` in `fn_extra` (`call_cntr`, `max_calls`, `user_fctx`, `attinmeta`), `CurrentMemoryContext` | first call (try block, two handlers), every call, last call | the executor |
| Utility, Records | `utility.h`, `utility.cc` | `icu_error_code_`, `error_`, `string_`; `Records::items_` | `AllocUserFuncContext`, `FillOutputAtUserFuncContext`, `Append`, `GetPStringValues`, `Release`, `DeallocUserFuncContext` | driver |
| Entry points | `pg-cpp-utils.cc` 207-715 | none | tests of arguments, conversion to `std::string`, ICU's `u_init` and `u_cleanup` | PostgreSQL |
| InvoiceHash | `invoice_hash.*` | `long_`, `short_`, `tmp_ss_`; during a call an `EVP_PKEY`, an RSA key, a `FILE`, a digest context, a buffer, a `B64` | `Calculate` | `invoice_hash` |
| B64 | `b64.*` | `encode_buffer_`, a pointer that moves while it is written through | `Encode`, the destructor | InvoiceHash |
| PublicLink | `public_link.*` | `key_`, `iv_`, `url_`, `tmp_ss_`; during a call three buffers and a cipher context | `Calculate` | `public_link` |
| NumberSpellout | `number_spellout.*` | ICU's rule-based formatter, `icu_error_code_`, `error_`, `string_` | `Spellout`, `CurrencySpellout` | two SQL functions |
| MessageFormatter, NumberFormatter | `message_formatter.*`, `number_formatter.*` | ICU formatter and arguments, `icu_error_code_` | `Format` | `format_message`, `format_number` |
| Version | `version.*` | none | the record of constants | `version` |
| Exception | `exception.h` | the text | a retry loop on `vsnprintf` | everything |
| JsonCpp: readers | `jsoncpp.cpp` 228-2112 | the position in the text, `nodes_`, `errors_`, `lastValue_`, `lastValueEnd_`, `commentsBefore_` | `parse`, `pushError`; `readValue`, `readObject`, `readArray`, `recoverFromError`, the decoding of names, strings and numbers | programs |
| JsonCpp: Value | `jsoncpp.cpp` 2450-3890, `json.h` | a tree of values with their own strings, names and comments; source offsets | assignment, `operator[]`, `append`, `resize`, `removeMember`, `removeIndex`, `clear`, `swap`, order, tests, conversions | readers, writers, PublicLink |
| JsonCpp: Path | `jsoncpp.cpp` 3942-4095 | the list of arguments | the constructor, `resolve`, `make` | programs |
| JsonCpp: writers | `jsoncpp.cpp` 4283-5225 | `document_`, `indentString_`, `childValues_`, `indented_`, `addChildValues_` | `write` of four classes | PublicLink (`FastWriter`) |
| JsonCpp: builders | `jsoncpp.cpp` 2116-2230, 5231-5330 | `settings_` | `setDefaults`, `strictMode`, `validate`, `newCharReader`, `newStreamWriter` | programs |

How they interact. PostgreSQL calls an entry point, which calls the driver. On the first call
the driver switches to the memory context of the set, makes the utility, runs it, makes a
`Records` on the C++ heap, has the utility append a record, deletes the utility and switches
back; a failure anywhere ends in one of two handlers and then in `ereport`. On each later
call it finds the `Records` again through `user_fctx`, copies one item into palloc'ed strings
and builds a tuple, or, at the end, deletes the `Records`. `u_init` and `u_cleanup` act on the
whole process, so one call site's call reaches the others of the same query.

What is hard, and what makes each part correct:

* **Driver**: re-entry with the executor, other sites, dropped scans and aborted queries in
  between; four places in the try block that may throw; handlers that must work whatever
  exists by then. Correct: the rows it owes are backed by live objects; the utility and the
  `Records` go on every path; ICU is up around ICU objects and down on return; the backend is
  never left in the multi-call context; each scan gives one row and its end, or an error.
* **InvoiceHash**, **PublicLink**: many steps, any of which may fail, with several resources
  in different states of ownership. Correct: each is released exactly once; a result returned
  belongs to this call and is whole.
* **B64**: sizes counted apart from the loop that uses them, a moving pointer. Correct: it
  stays in its buffer, deletes what `new[]` gave, and what it returns decodes to the payload.
* **ICU classes**: error codes and strings that are members and are not always reset. Correct:
  an error is reported and stays; a record is the answer to the last request.
* **Entry points**: positions of arguments, and their number, tested one by one; ids that come as
  `float8` and go on as `int64_t`. Correct: nothing is read that was not received and, if need be,
  tested; a link is for the ids it was asked for.
* **Exception**: a text printed twice when the first buffer is too short. Correct: the loop ends,
  with the whole text.
* **JSON readers**: the grammar is spread over flags and over four places that skip comments;
  `lastValue_` is a plain pointer into a tree that still changes; a failure skips tokens and goes
  on returning through open containers; a reader is used again after a failure or an exception.
  Correct: what is accepted is JSON and becomes what it denotes, a failure is reported, ranges and
  comments are where they belong, reading ends.
* **Value**: strings, names and comments are C strings released by hand, of which some are static
  and shared; arrays are maps with holes. Correct: each buffer has one owner; one operation
  changes what it is asked to; tests, conversions and order agree with each other.
* **Path**, **writers**, **builders**: a small hand-written syntax, and values made one by one on
  the way; layout that depends on what was written before; settings by name. Correct: a path that
  cannot be made changes nothing that was there; what is written reads back, comments included;
  a mode decides whatever was set before.

PROJECT.json's "hazards" lists each of these at its line with the properties that cover it.

## 2. Modules

| Module | What it is |
|---|---|
| `UtilsCommon` | the driver, the ownership side of Utility and Records, the three lambdas of each entry point, and the executor |
| `ResultSet` | the abstract specification: what a call site promises the executor |
| `UtilsCommonProofs` | the inductive invariant's proof, seven theorems, the refinement among them |
| `Base64` | the arithmetic of `B64::Encode`, and the decoding of RFC 4648 as the reference |
| `B64`, `B64Proofs` | one `B64` object, its moving pointer and its buffer; four theorems |
| `InvoiceHash`, `InvoiceHashProofs` | `InvoiceHash::Calculate` step by step; three theorems |
| `PublicLink`, `PublicLinkProofs` | `PublicLink::Calculate` step by step; four theorems |
| `NumberSpellout` | one `NumberSpellout` object over any sequence of calls |
| `Formatters` | one `MessageFormatter` or `NumberFormatter` over any sequence of calls |
| `IcuUtilities`, `IcuUtilitiesProofs` | an object of any of the three classes; their theorems, four for all three and four for each module |
| `IcuCodes` | `UErrorCode` as these classes test it |
| `UtilityContract` | the abstract specification of a Utility as the driver relies on it; all three classes implement it |
| `EntryPoints`, `EntryPointsProofs` | what each SQL function tests and reads of its arguments, in order; four theorems, one of them about the composition with `LinkPayload` |
| `LinkPayload` | the two ids of a public link on their way from `float8` to the payload; composed with `EntryPoints` in `MCEntryPoints` |
| `SmallFloats` | rounding to a short significand |
| `ExceptionText` | the loop of `Exception`'s constructor; composed with `InvoiceHash` in `MCInvoiceHash` |
| `JsonReader`, `JsonReaderProofs` | `Reader` and `OurReader`; six theorems |
| `JsonSyntax` | what JSON is and what it denotes, offset by offset: the reference for the strict reader, without recursion; the invariant of its proof |
| `JsonWriter` | the layout of the four writers |
| `MCJsonDocuments` | the grammar of JSON, recursive, as a second reference; the readers composed with the writers |
| `JsonText` | strings: quoting, scanning, decoding |
| `JsonNumbers` | numbers: decoding, and the tests and conversions of `Value` |
| `JsonValue` | `Value`: its trees and their memory, arrays with holes |
| `JsonPath` | `Path` |
| `JsonOrder` | the order of values and keys |
| `JsonSettings` | the two builders |
| `MCJsonScalars`, `MCJsonValues` | the parts `JsonText` to `JsonSettings` put together for one run: the variable `part` says which of them a behaviour is about, the variables of the others are idle |
| `JsonValuesProofs` | eight theorems about `MCJsonValues`: strings, numbers, conversions, `Value`'s memory and arrays, settings, paths, the order of values |
| other `MC*` | the values of the constants for TLC |

Operators marked "fault" in a comment are plausible bugs; no specification uses them.

### UtilsCommon

A call site is one `FmgrInfo`, hence one `fn_extra`. `pc[c]` says where site c is: at a point
of the C++ code (`Inside`) or between two C calls (`Outside`). Several sites share the
process: only one is inside at a time (`Idle` guards entering), and between two calls of one
site any other may run.

| Action | Code |
|---|---|
| `Begin`, `Resume` | a C call of the entry point, with its argument strings on the heap |
| `FirstCallInit`, `FirstCallRejected` | `SRF_FIRSTCALL_INIT`, the context switch, `get_call_result_type`, the attribute metadata; the two ways they end in an error |
| `Alloc`, `Perform` | the first two lambdas, each with every outcome the utility of that function can give |
| `AllocUserFuncContext`, `FillOutput` | the two calls on the utility after it ran |
| `DeleteUtility`, `CleanupIcu` | the third lambda, at the end of the try block or first thing in a handler |
| `ReportError` | the rest of a handler: release the `Records`, `ereport` |
| `PerCallSetup`, `NextRow`, `RowError`, `LastCall` | the part done on every call |
| `Abandon`, `Raise` | the executor: a scan cut short; an error that takes the open sites of the aborted query along |

Data is abstracted to ownership: `heap[c]` is the set of C++ objects made on behalf of a site
and not released (the C++ heap outlives the query), `items[c]` is `Records::items_` with each
position live or `nullptr`. Palloc'ed memory dies with its memory context, so only the context
an allocation is made in is recorded. Every utility appends exactly one record, which is why
`call_cntr` and `max_calls` stay below 2 with no bound in a guard.

`ResultSet` says what the executor sees of a site: pending, a row, the end, an error, or a set
that the executor itself cut. The refinement mapping `SetOf` reads it off `pc` and `rows`.

### B64 and Base64

`Base64` has the size formula, the shifts of one quantum, and RFC 4648's decoding with its
canonical form. A character is its index in `k_table64_`. `B64` has `Encode` in steps: an
empty call, a call that allocates (`EncodeSome`) or fails to (`EncodeFails`), an iteration of
the `while` (`Quantum`), the terminator and the rewind (`Finish`), the destructor.
`encode_buffer` is the member pointer as an offset in the block it points into. Unsigned
arithmetic is modulo `UIntMod`; `B64Assumption` says that the encoded size of the longest
payload stays below it, which for 2^32 is a payload of 3 GB; the only caller encodes a
signature of a few hundred bytes.

### InvoiceHash

One action per step of `Calculate`, each able to fail where the code has a throw or a test.
`held` is what the function will release on its way out: a local that is not `nullptr`, the
digest context while `ctx_initialized`, the RSA key once an `EVP_PKEY` owns it, the `B64`'s
buffer. `live` counts what is made and not released, in `Int`, so a second release would show
as a negative count. `EVP_PKEY_new` may return NULL, which the code does not test; then
`EVP_PKEY_assign_RSA` fails. `EVP_PKEY_assign_RSA` may also fail by itself; the RSA key is then
owned by nobody, and the model counts those keys in `refused` (a history variable).

The driver calls `Calculate` once per object. The class takes more calls, and its members are
reset for that purpose (`tmp_ss_`, `short_`), so the model allows `MaxCalls` of them: that is
where a missing reset would show.

### PublicLink

As InvoiceHash, with two differences of the code: only the library's own exceptions and
JsonCpp's have a handler, any other leaves at once (`Throw`); and the key and the iv are the
entries of a map from texts to pointers, which is one entry when the texts are equal
(`MapEntries`). `decoded` says which text the bytes behind each pointer are from.
`EncryptUpdate` and `EncryptFinal` record how many bytes CBC with padding has stored so far,
against the size of `out`. `AllocatorAborts` is the one undefined behaviour that the model
meets: a store past `out`, after which the allocator may stop the process when the buffer is
released, or not.

Texts are abstract: empty, malformed or well formed. That a decoded key has 32 bytes and a
decoded iv 16 is a precondition the code leaves to its caller, and the model too.

### NumberSpellout, Formatters, IcuUtilities and UtilityContract

The three ICU classes keep `icu_error_code_`, `error_` and `string_` as members. The driver
calls an object once, but the classes take any number of calls, and what the code resets, or
does not, only matters then; the models put no bound on the calls. `AfterIcu` is what an ICU
function may leave in the code it is given: the code as it was, or a warning or failure, never
no error. `FormatAmount` and `FormatMessage` call `MessageFormat::format`, whose static form
formats in the locale of the process, so the object's locale has no part in them. `NumberFormatter`
derives from `MessageFormatter` and shares its members, hence one module. Texts are abstract: a
number in words is the pair of the rules and the number, a message is its format with its
arguments, so two answers are equal when they were made of the same things. `Throw` is
`std::bad_alloc`.

`IcuUtilities` puts the classes together: `class` says which of them the object of a behaviour is,
and the members only the others have are at rest.

`UtilityContract` is what the driver takes for granted between its lambdas: a utility is made,
asked, answers or refuses, and only an answer to the last request becomes a record. The
mapping `StateOf` reads that state off `pc` and `error_`, `Answers` says what a request should
be answered with.

### EntryPoints

An entry point is a list of steps (`InvoiceHashSteps`, ...): tests of the number of arguments,
tests for NULL with the name their message gives, reads by position, in the order of the code.
`Receive` and `Call` are the executor: it passes any number of arguments, each of any kind its
position can hold, with NULLs only where the function is not STRICT. PostgreSQL's convention is that a
NULL argument is a zero datum, which `PG_GETARG_TEXT_P` dereferences: `ReadText` crashes on it,
so the tests for `nullptr` that follow are left out, as they never refuse anything. Memory behind
the arguments may look like a NULL, like a text, or like nothing that can be read
(`ReadOverride`). The code runs these steps on every C call of a set, with the same
arguments; the model has them once.

`MCEntryPoints` goes on from a performed call of `public_link` to `LinkPayload`: a number given
becomes a float (`Rounded`), then an integer (`ToInt64`: any, when it does not fit, as the
conversion is undefined), then part of the payload. Numbers are counted in halves.

### ExceptionText

Texts are their lengths, -1 one that `vsnprintf` cannot print. `Attempt` is an iteration of the
`while`, `Finish` the assignment of `what_`. In `MCInvoiceHash` a step of `Calculate` that throws
one of the utilities' exceptions first makes its text, which may itself throw (`std::runtime_error`);
the handlers then rethrow or wrap as the code does.

### JsonReader

A document is a sequence of lexemes, each one offset wide; what happens inside one is in
`JsonText` and `JsonNumbers`. `"badnumber"` is what `decodeNumber` refuses, in `Reader` also a
number beyond every double, which is taken to be no JSON. The C++ call stack and `nodes_` are `frames`, one entry for each open
`readObject` or `readArray` with the name or index being read; `Path(frames)` is the top of `nodes_`.
`tree` maps the paths of the values made so far to their type, range and comments (as offsets), so
"a pointer is dangling" is "a path is not in the tree". `lastValue` is a set of at most one path.

| Action | Code (both classes; `conf.class` where they differ) |
|---|---|
| `Init`, `Parse` | `parse` up to `readValue`: what is reset |
| `ExceedStackLimit` | the exception at the head of `readValue` |
| `ReadScalar`, `DropNull`, `SyntaxError` | `readValue` with each kind of token, the comments before it and the end of the call |
| `BeginObject`, `ReadMember`, `AfterMember` | `readObject`: before its loop, its name and colon, its comma |
| `BeginArray`, `AfterElement` | `readArray`, likewise |
| `AfterFailure` | a failed member or element, `recoverFromError`; the other failures of a loop recover within their own action |
| `FinishParse` | the rest of `parse` |
| `PushError`, `PushErrorWithExtra` | the two overloads of `pushError`, once per `parse` |

`StyledWriter`, `StyledStreamWriter`, `BuiltStyledStreamWriter` and `FastWriter` (`JsonWriter`) are
recursive operators from a tree to lexemes: they keep no state between values but "has the line
been indented", which is a parameter. `Scan` turns what is written into what the reader's scanner
sees. `MCJsonDocuments` reads it.

### JsonValue, JsonPath, JsonSettings

A `Value` is a map from paths to nodes, a node its type and the buffers (text, name, comment) it
owns; a buffer is a number, 0 none or static. An operation gives variables new trees, releases
buffers and takes fresh ones (`Become`); it has one action per operation of the class, the copy
that the code makes of its argument included. C++11 leaves open whether `append(v)` on `v` copies
before or after the new element is there: the model allows either. `JsonPath` reads a text
an index, a name, a separator or a parameter at a time (the digits of an index wrap as `ArrayIndex`
does) and makes or looks up one argument per step; names are sequences of characters. `JsonSettings` drives both builders from a table of names, conversions and defaults.

## 3. Runs

| Run | Question | Bounds |
|---|---|---|
| `driver` | Do the memory, ICU and context disciplines hold, is `ResultSet` implemented, does every call come back and every half read set end? | three sites: two that share the process-wide ICU, and one (`public_link`) that does not and lets foreign exceptions through |
| `b64` | Bounds, single release, decoding | payloads of 0 to 5 bytes over {0, 107, 255}: every remainder modulo 3, with one and two quanta; any sequence of calls |
| `invoice_hash` | Single release, whole results; is the text of each exception made, and whole? | three calls on one object; keys of 512, 1024 and 2048 bits and both sides of the sizes that give 172 characters; texts on both sides of the first buffer and three times as long, and one that cannot be printed |
| `public_link` | Releases, key and iv, size of `out` | two calls; key and iv each empty, malformed, or one of two texts (so equal or not); payload sizes around one block and around several |
| `public_link_fits` | Is what is encrypted always stored within `out`? Expected to fail | as above |
| `icu_utilities` | Are errors reported and kept, what does an object still give after a failure, is the contract of a Utility implemented, by all three classes? | a Portuguese and another locale, two patterns, with and without arguments; two numbers, so that major and minor can be told apart, one wording; any sequence of calls |
| `entry_points` | What has a call that is performed read, when does the backend crash, which ids is a link for? | every number of arguments up to one more than the function takes, every kind of each; integers of 4 bits, floats with a significand of 2, every id that fits and some on either side |
| `entry_points_nulls` | Is a NULL refused or given a default? Expected to fail | as above |
| `entry_points_received` | Is only what was received read? Expected to fail | as above |
| `json_documents` | Is what is accepted JSON, and what does it become; are failures, ranges and comments right; does reading end; does what is written read back? | below |
| `json_values` | Strings, numbers, conversions, memory, arrays, paths, order, settings | below |

Why the bounds are enough. In the driver a site's state depends on others only through
`context`, `icu` and "nobody else is inside"; two sites give every pair of those, and the third
one lets an error of one site abort a second while a third survives. Sites are rescanned
without a bound. In `InvoiceHash` and `PublicLink` a call depends on earlier ones only through
what they leave in the members, and two calls show that; the rest is finite. The ICU
classes have no bound on calls, and two numbers, or two patterns, are enough to tell one call's text
from another's. An entry point compares the number of arguments with constants up to the number
it reads, so one more than that stands for any more. The ids are converted at one boundary of each
type, and a significand shorter than the integers is what makes floats and integers differ.

`json_documents` has six reader configurations (both classes, strict, lenient, numeric names, extra
text refused) on every text of up to 5 of 8 structural lexemes, of up to 3 of 13 rarer ones, and on objects and
arrays of two values, one of them nested, with a comment, or a comment on the next line, inserted
at every place. That is where `lastValue_` may outlive what it points to (a duplicate name replaces
a nested value while a comment follows) and where a comment meets each of the four loops that skip
comments. Texts of 5 lexemes open two containers and fail in the inner one. `StackLimit` is 3, so
the limit is met. A few texts are parsed by a reader that has parsed another before, failed and
threw included. One configuration also reads what nine writers make of trees of up to two comments;
`RightMargin` is 9, so that arrays fall on both sides of it. 1.76 million states.

What the strict reader accepts is compared with JSON twice. `AgreesWithJson` has the grammar, as
recursive definitions from token sequences to trees. `AcceptsJson` says of each offset whether what
is there fits what comes before it and the bracket around it, and of each value of the tree what it
is in the text; it can be proved, and a mistake in either reference would show as a difference, as
the run checks both on the same texts.

`json_values` has strings of up to 3 characters of the 13 that the code tells apart, tokens of up
to 4 marks, all pairs of 13 units around the surrogates and the lengths of UTF-8, each unit one
element of the text, and units spelled in their four digits, whole, cut off or misspelled;
integers of 4 bits, large ones of 6, and a double (`Significand` 4) exact for the former only, as
32, 64 and 53 are, with every text of up to 3 digits, some of them beyond the greatest double
(`MaxDouble`); two `Value`s of up to 3 nodes and 2 buffers, or arrays with indices up to 2, so that holes are before, between and after what is removed; paths of up to 3
elements with up to 3 parameters, on trees with and without what they name, and other texts of up to
3 characters, malformed ones included; `ArrayIndex` has 4 bits, so two digits may wrap; any sequence of changes
of four settings, one of them unknown; all triples of 46 values. The variables that hold `Value`s are
interchangeable, so their symmetry is used. 461 thousand states.

TLC also evaluates the assumptions on constants. `TypeOK` of each module is proved, not run, where
the module has proofs of its own; `JsonText`, `JsonNumbers` and `JsonValue` state theirs within
properties.

`CHECK_DEADLOCK FALSE` stands in every configuration but `JsonDocuments.cfg` because those models
may really end: all sites failed or were dropped, the object is destroyed, the call is over. A JSON
reader can always be given another text.

**Fairness.** `UtilsCommon!FairSpec`: `WF` of a site's own steps: once PostgreSQL calls a C
function, that function runs on until it returns or raises, as nothing in it waits. `SF` of
"resume or abandon" per site: a query that has read a row either asks for the next one or shuts the
expression context down; it may serve other sites any number of times first, each of which disables
the step for a while, hence strong fairness. No fairness is assumed of starting a scan.
`ExceptionText!Fairness`: `WF` of the loop, which runs in the thread that throws. The JSON reader
needs none: `ReadingAdvances` says that each step makes a measure smaller (what is left of the
text, then the open containers, then the point of the code), which is termination as an action
property.

Every property of a passing run is also run against a plausible bug of the code (an operator
marked "fault" in the module, such as a handler that forgets the `Records`, a stream not
reset, an off-by-one in the test for more rows), and TLC finds each of them.

### What the runs found

* **`PublicLink::Calculate` writes one byte past `out`** (`public_link.cc` 159) when the JSON
  payload is a whole number of 16-byte blocks: `out` has `inl + 15` bytes and padding makes
  `inl + 16`. `EncryptedFits` is violated in `public_link_fits`; `FitsUnlessAligned`, checked
  and proved, says that this is the only such case.

* **`number_spellout` reads a third argument of two** (`pg-cpp-utils.cc` 393): the test before
  the override is `args_count >= 2` where the message asks for at least two arguments. The
  declaration of the repository's README has three parameters; the one of two that it drops
  (README 49) would meet this. `ReadsOnlyReceived` is violated.
* **Tests for NULL after the use** (lines 221-240, 306-340, 389, 453-458): `PG_GETARG_TEXT_P`
  has dereferenced the argument by then. Only the `STRICT` of the declarations keeps NULLs away.
  `NullsAreRefused` is violated; `CrashesOnNullsOnly`, checked and proved, bounds the damage.

Met while modelling, with no run of its own: `format_number` names the wrong argument in its three
refusals of a NULL (lines 519, 528, 537 against 544-546).

The properties also state, rather than hide, what the code does leave behind:

* A failed call leaks the entry point's argument strings and the exception object, which
  `longjmp` jumps over, and the record of a `push_back` that threw; a scan dropped before its
  last call leaks its `Records` (`HeapIsReleased`).
* An RSA key that `EVP_PKEY_assign_RSA` refuses is leaked (`InvoiceHash!ReleasedOnce`).
* A key or iv that is no base 64 leaks the buffers made so far, since cppcodec's exception has
  no handler, and JsonCpp's handler leaves the cipher context (`PublicLink!ReleasedOnce`).
* When the key's and the iv's texts are equal the iv pointer stays `nullptr`
  (`LinkUsesKeyAndIv`).
* A formatter whose ICU failed once is of no more use, but for messages without arguments,
  which are their own format (`FailedGivesFormatsOnly`).
* An id above 2^53 may link to another company, the nearest float; one that no `int64_t` holds
  to any (`LinkIsForIds`, `pg-cpp-utils.cc` 342).

And of JsonCpp (line numbers of `jsoncpp.cpp`), as conditions of the properties:

* The strict reader reads comments before a name, after a member and after an element whatever
  `allowComments` says (1664, 1709, 1741), and after a member and a comment it takes any token for
  the comma (1709-1711): `AgreesWithJson` and `AcceptsJson` are about texts without comments.
* `}` closes an object after a comma while the last name is empty (1668), and a zero byte is taken
  for the end of the text (1511): texts with either are left out there as well.
* Without `strictRoot`, `failIfExtra` lets what is no token pass behind the value (1289).
* Class `Reader` throws on a number as a name where these are allowed (705, `asCString` of a
  number): `ReadMember`'s "thrown".
* A dropped null begins one character before its place, at -1 at the beginning of a text (1396),
  which is why `RangesNest` is stated and places of comments only of values in the text.
* `pushError` puts the end of its range past the text (2084): the offset is added to `end_`.
  `FailureIsReported` is about what `parse` reports.
* A single-quoted string is cut at the first `"` in it (1871), and a high surrogate takes any unit
  for its second half (1925-1933).
* `asInt64` and `asUInt64` let a double of 2^63, or 2^64, pass, which does not fit (3220); the
  negation of 2^63 overflows in class `OurReader` (1798). `ConversionsFit` states the first,
  `NumbersAreExact` takes the second for the number it is in two's complement.
* `resize` to fewer elements throws when the element before the new end is a hole (3428-3431), after
  it has erased the others.
* What a writer cannot get back: with an empty indentation and comments kept, what follows a `//`
  comment (5163); `StyledWriter` after a comment that ends in a blank (4658), and in both styled
  writers a name with a zero byte (4561, 4778), which is cut there. The trees and writers of
  `Sound` and `AllWriters` leave these out; a dropped null is only seen with something beside it.
* `validate` tests names only, not values (5279), and adds to the `Value` it is given, so that a
  second call still fails (2187); `setDefaults` leaves unknown names where they are (2209);
  `strictMode` does not set `collectComments`.
* `Path` leaves out, without a word, a parameter that is missing or of the other kind.

## 4. Proofs

All proofs are checked by TLAPS (`tlapm UtilsCommonProofs.tla`, and so on). They hold for every
value of the constants that satisfies the module's named assumption: any set of call sites and
any assignment of functions (`CallsAssumption`); any byte values, payload size and word size
with the encoded size below the latter (`B64Assumption`); any key sizes and number of calls
(`InvoiceHashAssumption`); any texts, payload sizes and number of calls
(`PublicLinkAssumption`); any numbers, wordings, locales, patterns and arguments
(`FormattersAssumption`, `UtilitiesAssumption`); any number of arguments (`EntryPointsAssumption`)
and ids of any width beyond that of the significand (`BitsAssumption`, `SignificandAssumption`);
any texts, of any length, and any readers with any depth limit (`JsonReaderAssumption`); integers
of any two widths, the smaller one exact as a double, and a greatest double past the larger one
(`WidthsAssumption`), numbers of any length
(`LiteralsAssumption`), any scalars that a `Value` can hold (`ScalarsAssumption`), any strings
(`StringsAssumption`) and any texts that begin with a quote (`TokensAssumption`); any variables,
names, buffers, indices and depths of `Value`s (`JsonValueAssumption`); any settings; any texts over
any characters that include those of the syntax, any documented paths of names that can be written
and of indices that an `ArrayIndex` of any width holds, any parameters and any trees in which only
arrays have elements and only objects have members (`PathsAssumption`); any values to compare that
are finite trees, with numbers other than NaN, strings of bytes and maps of any size
(`OrderedAssumption`).

In each module none of the safety properties is inductive alone, and `IInv`, at the end of the
component's module, is the strengthening; the modules prove `Spec => []IInv` with one lemma
per action, and the theorems follow from it.

| Theorems | The argument |
|---|---|
| `UtilsCommonProofs`: `TypeCorrect`, `RowsAreLive`, `IcuIsBracketed`, `HeapRelease`, `ContextIsDisciplined`, `AttInMetaLives` | `IInv` gives, for each point of the driver, the exact fields of the site's function context (`FieldsOK`, `StartedOK`), ties each object on the heap to them (`HeapOK`), and says that one site is inside at most (`OneInside`), which is what keeps one site's `u_cleanup` or context switch from hitting another in the middle (`IcuOK`, `ContextDiscipline`) |
| `UtilsCommonProofs`: `Refinement` | `Spec => ImplementsResultSet`: with `IInv` every step maps to a step of `ResultSet` or to a stutter. It needs `rows` to be tied to `call_cntr` and `max_calls`: `LastCall` is an end only since the row was given, and an error in a handler is one without a row |
| `B64Proofs`: `InBounds`, `DeletedOnce`, `Decodes`, `TypeCorrect` | After k quanta the pointers are at 3k and 4k (`LoopOK`) and what is behind them decodes (`DecodesUpTo`). One quantum's decoding is arithmetic on three bytes; that it leaves the quanta before alone is what carries the induction. There is no induction over data: it is over the steps of the loop |
| `InvoiceHashProofs`: `Releases`, `WholeResults`, `TypeCorrect` | all that is live is held, but for an RSA key between its making and its owner (`LiveOK`, `HeldOK`); both hashes are of this call (`ResultOK`) |
| `PublicLinkProofs`: `Releases`, `LinksUseKeyAndIv`, `Fits`, `TypeCorrect` | which pointers are set at each step and what they were decoded from (`HeldOK`), what is live beyond the state before the call (`LiveOK`), and how many bytes are stored at each step (`StoredOK`) |
| `IcuUtilitiesProofs`: `TypeCorrect`, `ReportsErrors`, `Refinement` (formatters); `SpellingTypeCorrect`, `SpellingReportsErrors`, `SpellingRefinement`; `UtilityErrors`, `KeepsErrors`, `FailedFormats`, `UtilityRefinement` (all three) | `error_` follows the code at every step, a request bears the rules or the locale of its object, and each text put aside is that of its number (`TextsOK`): so an object with no error holds the answer to its last request, which is what the contract needs of `FillOutput`. An object keeps its class and the other class's members stay at rest, so that the two invariants give the four theorems about an object of any class |
| `EntryPointsProofs`: `TypeCorrect`, `Performs`, `Crashes` | first, of each list of steps, that a test of the number of arguments precedes every text and covers its position (`Covered`), that the two functions that format test each text for NULL before (`Tested`), that a position read as a text is read in no other way (`TextsApart`), and which override a function has and where (`Arities`); then, by induction over the steps, that what was passed holds of the arguments (`PassedOK`), so that a performed call, which has passed every step, has whole arguments. Nothing is enumerated: a call may have any number of arguments |
| `EntryPointsProofs`: `LinksAreForIds` | the ids of the two modules go on together (`LinkInv`): what waits at a step of `LinkPayload` is what the steps before make of the number given. Beneath it is arithmetic for every number and width: a number of no more than the significand's bits, in halves or not, is its own float, and it fits the integers; rounding cuts off a power of two, so what is rounded is a multiple of it |
| `JsonReaderProofs`: `TypeCorrect`, `LastValueStaysLive`, `FailuresAreReported`, `ReadingAdvancesAlways` | every container being read is in the tree under the names on the stack (`OpenValuesOK`), and the last value is no deeper than the stack (`LastValueOK`): reading a value over again removes only what is below the top of the stack, hence never the last value, and a comment is never attached to a value that is gone. Nothing is read after a failure (`ErrorsOK`), so no later success hides it. The scanner's choice of the next lexeme exists by well-foundedness of the naturals and lies within the text, for every skipped set |
| `JsonReaderProofs`: `PlacesRight` | a second invariant, `PlacesOK`, about the time until something fails. A value of the tree is open while its container is read, stale where a value is about to be read into it, and complete otherwise: what is complete ends before the place of reading, inside its container and after the elements before it (`KindsOK`, `RangesOK`, `ElementsOK`); as a value's name was read from the text (`CommentsOK`), where no name repeats what is stale is new, so that no comment kept with it is from elsewhere. Every step that does not fail has one of five forms - it reads a value at the top, opens a container there, closes one, moves on to the next value, or stays - and each part is shown of each form. Counting brackets over the lexemes a token skips gives the mirror |
| `JsonReaderProofs`: `JsonAccepted` | a third invariant, `SyntaxOK`, on top of the two, for a strict reader on a text without comments, zero bytes or empty names. Until something fails, the brackets that are open are those of the stack (`BracketsOpen`), everything read fits and the reader is where the text wants what it is about to read (`FitsBefore`, `WantsWhatComes`), the tree is what was read, but for the value awaited (`TreeDenotes`), and the names read are those of the tree (`NamesAreKeys`), so that the reader's test for a repeated name sees any. When something fails, what is there does not fit, or a name repeats, whatever follows; and nothing read after it makes that undone. Each part is shown of each form of step. It needs of `PlacesOK` which values of the tree are open, read or awaited (`KindsOK`), and that no element of an array is behind the one being read (`ElementsOK`) |
| `JsonValuesProofs`: `ExactNumbers`, `JustifiedConversions` | the loop of `decodeNumber` holds the value of the digits behind it (`NumberInv`), without a wrap of its unsigned arithmetic; it stops early only where no further digit can bring the number back into range. What no type holds is rounded, or, beyond the greatest double, refused (`Reader`) or an infinity (`OurReader`). Each test of a type is then compared with its conversion, boundary by boundary, with lemmas on truncation and on doubles near a power of two |
| `JsonValuesProofs`: `BuffersAreOwned` | `OwnedInv`: the nodes of each `Value` form a tree in which only what may hold a text, a name or a comment does; no tree holds a buffer twice, no two share one, and the heap is exactly what they hold. One lemma per operation shows what its new trees hold, and that this is what was there, less what is released, plus what is fresh; a shift of an array or a copy of a subtree is a one-to-one map of paths |
| `JsonValuesProofs`: `ArraysByOne` | from the same invariant: the elements of the new array are compared, one by one, with those of the old array, each as the shape of its subtree; holes and the highest index decide how many there are. `append` on itself, with its copy before or after, is a case of its own |
| `JsonValuesProofs`: `StringsRead` | for texts from outside, the scanner and the decoder are at a boundary, a place with an even number of backslashes before it (`TokenInv`), so that the token cannot end within an escape; for strings that were quoted, the offsets at which each quoted character begins and ends (`QuotedInv`), on which the scanner and the decoder are seen to stop, one after the other. Four lengths of UTF-8 and the two surrogates are arithmetic |
| `JsonValuesProofs`: `DecidingModes` | no invariant: a table of settings, overwritten by the mode's, converts to the mode's whatever it was |
| `JsonValuesProofs`: `PathsFollowed` | `JsonPath!IInv`. Of a documented path, `makePath` stands at an element's end or at one of the two places between elements, with the arguments of the elements before (`ReadingOK`); so each step reads the next element whole. Beneath it: where the elements are in the printed text, that a name ends where it was printed to end, and that the digits of a decimal are read back, modulo the width, to the index. `make` goes on from a null as soon as it has changed the tree (`MakingOK`), so what makes it throw is a value that was there before any change; `resolve` fails only where nothing is |
| `JsonValuesProofs`: `ValuesAreOrdered` | no invariant of steps (the values compared stay): `StrictTotal` is proved of the bytes, of the keys, of the entries of a map and of the maps, each from the one before, with one lemma on sequences ordered by their first difference. That `Less` and `Equal` are what their recursive definitions say, and then that they are an order and equality, goes by how deep values are nested (`Upto`, `LevelOrdered`): comparing two maps asks only about values in them, in either direction |

These theorems do without induction over data. What looks like it, a recursive function of the
naturals (a power of two, the value of digits, offsets in a text) or of the values by their depth, is had in the form of sets: a set
that holds 0 and is closed under successor holds every natural (`SetInduction`), from the
well-foundedness of the naturals, and a function is the one its equations give (`Recursion`).

Only model-checked: liveness (`CallsReturn`, `SetsEnd`, `TextIsMade`), as fairness (`ENABLED`) is
out of the prover's reach; `AgreesWithJson` and `ReadsBack`, whose definitions recurse over trees
(`JsonWriter` and `MCJsonDocuments` declare recursive operators, which the prover does not take).
What `AgreesWithJson` says is proved against the other reference, by `JsonAccepted`.

## 5. Not modelled

* ICU's `operator new` returning NULL, and what ICU makes of a number or a pattern.
* Running out of memory inside an insertion into a string stream, which the standard library
  turns into a state bit; a failed `new` or `std::string` is modelled. In JsonCpp running out of
  memory is not modelled.
* The values of signatures, digests and cipher texts: external libraries.
* `Value`'s iterators, which wrap those of `std::map` and keep no state of their own; this is why
  that component is only partly modelled.
* The layout of JSON error messages, the digits of a written double (`printf`), NaN beyond its
  being a token or not, an infinity but as what a number beyond every double is read as, the YAML
  form of the colon.
* A zero byte within a path.
* Exceptions made of a plain text, which copy it. (`PG_CPP_UTILS_EXCEPTION_NA` with a
  `const char*` picks the overload that prints a format, which is the one modelled.)
* The build and installation files: no behaviour at run time.

## 6. Plan

Done, in the order of importance: the driver with its abstract specification and proofs; the
utilities that juggle resources (`InvoiceHash` with `B64` and `Exception`, `PublicLink`); the ICU
classes and the contract of a Utility, which they implement; the entry points, composed with the
conversion of their ids; JsonCpp: its readers with their proofs, writers composed with readers,
values, paths, settings.

What could come next:

1. `UtilityContract` for the rest: `InvoiceHash` and `PublicLink` shown to implement it (each
   with a mapping from its result to the answer), and the driver's `Perform` and `FillOutput`
   shown to need nothing else, so that the parts compose.
2. A composition of `EntryPoints` with the driver: the argument tests on every C call of a set,
   before the first-call test.
3. `Value` under exceptions: a `malloc` that fails within an assignment.
4. `format_number`'s rounding mode against the rounding example of the repository's README.
