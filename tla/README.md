# A verification project for sq-dsm

sq-dsm is a fork of Sequoia-PGP whose `sq` command can keep OpenPGP keys in the
Fortanix Data Security Manager (DSM).  This directory holds TLA+ models of the
parts of it whose correctness depends on the order of things, TLC
configurations that check them on small instances, and proofs, checked by
TLAPS, of the properties that matter most for every instance.

Paths below are relative to the repository (`src/` in `PROJECT.json`).

## Inventory

### The parts of the system

| Part | State it keeps | Operations | Hard behaviour | What makes it correct |
| --- | --- | --- | --- | --- |
| DSM keys (`openpgp-dsm/src/lib.rs`) | remote: objects with name, links, permitted operations, custom metadata; local: position in a sequence of calls, approval request, agents | `generate_key`, `import_key_to_dsm`, `extract_cert`, `extract_tsk_from_dsm`, `dsm_key_info`, `list_keys`, `DsmAgent::new_certifier/new_signer/new_decryptors`, `Signer::sign`, `Decryptor::decrypt` | several commands on one key name, a dozen remote calls without roll-back, crashes, lost answers, requests approved long after | one winner per name; a stored certificate is complete and its own; nothing is advertised before it is certified; commands return |
| Approval requests (`OperateOrAskApproval`) | one pending request | ask, poll, use the result | the process may die while the quorum decides | no spinning; no writes after the end except the pending one |
| Hold-back buffer (`openpgp/src/parse/stream.rs`) | parser result, reserve, cursor, buffer size | `read_helper`, `finish_maybe` | how much the readers buffer and the caller asks for; errors in the middle | unverified data held back, bytes in order, end only when verified |
| Packet parser (`openpgp/src/parse.rs`) | stack of readers with levels, path, current packet and its flags, three validators | `build`, `next`, `recurse`, `finish`, `decrypt`, `Read`, `BufferedReader` | nested containers, hidden MDC, limits, callers that mix the interfaces, errors half way | message, keyring and certificate are told apart exactly; no panic |
| Message stream (`stream.rs`: `Decryptor::from_buffered_reader`, `IMessageStructure`; `parse.rs`, `hashed_reader.rs`) | layers built so far, signature groups and digests in the cookies of the readers | the parse loops, `push_ops`, `push_sig`, `Signature4::parse` | signatures are paired with one-pass signatures by three independent counts, in any nesting | every signature gets the digest of what it covers and is reported in its layer; MDC looked for |
| Certificate parser (`openpgp/src/cert/parser`) and `sq keyring` | packets of the current certificate, saved error, filters | `next`, `parse`, `cert`; filter, join, list, split, merge | junk between certificates, unknown versions, errors while something is buffered | one result per certificate, no packet assigned to the wrong one, no error swallowed |
| Certificates (`openpgp/src/cert.rs`, `cert/bundle.rs`, `cert/amalgamation`) | components with their signatures in five vectors, bad signatures | `canonicalize`, merge, `insert_packets`, retain, `binding_signature`, `revocation_status` | signatures in the wrong place, before their component, without issuers, forged; reference times | own signatures verified, no more lost than a merge leaves behind, canonical form a fixed point, revocations final |
| Buffered readers (`buffered-reader/src`) and partial bodies | buffer, cursor, stored error, end flag; rest of the chunk, last-chunk flag | `data`, `data_hard`, `data_consume`, `consume`, `eof`, `drop_eof` | errors after data, short reads, requests across chunks | no loss, no repetition, no bytes of the next packet, truncation noticed |
| Symmetric and AEAD streams (`openpgp/src/crypto`) | buffered block or chunk, chunk index, byte count | `write`, `finish`, `read` | framing by length only; failing writers; pieces of the stream lost, repeated, exchanged | order, authenticity, end only after everything |
| Text signatures (`serialize/stream.rs`, its filters, `armor.rs`, `hashed_reader.rs`) | partial lines, a newline held back, digests | `write`, `finalize`, `read` | text cut anywhere on both sides, line endings changed on the way | signer and recipient hash the same |
| Policies (`openpgp/src/policy.rs`) | cut-off lists | accept, reject | times at the boundary | |
| IPC servers (`ipc/src/lib.rs`) | rendezvous file, its lock, listening sockets, cookies | connect, start a server, accept | several processes starting a server at once, deaths, stale files, ports used again | one server; nobody led to a stranger; everybody answered |
| Assuan client (`ipc/src/assuan`, `gnupg.rs`) | write state, response buffer, end-of-response flag | `send`, `poll_next`, `Agent::sign`, `decrypt` | answers matched by counting, refusals and lost connections in the middle | every request gets its own answer or an error |
| Network (`net/src`) | none | get, send, WKD lookups, paced updates | | |
| Autocrypt (`autocrypt/src`), DER conversions, cryptographic backends, `sq` command line | little | | | |

### How they interact

`sq` commands are processes that share nothing but DSM (and, for IPC, a home
directory).  Inside of one process everything is synchronous calls:
`stream::Decryptor` drives a `PacketParser`, which reads through a stack of
`BufferedReader`s (armor, partial bodies, decompression, decryption, hashing) and
pushes every packet to its three validators.  The caller of `Decryptor` is
called back (`get_certs`, `check`, `decrypt`).  `DsmAgent` implements the `Signer`
and `Decryptor` traits that the OpenPGP layers use.

## The modules

| Module | Models | Run | Proofs |
| --- | --- | --- | --- |
| `DsmKeys`, `MCDsmKeys` | what this fork adds: commands on keys in DSM | `dsm_races` | `DsmKeysProofs` |
| `VerifyBuffer`, `HoldBack` | the hold-back of the streaming interface, and what it promises | `vb_large`, `vb_small` | `VerifyBufferProofs` |
| `PacketParser`, `MCPacketParser` | packet parser and validators | `pp_streams` | `PacketParserProofs` |
| `MessageStream` (instantiates `PacketParser` for the grammar) | layers, signature groups, digests, MDC | `msg_layers` | |
| `Keyring` | certificate parser and `sq keyring` | `keyring` | `KeyringProofs` |
| `Certificate`, `MCCertificate` | canonical form, merging, bindings, revocations | `certs` | `CertificateProofs` |
| `PartialBody` | partial body writer and reader, Limitor, Generic | `bodies` | `PartialBodyProofs` |
| `CipherStream` | Encryptors and Decryptors of both kinds | `ciphers` | |
| `TextSignature` | cleartext signatures, signer and recipient | `text_sigs` | |
| `IpcServer`, `MCIpcServer` | start of servers by racing processes | `ipc_servers` | `IpcServerProofs` |
| `Assuan` | Assuan client and gpg-agent requests | `assuan` | `AssuanProofs` |

What a further extension would take up, in this order: the checks
`verify_signatures` makes of each key and the policy, as operators over what
`Certificate` defines; the order in which `sq decrypt` tries session keys, secret keys,
DSM keys and passwords; the armor reader's search for header and footer; and theorems for
`CipherStream` (`InOrder`, `EndIsAll`).

## DsmKeys

`openpgp-dsm/src/lib.rs`, with the commands of `sq/src/commands/key.rs`.

A process is one run of an `sq` command, `cmd[p]` its arguments, `pc[p]` the
remote call it makes next.  Between two calls any other process runs.  The
variables `live`, `name`, `ops`, `parent` and `md` are DSM; all the others are local to
a process.  An object made by process p in role r is `<<p, r>>`, since DSM
draws a fresh UUID for each.  A certificate is reduced to who signed it, which
subkeys it binds and which made an embedded signature.

`GenerateCalls` and `ImportCalls` are the sequences of remote calls of `generate_key`
and `import_key_to_dsm`; `Create`, `Update`, `Sign`, `NewCertifier` and `NewSubkeySigner`
are what one call does.  `GetPrimary`, `ListObjects`, `GetSubkey`, `SignData`,
`DecryptKey`, `ExportPrimary` and `ExportSubkey` are the calls of the other commands.
`AskApproval`, `Approve`, `Deny`, `Updated` and `Denied` are `OperateOrAskApproval`.
`Abort` is every error return and every crash: in both cases the process is gone
and nothing is rolled back.  A lost answer is the branch of `Create` and
`Update` that takes effect and goes to "failed".

Assumptions about what is not in this repository (marked external in the map):
DSM refuses a second object of the same name in a group, reports a link to a
parent also as a subkey of that parent, and executes an approved update itself,
also if the client has gone.  Nobody deletes or renames the objects through
DSM's own interface.

Abstractions: an empty list of links is the same as none; subkeys are imported in
the order signing, encryption; `new_decryptors` returning an empty list is merged
with the failure of the decryption that follows; an ECDH agreement that needs
approval fails (`__agree` does not support it); the calls `list_keys` makes for each group are
one, and so are import, agreement and export of an ECDH decryption, which touch transient
objects only.

Properties, beyond `TypeOK`:

- `CertifierIsOwn`: `generate_key` looks its certifying key up by name
  although other commands use the same name.  That is safe because the name is
  taken once the primary exists, whoever dies when (`OneWinner`, which is proved).
- `PublishedIsComplete`, `OkIsComplete`, `TskIsComplete`: what
  a crash or a concurrent reader can see of a key under construction.
- `AgentIsCertified`: the keys that a signer or decryptor assembles in several
  reads belong to the certificate one extracts for the same name.
- `CertWriteOnce`: a stored certificate is not overwritten, not even by a late approval.
- `Termination`: every command returns.  Fairness: a running process takes its
  steps (the loop of `__retry_until_resolved` waits for the user to press Enter, so
  this assumes that they do), and the quorum decides on every request.  Neither a
  call that needs approval nor a crash is assumed to happen or not to happen.

`TskIsComplete` is about generated keys only: an import stores the certificate with
the primary, before the subkeys, so that after a failed import
`extract_tsk_from_dsm` can return fewer secrets than the certificate has keys.
The code cannot tell this from an import of a partly secret certificate.

Run `dsm_races`: three processes on one name, two of which generate or import
(supported and unsupported layouts; secret, partly secret and public
certificates; primaries that also decrypt, authentication subkeys) while the
third runs any of the six reading commands.  Two writers and a reader are what
the races need: a name has one winner, so that a third writer behaves as the
second one does, and readers do not write.

Two comments disagree with the code.  `import_key_to_dsm` stores whatever flags the
primary has, while `new_decryptors` never looks at it since "the primary key is ONLY
"C" or "CS"" (lib.rs:455): a message encrypted to such a primary cannot be decrypted.
And `new_signer` chooses by the stored key flags alone, so that for an imported public
certificate the "DsmAgent with signing capabilities" (lib.rs:389) cannot sign.

### Proved (DsmKeysProofs)

For any sets of processes, names and workloads, from `WorkloadAssumption` (an
import has a primary key) only: `TypeCorrect`, `OneWinnerHolds`,
`CertifierIsOwnHolds`, `PublishedIsCompleteHolds`, `OkIsCompleteHolds`,
`AgentIsCertifiedHolds`, `TskIsCompleteHolds` and the action property `CertWriteOnceHolds`.

`TypeOK` alone is not inductive: `TypeInv` adds that a process is at a call of its
own command, without which `Then` is not defined.  `SafeInv` consists of

- `NameInv`: which names an object can have, so that no subkey ever takes the name
  of a primary and a free name means that no other primary has it;
- `Facts(p, s)`: what has been done before call s, split in facts on objects
  (created, linked) and on the certificate in the making (signers, subkeys, back
  signature).  It holds for the call the process is at, *and* for the call whose
  approval is pending: the update takes effect at approval, when the process may
  be dead;
- `RequestOK`: a request belongs to the call its process is at, while it runs;
- `Complete`: the statement of `PublishedIsComplete` for each process.

The proof that a step preserves `SafeInv` uses frame lemmas (`CreateFrame`,
`UpdateFrame`): a call of p touches objects of p only.

The other four follow from `UseInv`, which adds

- `WriterInv`: what has been stored before each call (`StoredFacts`), again also for an
  approved call that the process has not seen approved, and what holds of a process's
  objects whatever becomes of it (`ObjectInv`): subkeys have that process's primary as
  their only parent, and a generated key is advertised only after it is certified;
- `ReaderInv`: the keys an agent has collected, and those it has yet to look at, belong
  to the one process that made the primary of its name, which is `OneWinner` again;
- `TskInv`: what `extract_tsk_from_dsm` has and what it has yet to export are together all
  keys of a published generated key.

`CertWriteOnceHolds` rests on `ObjectInv`, which outlives the process: an approval that comes
after its death stores the certificate it had assembled, and that one only.

## VerifyBuffer and HoldBack

`openpgp/src/parse/stream.rs`: `read_helper`, `finish_maybe`.

The body of the literal packet is `len` bytes, of which the parser has consumed
some and buffers `have` more.  `BufferedReader::data(n)` returns everything that is
buffered and may have read any amount more than n (`Filled`); the model leaves the
amount open, so that it covers every stack of readers.  Bytes are positions:
`delivered` counts what the caller has.  `store` says whether the rest is with the
parser (`oppr`), in the reserve, or lost by an error.  `Finish` is one call of
`read_helper` that reaches `finish_maybe` and, on success, drains the reserve by
calling itself; `v` is the verdict of the helper's `check`, "none" if an error came
first.

`HoldBack` is the abstract promise: of an unverified message at least `Hold` bytes are
kept back, a rejected message yields nothing more, the end is reported only for a
verified and completely delivered one.

Run `vb_large`: BufferSize 2, bodies of up to 6 buffers, reads of up to 5 buffers, a
caller that stops at the first error, a build without overflow checks:
`Implements`, the refinement of `HoldBack`, which contains `HeldBack` and `EofIsVerified`.  The logic
compares the cursor with one and two buffer sizes, and lengths of up to six
buffers let every comparison go both ways several times in a row.

Run `vb_small`: BufferSize 3, reads of up to two buffers, a caller that reads on after
errors, a build with overflow checks: `InOrder`, `EofIsAll`, `SmallReadsAreSafe`, and
`Completes` under weak fairness of the next step, which is a caller that reads in a
loop as `read_to_end` does.  The history variable `largest` is the size of the largest
read so far.

What the runs show that a caller would not expect:

- a read larger than the buffer can move the cursor beyond two buffers, and
  `2 * self.buffer_size - self.cursor` (stream.rs:2871) underflows in the next call; with
  overflow checks that is a panic (`HandOutPanics`, which fires in `vb_small`).  Nothing in
  the code bounds the caller's reads: the builder's doc example sets `buffer_size(1 << 12)`
  while `io::copy` reads 8 KiB.  `SmallReadsAreSafe` says that such a read is the only
  trigger;
- after an I/O error `message_processed` (stream.rs:2266) returns true although `check`
  has not been called; stream.rs:2174 says that "the signatures are verified";
- `finish_maybe` stores the reserve before it looks at the trailing packets
  (stream.rs:2545): a caller that reads on after a failed verification is handed the
  reserve, where the comment at 2838 says "The message has been verified".
  `EofIsVerified` and `HeldBack` are therefore stated for callers that stop at an error.

A buffer size of 0, which the builder accepts, is excluded by `BufferAssumption`:
`data(0)` may return nothing before the end, and whether `read_helper` then makes
progress depends on the readers below.

### Proved (VerifyBufferProofs)

For every buffer size of at least 1, body length and read size: `InOrderHolds`
and `EofIsAllHolds` for every caller; `HeldBackHolds`, `EofIsVerifiedHolds` and
`ImplementsHolds` for a caller that stops at the first error (`KeepReading = FALSE`);
`SmallReadsAreSafeHolds` for every caller and every read size.

`Inv` strengthens `InOrder` by `Kept`: once something was handed out from the parser's
buffer, `BufferSize` bytes are buffered behind the cursor.  Without it one cannot
bound the cursor when the buffer is consumed or stashed.  `Strict` adds that a
message stashed and not found good has been given up; `Near` bounds the cursor
by two buffers as long as no read has been larger than one.  The refinement is proved action by action.

## PacketParser

`openpgp/src/parse.rs`, `parse/packet_parser_builder.rs`, `message/mod.rs`,
`message/grammar.lalrpop`, `cert/parser/mod.rs`.

The stream is not fixed beforehand: whenever the parser looks for a packet, any
packet may come at any depth that is still open, or the end, or an error.  The
caller may decrypt, read all or part of the content, finish, call `next` or
`recurse` in any order.  `open` has an entry for each container that was entered,
true while the reader that hides its MDC is in place (the `fake_eof` reader); a
SEIP container that was decrypted but not entered (`Skipped`) makes the parser
read on in the hidden part.  `Finish` is `PacketParser::finish`; `next` and `recurse`
contain it (`FinishedMv`, `FinishedNodes`).

The message grammar is a stack of what may still come (`Starts`, `Expand`), which is
what the generated LALR parser decides, token by token; `check` compares it with
the empty stack.  The keyring grammar amounts to: one primary key first, then no
other.  `nodes` is history, for the reference definition.

`MCPacketParser` defines messages on the *tree* of packets.  `MessageIffTree` says that
`is_message` accepts exactly those trees, although the validator sees tokens and
paths only, learns of the end of a container from the next packet's depth, and
does not see markers at all.  `CertsAreRecognised`: nothing that has the form of a keyring or
certificate is rejected.  `PanicsOnlyOnFault`: `finish`, `next` and `recurse` panic only on a
packet that is not finished and of which a read failed, before (the body hash is lost) or
in the same call; a finished packet may be finished again, or left, whatever failed before.
Reads panic only on a finished packet or after a read that failed.

Run `pp_streams`: eleven tags, four packets, depth two.  Four packets are enough for
every production of the grammar inside another one, two levels for a container
in a container and the end of both at once; longer streams repeat these.

All the panics are modelled, and fire in the run.  The code takes them to be impossible:

- decrypting a SEIP container with at least block size + 2 but fewer than 22 more bytes
  (parse.rs:5268, "This shouldn't fail");
- any call after a read of the content failed, since `data_consume` has taken the body
  hash and not put it back (parse.rs:5000, 4842);
- an error of the source behind some data.  `Generic::data` returns the data and keeps the
  error; `PacketParser::consume`, which the default `drop_eof` (buffered-reader lib.rs:817)
  calls for that data, asks with `data_hard` again, is given the error, and `expect`
  panics (parse.rs:4985, "It is an error to consume more than data returns").  So `finish`,
  `next` and `recurse` panic where they should return the error (`DropPanics`).

Abstractions: default settings (unread content is dropped, not buffered); a packet
is its tag, with a flag whether content is left; a `finish` that returns an error leaves the
packet partly read, as a partial read does.

Three more observations:

- `KeyringValidator::push_token` forgets everything at a key, so that *User ID, Public
  Key* is an error after one packet and a keyring (and a certificate) after two;
- with a maximum recursion depth of 0 the MDC of a decrypted SEIP container is
  still returned, as a sibling of its container, although the builder's documentation
  speaks of top-level packets only;
- reading a container's content to its end by hand makes `is_message` fail, while
  reading a part of it does not.

### Proved (PacketParserProofs)

For any tags, limits, lengths of the stream and faults: `PanicsOnlyOnFaultHolds` and
`CertsAreRecognisedHolds`.  `HashInv`: the body hash is missing only after a failed read or in
a finished packet, which is what every panic goes back to.  `ValidatorInv` relates the
keyring validator, which forgets everything at each key, to the whole history: if the
packets so far have the form of certificates, it holds a key followed by no other key, has
no error, and has counted one key if there was one.  `MessageIffTree` is not proved: its
reference definition is recursive over trees.

## MessageStream

`openpgp/src/parse/stream.rs` (`from_buffered_reader`, `finish_maybe`,
`IMessageStructure`), `openpgp/src/parse.rs` (`OnePassSig3::parse`, `Signature4::parse`,
the hash handling of the parser) and `parse/hashed_reader.rs`.

Any packet may come next at any depth that is open, as far as the grammar, taken
from `PacketParser` by `INSTANCE`, does not rule it out.  A packet is two symbols, its
header and its body, and a digest is the sequence of symbols that were hashed, so that
a header hashed once too often, or into the wrong group, is seen.  `readers` is the
stack of hashed readers with the cookies' signature groups, stash and hashing mode;
`layers` and `counter` are `IMessageStructure`.  `Header` is one round of the loop of
`from_buffered_reader`, `Trailer` one of `finish_maybe`, `End` its end.

`DigestIsOfContent` and `LayersAreGroups` compare what three independent counts make of
a message with what its tree of packets says (`Closes`, `Covered`, `InGroup`).
`push_signature` finds a layer for every signature and does not panic.

`DigestIsOfContent` has one exception, which the model shows and `Unhashed` names.  For each
one-pass signature packet hashing is set to `Notarized`, which leaves out the topmost
group, and is meant to be enabled again behind it (parse.rs:4383).  That call is made on
the `PacketParser`, whose `get_mut` returns `None` (parse.rs:5038), and so reaches no hashed
reader.  A literal data packet enables hashing itself; a container does not.  In *One-Pass
Signature, One-Pass Signature, Compressed Data, Signature, Signature* the signatures of
the innermost group therefore get the digest of nothing.  A single one-pass signature is
not affected: its reader is new, and enabled.

Run `msg_layers`: up to five packets before and including the literal data, eight in all,
three levels, two hash algorithms of which one is unsupported, both values of each
last flag.  Five allow a group of two in a notarisation around a container, or
three groups; the trailing packets are then determined but for the MDC.

Observations: if two levels are left at once (the SEIP container is the last thing in
a compressed packet, or ends with a container) neither MDC nor end of the grammar is
looked at (stream.rs:2587), so that no property about the MDC is stated: it would either
repeat that guard or be false; the end
of a message does not ask `is_message`, so a message that breaks off at a packet
boundary gets to `check`, with fewer signatures; a bare signature between
a one-pass signature and the data is given the digest of nothing and takes the place
of the trailing one, which is the reason for `Regular`.

## Keyring

`openpgp/src/cert/parser/mod.rs` and `sq/src/commands/keyring.rs`.

The input is drawn packet by packet: keys of two fingerprints, unreadable keys
("ukey"), packets of a body, markers, junk, ends of armored blobs, errors and truncated
packets.  `packets` is what the parser has buffered, `queued` its saved error, `source`
what it reads from: the packet parser ("pp"), any other iterator, or nothing any more.
A library user collects the results, or `filter` (with join, list and split, which
differ in what they write) or `merge` runs over one or two files.  Each action is one
turn of the loop in `next`, up to where it needs the source again.

`MatchesInput` compares all results with a `Reference` that looks at positions in the
input alone, the errors included: what came before the first `None` is the reference, and
nothing but `None` comes after it.  It also says what goes wrong, and that nothing else does:
the errors that `Hidden` describes are lost (mod.rs:971-975), and what the input holds behind
an error of the source is never read (`unread`), where the documentation of `CertParser`
(mod.rs:342-344) has it emit the error and stay in the same state.  `OkIsComplete`: no
interrupted or junk input is taken for a complete one by the commands, except that a next
blob cut off inside its first packet header counts as the end ("torn", mod.rs:517-523).  The loops do not
get stuck: no state but the end of the command is without a step.

Run `keyring`: five items, two files, two fingerprints, every filter.  Five items hold
two certificates with a body and something between or after them.

Observations, beside those two: the packet before a parse error is lost with it (`Lost`); the filter callback
of `CertValidator` is told `true` both times.

### Proved (KeyringProofs)

`MatchesInputHolds` and `OkIsCompleteHolds`, for inputs and files of any number and length,
any fingerprints, any filter, and each of the callers.  The assumption is
`KeyringAssumption`: the callers are those named, and fingerprints can be ordered.

Neither property is inductive.  `Reference` is about the whole input, while in the middle
of a run the parser has seen a part of it, holds some packets back, and the packet it is at
may still turn out to be lost.  `Inv` therefore has two marks in the input: `Parsed`, how
much has been through `CertParser::parse`, and `Bound`, where the part begins that no result
was returned for, which is the first buffered packet if there is one.

- `Shape`, `Buffered`: the buffer is a primary key with all body packets behind it, or one
  packet that can start no certificate; behind its first packet there is nothing but body
  packets, markers and ends of blobs.  A queued error is the last item of a source that is gone.
- `Collected`: the results are those the reference expects before `Bound`, each whole and in
  the order of the input (`Listed`), followed by `None` only at the end (`Settled`); a
  buffered packet that is no key is a stray one, and the error that is queued is not hidden.
- `Commanded`: a command that runs and has no error queued has met nothing unreadable before
  `Bound`, and has written, or has in its map, exactly the certificates before `Bound` it wants.
- `Quiet`: a command never asks the parser again after its end.
- `Left`, beside `Inv`: where input was left unread, the last item that was read is an error.

The argument is that the reference does not look back: what is expected before `Bound`
stays the same when the input grows (`SameExpected`, `SameListed`), as long as the item
behind what was parsed is not a "cut", which only an error can bring (`Grows`).  Each turn
of the loop then moves `Bound` past one certificate or one stray packet and returns the one
result expected there (`GiveCert`, `GiveErr`, `GiveNothing`).  At the end `Bound` is behind
the whole input, and two lists of one set in ascending order are the same
(`AscendingLists`, `ListsOnce`), which turns `Listed` into the equality with `Reference` and
gives `merge` its order.

## Certificate

`openpgp/src/cert.rs`, `cert/parser/mod.rs`, `cert/bundle.rs`, `cert/amalgamation.rs`,
`cert/amalgamation/key.rs`.

`cert[p]` is the copy party p has: components, which of them have secrets, the
signatures in the five vectors of each (`sigs`), and `bad`.  `known[p]` and `dropped[p]` are
history: what p was given, and what of it merging left behind.  A
signature is an entry of a table that says over what, by whom, when and why it was
made and on which components its digest prefix fits; the copy of it may have lost
its issuer subpackets.  `Parse`, `MergePublic`, `MergePublicAndSecret`, `InsertPackets` and
`Retain` each end in `canonicalize`, as in the code.  What the certificate then says is
operators: `binding_signature`, `PrimaryUserID`, `Overriding`, `Status`.

`OwnIsVerified`, `HasItsPlace` and `IsCanonical` are what canonicalisation is
for.  `HasItsPlace` also says what is lost: nothing, except what `merge_public_and_secret`
leaves on the unknown components of the other certificate (cert.rs:2217-2220), and the run
has a genuine subkey revocation that is lost so.  `HardIsFinal` and `StaysRevoked` evaluate every copy at five
times: revocations made before, between and after the bindings, bindings that expire,
and a change of the primary user id.  `StaysRevoked` names the ways in which a revocation that
was in force ends: it expires, a newer self-signature of that component is made, or, for
the primary key, another user id becomes the primary one.  The last needs no new signature:
with a soft revocation of time 2, a main user id bound at 1 until 4 and another bound at 3, the
certificate is revoked at 3 and not at 4.  The run has this table and reaches the case.

Run `certs`: two parties, four operations, six packet sequences to parse and six to
insert.  The sequences have misplaced, stripped, forged and colliding signatures and ones that
arrive before their component; four operations are two certificates that are
assembled independently and merged in both directions.  The parties are interchangeable
(`SYMMETRY`).

### Proved (CertificateProofs)

For any components and their order, any table of signatures, any packet sequences, any
number of parties and operations: `OwnIsVerifiedHolds`, `HasItsPlaceHolds`,
`HardIsFinalHolds`, `StaysRevokedHolds` and, for tables that satisfy `FitsWhereItLooks`,
`IsCanonicalHolds`.

The assumptions on the table are that a signature was made over a component its type is
for, if that component is of a known kind, that one the primary key made says so, and that
no two signatures have the same MPIs.

`Inv` describes a copy as `canonicalize` leaves it.  `Settled`: every signature on a known
component verifies there or is not the holder's, and is in the vector its type asks for;
one on an unknown component, or in `bad`, verifies nowhere.  `Single`: no signature is
twice in a vector.  `Remembers`: everything the party was given and no merge dropped is there, and a genuine
signature is where the search will find it once its component arrives.  The proof follows
the order of the code: splitting by issuer, the loops that move what does not verify,
the search among all components, removal of duplicates.  Parsing is a fold over the
packets; that it keeps the properties of its result is shown by taking the least prefix at
which they fail (`LeastNat`).  Merging and inserting are then parsing of a larger heap of
signatures.

The hypotheses are needed.  Without `Plain` a hard revocation can be hidden: a copy of it that
was stripped of its issuers is kept as a third party's certification on a component whose
digest prefix collides with it.  Without `FitsWhereItLooks` writing and reading moves
a signature whose prefix fits a component of another kind from one vector to another.

### Observations (Certificate)

`merge_public_and_secret` forgets the unknown components of the other
certificate with the signatures on them (cert.rs:2218), revocations too: `HasItsPlace` has
them as its exception; a revoked primary key comes back by waiting when the primary user id
changes (see `StaysRevoked`); a signature whose issuers were stripped is taken for
a third party's where it stands and tried as a self-signature where it does not belong;
inserting a stripped copy can therefore turn a self-signature into a third
party's, also a hard revocation, which then only could be one (`known` forgets the copy that had
issuers at that point, so that `HardIsFinal` says nothing of it); bad signatures are written behind the last component and stay there if it
is an unknown one; with no explicit time the clock is read twice and the assertion at
bundle.rs:608 depends on both readings.

## PartialBody

`openpgp/src/serialize/stream/partial_body.rs`, `openpgp/src/parse/partial_body.rs`,
`buffered-reader/src/limitor.rs`, `generic.rs`, `lib.rs`.

A body is written in any pieces, with flushes, for several thresholds and chunk sizes
(`WriteOut`, `WriteBuffered`, `Flush`, `EmitChunk`, `EmitRest`, `Finalize`), arrives whole or
cut, with an end or an error behind it, and is read through `data`, `data_hard`,
`data_consume`, `data_consume_hard`, `consume` and finally `drop_eof` and `eof` as
`buffered_reader_stack_pop` does.  `FillStart`, `FillRead`, `FillHeader` and `FillEnds` are
`do_fill_buffer`, an iteration at a time.  A length is one symbol.

`InOrder`, `EndIsComplete`, `IntactIsAccepted`: what was written is what is read, a truncated
body is noticed when the packet is left, an intact one is not suspected.
`HashIsOfBody`: the lengths stay out of the digest.  No state but the last is without a step.

The reader does not keep to its body in one situation, which the properties therefore name.  A
`data_consume` or `data_consume_hard` of more than is left of the last chunk, while nothing is
buffered, goes to the reader below with the caller's amount (partial_body.rs:279), and octets of
the next packet are consumed; `Limitor` cuts the amount (limitor.rs:97).  The Decryptor
(symmetric.rs:110) makes such calls when it reads a whole buffer's worth near the end; a
literal is read through `PacketParser`, which asks for no more than is there (parse.rs:5001).
The history `over` counts octets consumed from the source and not counted off `left`.  `InOrder`
says that this situation is the only one in which the reader gets past the body
(`over > 0 <=> pos > Len(out)`), that the caller's bytes are the body's before, and that it is
never given more of them than the body has.  `EndIsComplete` says where the next packet is then
read from: `over` octets behind its beginning, without an error.  `IntactIsAccepted` and
`HashIsOfBody` have that exception and no other.

Run `bodies`: six bytes, thresholds and chunk sizes of 1, 2 and 4, requests of up to
four bytes, three calls before the packet is left.  This gives up to four chunks,
requests that end before, at and behind a chunk's end, refills of a
partly consumed buffer, and every one of the exceptions above: packets left without an error
with the next one begun, and intact ones refused after an overrun.

### Proved (PartialBodyProofs)

For any set of lengths a chunk may have (`Powers`: positive, with 1 among them), any
thresholds, chunk sizes, buffer size, length of the body and number of calls, and whatever the
caller asks for: `InOrderHolds`, `EndIsCompleteHolds`, `IntactIsAcceptedHolds` and
`HashIsOfBodyHolds`.  That the lengths are powers of two is not needed.

The inductive invariant is `Whole`: `Inv` as long as `over = 0`, and `Past` from the first overrun
on, which is entered only from the last chunk with an empty buffer (`FirstOverrun`).  In `Past`
nothing is known of the octets any more, but the counts still are: the reader stands too far by
exactly `over`, and what it still counts as left is what the caller has not got (`Counted`).

`Inv` has four parts.  `WriteInv`: what has been put out is `Chunked`, that is, every length is
followed by that many bytes, numbered on from the byte before it, and then by another
length or the end; what is buffered and at hand continues it (`Split`).  `InputInv`: what
arrived is that, with the next packet behind it, or a beginning of it.  `ReadInv`: the reader
stands in a chunk (`InChunk`) after `Taken` bytes of the body, which are those the caller has
followed by those the reader keeps (`Held`: its buffer, or what the call in progress has
filled), and it knows whether the chunk is the last.  `IntactInv`: if all of the packet is
there, no call fails for lack of data, a short answer means that the body is at its end, and
`eof` is asked only there.  The lemmas under it say how runs of bytes are joined and cut
(`RunJoin`, `RunCut`), that putting out one more chunk keeps `Chunked` (`AddChunk`), what
taking n bytes of the chunk (`MoveChunk`) or of the buffer (`TakeHeld`) does, and what
the reader below may answer (`InnerFacts`).

## CipherStream

`openpgp/src/crypto/symmetric.rs`, `crypto/aead.rs`, and `PacketParser::decrypt` as far as it
tries the session key of an AED packet.

The text is numbered bytes.  A byte on the wire says what it is, for which chunk and over
what it was made; two tags are equal only if they were made for the same index and
content, which is what the cipher promises.  `Write` and `Finish` go to a writer that
fails after any number of bytes; the destructor finishes a stream in any case.  On the
way a span of an AEAD stream may be lost, repeated or exchanged with the next one; a CFB
stream, which is not authenticated here, may be cut.  `Asked` is `Generic::data` with its
stashed error.

`InOrder`, `EndIsAll`,
`IntactIsAccepted`: tags are not taken for data nor data for tags, wherever the last chunk
ends, and the end is not reported before everything that was written.

Run `ciphers`: chunks of three bytes, tags of two, texts of up to seven, pieces and reads of
up to five: no, one and two whole chunks with every rest, chunks longer and shorter
than a tag, reads within, at the end of, and across chunks.

Observations: a stream of which nothing arrived is an empty text, final tag or not
(aead.rs:310); a chunk that fails authentication after it was decrypted into the
Decryptor's own buffer stays there, and a reader that goes on after the error is given it,
where the comment (aead.rs:376) intends "that we keep returning the error".  Readers in the
model stop at the first error, as those in the repository do.

## TextSignature

`openpgp/src/serialize/stream.rs` (`Signer`), `stream/trim_whitespace.rs`,
`stream/dash_escape.rs`, `openpgp/src/armor.rs` (the transformation of a cleartext signed
message), `parse/hashed_reader.rs`.

Every text over six kinds of character is written in every division into pieces,
trimmed, hashed, escaped, carried with other line endings, unescaped and hashed by the
recipient in every other division.  "S" stands for the line that would start the
signatures.  `Write` goes through `TrailingWSFilter`, whose complete lines `TrimLine` passes on
one by one to `SignerWrite` and `Escape`; `Read` is one read of the recipient.

`DigestsAgree`: newlines held back, first
characters of lines and carriage returns that a piece separates from their newline
come out the same on both sides, and as the canonical form of the text.

Run `text_sigs`: texts of up to five characters in pieces of up to three: two line endings
of two characters and something between or behind them, each cut in the middle.

Observations: `TrailingWSFilter` keeps a blank
before a carriage return that the recipient trims, so that the digests differ, which is the
precondition `Regular` of the property.  A text signature outside of this framework hashes every
piece for itself (`hash_update_text`), and so counts two line endings for a "\r\n" that two pieces
share (hashed_reader.rs:71); its digest depends on the division into pieces, nothing is claimed
of it, and it is not modelled.  Also: the comment at stream.rs:1311 says that signatures
are emitted in reverse, the loop at 1314 goes forward; `HashedReader::data_consume` does
not put its cookie back after a read error (hashed_reader.rs:290).  Errors of the writers
are not modelled here.

## IpcServer

`ipc/src/lib.rs`: `Descriptor::connect_with_policy`, `start`, `fork`, `Server`, `Cookie`.

Every process makes one call.  `pc[c]` is where it is: waiting for the lock, reading the
file, connecting, starting a server, sending it its cookie, writing the file, being
served.  `srv[s]`, `port[s]` and `queue[s]` are the server a process started and the
connections waiting at its port; `file` and `lock` are the rendezvous file.
`PublishFails`, `ConnectFails`, `Dies`, `ServerDies` and `NoPort` are the faults, `MaxFaults` of
them in a behaviour, a torn file left by an earlier process included.  An internal server
dies with its process, an external one does not.

`FileIsOwn`: among the servers that share the file, whoever listens on the port in it is
the one whose cookie it holds.  (Only these bind ports in the model; a server of another
service may take a dead server's port and would turn the client away.)  `AnnouncedIsNamed`: a
server whose address was written to the file is alive only as long as the file names it,
with exactly two exceptions, which the history variable `lost` records and which both
happen in the run: the entry was written behind the gap that a short file leaves
(`Publish` after `NoCookie`), or it was thrown away because a connection failed although the
server listens (`ConnectFails`: `map_err(drop)`, lib.rs:194, takes a full backlog or a lack of
descriptors for a dead server).  In both cases two announced servers are then alive at the
same time.  `Answered`: every call returns, and fails only if
there was a fault; weak fairness of each process and of each server; a
client hangs up after its answer, which the server waits for before it accepts the
next.  Nothing is assumed of the lock: each process takes it finitely often.

Run `ipc_servers`: three processes of the three policies, two ports, one fault.  Two
processes race and the third comes when a server has died and its port is used again, or
when an entry has been lost.

Observations: after a stale file `connect_with_policy` goes on with the policy of the
context (lib.rs:202), though it "does not use the context's IPC policy, but uses the given
one" (lib.rs:147); after a file shorter than a cookie the file cursor is not moved
back and the new entry is written behind a gap, so that the next process cannot read it
and starts another server.

### Proved (IpcServerProofs)

For any sets of processes and ports, any policies and any number of faults:
`FileIsOwnHolds` and `AnnouncedIsNamedHolds`.  `Inv` consists of `Types`; `Mutex` (one process at a
time is inside of the lock); `FileFree`, `NotYet` and `PortHeld` (a process that is starting a
server finds the file naming nobody alive; its server is not announced; a live server
holds its port alone); `FileNames` and `PublishedNamed` (the file names announced servers, and
an announced server that is alive and not lost is the one named); and `FileIsOwn` itself.  The step
that needs them all is `Publish`: overwriting the file is harmless only because nobody alive
was named in it but servers that are lost (`NoneAlive`), which goes back to the failed
connection under the same lock.  Steps that touch neither file nor servers are handled by `QuietKeeps`, deaths, which
can only make the conclusion easier, by `QuietSpoils`.

## Assuan

`ipc/src/assuan/mod.rs`, `ipc/src/gnupg.rs`.

`w`, `out` and `done` are the client's write state, the command being written and the flag
that reports the end of a response with the next poll; `wire` and `link` are the two
directions of the socket.  `st` is where the future of the request is.  gpg-agent
(external) answers each command as its protocol says, may refuse, answer with junk,
or go away; the future may be dropped at any point (`Cancel`).

`OwnAnswer`: answers are matched by counting, and the connection is in step whenever it is
used again.  `Completes`: every request returns and `send` does not meet the state it calls
unreachable; weak fairness of the executor and of gpg-agent's answers.

After an error or a dropped future the caller drops the `Agent`, as `KeyPair` does, or goes on with
it (`AfterError`; `Agent::sign` and `decrypt` borrow it, so it may).  The second sets the
history `reused`, which is the exception in both properties: the flag or unread lines are
left behind (mod.rs:279), a later request can return the signature over an earlier digest, and
`send` can meet its unreachable state.  That requests return holds in any case.

Run `assuan`: four requests, an option, two lines of data per answer.  Both exceptions are
reached; the wrong answer needs the fourth request.

### Proved (AssuanProofs)

`OwnAnswerHolds`, for any number of requests, options and lines per answer.  An `Agent` that was
used again stays one (`ReusedStep`); for the others, `BusyInv`: one command at a time is under way
(`InStep`), it is the one the request's state says (`Sent`), only the last line on the link
ends the response, every line of data is of this request (`Own`), and the agent has this
request's digest when it is told to sign (`ServerKnows`).  `IdleInv`: between two requests
nothing is under way in either direction.

## What is proved and what is only checked

Proved for all values of the constants, from the assumptions named in the modules: the
theorems of `DsmKeysProofs`, `VerifyBufferProofs`, `IpcServerProofs`, `AssuanProofs`,
`PacketParserProofs`, `CertificateProofs`, `PartialBodyProofs` and `KeyringProofs`.  Two hypotheses
leave out callers or data for which a property fails, each named in its section:
`KeepReading = FALSE` (`HeldBackHolds`, `EofIsVerifiedHolds`, `ImplementsHolds`) and
`FitsWhereItLooks` (`IsCanonicalHolds`).

Checked by TLC on the instances of the runs only:

- liveness (`Termination`, `Completes`, `Answered`), which TLAPS does not prove under
  fairness, and the absence of deadlock, which needs `ENABLED`;
- `MessageIffTree` of `PacketParser`, whose reference is a recursive operator on trees, which
  TLAPS does not support;
- `MessageStream`: an inductive invariant would have to relate three stacks that count the
  one-pass signatures each in their own way, and none has been worked out; the readers are
  also peeled off with `SelectSeq`, which the provers do not expand;
- `CipherStream`, where the claim is about products of a chunk's number and its size, beyond
  the linear arithmetic of the prover;
- `TextSignature`, where the claim is what a function on texts, defined position by position,
  gives for a text cut into pieces: induction over data.

The library's induction theorems have operators as parameters and cannot be used by the
provers at hand.  Where a proof needs induction over a sequence or a number
(`CertificateProofs`, `PartialBodyProofs`, `KeyringProofs`), it takes the least number for which the claim
fails, which exists since `<` is well-founded on the natural numbers (`LeastNat`).

## Not modelled

- Authentication against DSM, proxies, PKCS12; the DER and S-expression conversions.
- Cryptography, which is assumed to work; the contents of packets other than what is
  named above: encodings of subpackets, MPIs, user ids, base64 and the checksum of the armor.
- In the Decryptor: the checks of each signing key, detached signatures, the choice of
  certificates by issuer; a hold-back buffer of size 0.
- Expiration of keys and how it is set, preferences, designated revokers, the builder;
  the policy's tables.
- Packet piles, packet maps, buffering of unread content, `Reserve` and `Dup`.
- Compression and padding writers, recipients and session keys of the Encryptor.
- Keybox, network, Autocrypt, regular expressions, the remaining `sq` commands.

Most of the repository's lines are of the first four kinds: encodings, tables, accessors and
their tests, which have no order of events to get wrong.  Each part is listed with its reason
in `PROJECT.json`.
