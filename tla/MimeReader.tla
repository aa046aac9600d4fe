----------------------------- MODULE MimeReader -----------------------------
(***************************************************************************)
(* pre-cxx20/mime_reader: test(), which reads a multipart/x-mixed-replace  *)
(* response piece by piece into work_store and cuts it into parts, run on  *)
(* what mimeify and chunkify make of a list of documents.                  *)
(*                                                                         *)
(* Text is a sequence of symbols: "sep" is "--" with the boundary, "dash"  *)
(* the "--" that follows it in the last line, "cr" and "lf" are single     *)
(* characters because the code counts them, "type" and "length" are header *)
(* lines without their end, and "nul" is a character that grow() added and *)
(* nothing was read into.  Positions count from 0, as std::string's do.    *)
(* A read that ends within a symbol of several characters has the effect   *)
(* of one that ends behind it, so that reads end between symbols here.     *)
(***************************************************************************)
EXTENDS Integers, Sequences, SequencesExt, FiniteSetsExt

CONSTANTS Letter,      \* what documents are made of
          MaxDocLen,   \* bound: letters in a document
          MaxDocs,     \* bound: documents in a response
          MaxChunks,   \* bound: chunks a response is cut into
          HeaderSizes, \* sizes of the response's header
          FirstGrow,   \* what the buffer grows by for the header: 256
          Grow,        \* what it grows by for a read: 512
          RxSize       \* what rxbuf takes from the stream at once: 512

ASSUME SizeAssumption ==
  /\ MaxDocLen \in Nat /\ MaxDocs \in Nat /\ MaxChunks \in Nat /\ HeaderSizes \subseteq Nat
  /\ FirstGrow \in Nat \ {0} /\ Grow \in Nat \ {0} /\ RxSize \in 1 .. Grow

VARIABLES
  header, docs, chunks,  \* the input: size of the response's header, documents,
                         \* and chunks (0: not chunked)
  reads,         \* what the reads of the body yield
  pieces,        \* what the coming reads will yield
  waiting,       \* a read that can not complete is outstanding
  work_store,
  first_part,
  pc,            \* "header", "next_boundary" or "next_header"
  parts,         \* history: the parts that were processed
  result         \* "none" while running; "ok", "error" (returned) or "thrown"

input == <<header, docs, chunks, reads>>
vars == <<input, pieces, waiting, work_store, first_part, pc, parts, result>>

CRLF == <<"cr", "lf">>
Boundary == <<"sep">> \o CRLF
LastBoundary == <<"sep", "dash">> \o CRLF
Pad(n) == [i \in 1 .. n |-> "nul"]

mimeify(ds) ==
  FlattenSeq([i \in DOMAIN ds |-> Boundary \o <<"type">> \o CRLF \o <<"length">> \o CRLF
                                           \o CRLF \o ds[i] \o CRLF])
  \o LastBoundary

chunk_len(n, text) == (Len(text) + n - 1) \div n
chunkify(n, text) ==
  LET len == chunk_len(n, text)
  IN  [i \in 1 .. (Len(text) + len - 1) \div len |->
         SubSeq(text, (i - 1) * len + 1, Min({i * len, Len(text)}))]

----------------------------------------------------------------------------
(* What one http::async_read_some after the other adds to the body.  rxbuf *)
(* takes RxSize characters of the response at once, its header and the     *)
(* lines around the chunks included.  The parser is not eager: of a        *)
(* chunked body it takes a chunk's header, then what rxbuf has of the      *)
(* chunk; of one that is not chunked, all that rxbuf has.                  *)

\* How many characters of the response precede the j-th of text: a chunk begins
\* with a line of three symbols and ends with a line end.
Offset(size, n, text, j) ==
  size + j - 1 + (IF n = 0 THEN 0 ELSE 5 * ((j - 1) \div chunk_len(n, text)) + 3)

ChunkBegins(n, text, j) == n # 0 /\ (j - 1) % chunk_len(n, text) = 0
RxBegins(size, n, text, j) ==
  Offset(size, n, text, j) \div RxSize # Offset(size, n, text, j - 1) \div RxSize

\* Where the reads begin.
Begins(size, n, text) ==
  SelectSeq([j \in DOMAIN text |-> j],
            LAMBDA j : j = 1 \/ ChunkBegins(n, text, j) \/ RxBegins(size, n, text, j))

Reads(size, ds, n) ==
  LET text == mimeify(ds)
      from == Begins(size, n, text)
      to(i) == IF i = Len(from) THEN Len(text) ELSE from[i + 1] - 1
      read(i) == SubSeq(text, from[i], to(i))
  IN  FlattenSeq([i \in DOMAIN from |->
                    IF ChunkBegins(n, text, from[i]) THEN <<<<>>, read(i)>> ELSE <<read(i)>>])

----------------------------------------------------------------------------

UpTo(n, S) == UNION {[1 .. k -> S] : k \in 0 .. n}

Init ==
  /\ header \in HeaderSizes
  /\ docs \in UpTo(MaxDocs, UpTo(MaxDocLen, Letter))
  /\ chunks \in 0 .. MaxChunks
  /\ reads = Reads(header, docs, chunks)
  /\ pieces = reads /\ waiting = FALSE
  /\ work_store = <<>> /\ first_part = TRUE
  /\ pc = "header" /\ parts = <<>> /\ result = "none"

----------------------------------------------------------------------------
(* std::string.                                                            *)

Occurrences(s, text) ==
  {i \in 0 .. (Len(s) - Len(text)) : SubSeq(s, i + 1, i + Len(text)) = text}
contains(s, text) == Occurrences(s, text) # {}
find(s, text) == Min(Occurrences(s, text))
erase(s, n) == SubSeq(s, n + 1, Len(s))
\* substr(0, pos - 2): below 2 the count wraps round and takes everything.
substr_before(s, pos) == IF pos < 2 THEN s ELSE SubSeq(s, 1, pos - 2)

----------------------------------------------------------------------------

\* async_read_header.  shrink() takes the size of the header from what was grown;
\* the header itself does not go to work_store.  If the header is larger the
\* difference wraps round, and shrink() leaves nothing.  Without a boundary in
\* the content type that is all.
ReadHeader ==
  /\ pc = "header" /\ result = "none"
  /\ work_store' = Pad(IF header <= FirstGrow THEN header ELSE 0)
  /\ \/ pc' = "next_boundary" /\ UNCHANGED result
     \/ result' = "error" /\ UNCHANGED pc
  /\ UNCHANGED <<input, pieces, waiting, first_part, parts>>

\* Mutant: reads to the beginning of the store.
ReadSome_at_0 ==
  \/ /\ waiting /\ result' = "thrown"
     /\ UNCHANGED <<pieces, waiting, work_store>>
  \/ /\ ~waiting /\ pieces = <<>> /\ waiting' = TRUE
     /\ work_store' = work_store \o Pad(Grow)
     /\ UNCHANGED <<pieces, result>>
  \/ /\ ~waiting /\ pieces # <<>>
     /\ LET got == Head(pieces)
        IN  work_store' = got \o SubSeq(work_store \o Pad(Grow), Len(got) + 1,
                                        Len(work_store) + Grow - Len(got))
     /\ pieces' = Tail(pieces)
     /\ UNCHANGED <<waiting, result>>

\* grow, async_read_some, spin, shrink and quit_check.  body().size is the room
\* that is left, so shrink() takes off as many characters as were read, not as
\* many as were not.  A piece always fits, because rxbuf never has more than the
\* body has room for, so the parser does not ask for another buffer.  When nothing
\* more comes spin() returns all the same, and the read after that one throws out
\* of test(), because the stream allows only one.
ReadSome ==
  \/ /\ waiting /\ result' = "thrown"
     /\ UNCHANGED <<pieces, waiting, work_store>>
  \/ /\ ~waiting /\ pieces = <<>> /\ waiting' = TRUE
     /\ work_store' = work_store \o Pad(Grow)
     /\ UNCHANGED <<pieces, result>>
  \/ /\ ~waiting /\ pieces # <<>>
     /\ LET got == Head(pieces)
        IN  work_store' = work_store
                 \o SubSeq(got \o Pad(Grow - Len(got)), 1, Grow - Len(got))
     /\ pieces' = Tail(pieces)
     /\ UNCHANGED <<waiting, result>>

\* The boundary at pos is found, and with it the end of the part before it.
FoundBoundary(line) ==
  LET pos == find(work_store, line)
  IN  /\ parts' = IF first_part THEN parts
                  ELSE Append(parts, substr_before(work_store, pos))
      /\ IF line = LastBoundary
         THEN result' = "ok" /\ UNCHANGED <<work_store, pc>>
         ELSE /\ work_store' = erase(work_store, pos + Len(line))
              /\ pc' = "next_header" /\ UNCHANGED result

\* Mutant: looks for the last line first.
NextBoundary_last_first ==
  /\ pc = "next_boundary" /\ result = "none"
  /\ IF contains(work_store, LastBoundary) \/ contains(work_store, Boundary)
     THEN /\ FoundBoundary(IF contains(work_store, LastBoundary) THEN LastBoundary
                           ELSE Boundary)
          /\ UNCHANGED <<pieces, waiting>>
     ELSE ReadSome /\ UNCHANGED <<pc, parts>>
  /\ UNCHANGED <<input, first_part>>

NextBoundary ==
  /\ pc = "next_boundary" /\ result = "none"
  /\ IF contains(work_store, Boundary) \/ contains(work_store, LastBoundary)
     THEN /\ FoundBoundary(IF contains(work_store, Boundary) THEN Boundary
                           ELSE LastBoundary)
          /\ UNCHANGED <<pieces, waiting>>
     ELSE ReadSome /\ UNCHANGED <<pc, parts>>
  /\ UNCHANGED <<input, first_part>>

\* Mutant: does not erase the header line.
NextHeader_stays ==
  /\ pc = "next_header" /\ result = "none"
  /\ \/ /\ ~contains(work_store, CRLF) /\ ReadSome
        /\ UNCHANGED <<pc, first_part>>
     \/ /\ contains(work_store, CRLF) /\ find(work_store, CRLF) = 0
        /\ first_part' = FALSE /\ pc' = "next_boundary"
        /\ UNCHANGED <<pieces, waiting, work_store, result>>
     \/ /\ contains(work_store, CRLF) /\ find(work_store, CRLF) > 0
        /\ UNCHANGED <<pc, first_part, pieces, waiting, result, work_store>>
  /\ UNCHANGED <<input, parts>>

\* An empty line ends the headers.  It is not erased, so the part begins with it.
NextHeader ==
  /\ pc = "next_header" /\ result = "none"
  /\ \/ /\ ~contains(work_store, CRLF) /\ ReadSome
        /\ UNCHANGED <<pc, first_part>>
     \/ /\ contains(work_store, CRLF) /\ find(work_store, CRLF) = 0
        /\ first_part' = FALSE /\ pc' = "next_boundary"
        /\ UNCHANGED <<pieces, waiting, work_store, result>>
     \/ /\ contains(work_store, CRLF) /\ find(work_store, CRLF) > 0
        /\ work_store' = erase(work_store, find(work_store, CRLF) + 2)
        /\ UNCHANGED <<pc, first_part, pieces, waiting, result>>
  /\ UNCHANGED <<input, parts>>

Next == ReadHeader \/ NextBoundary \/ NextHeader

\* test() is a loop: it goes on until it returns.
Spec == Init /\ [][Next]_vars
FairSpec == Spec /\ WF_vars(Next)

----------------------------------------------------------------------------
(* Properties.                                                             *)

TypeOK ==
  LET Symbol == {"sep", "dash", "cr", "lf", "type", "length", "nul"} \cup Letter
  IN  /\ Range(work_store) \subseteq Symbol
      /\ waiting \in BOOLEAN /\ first_part \in BOOLEAN
      /\ pc \in {"header", "next_boundary", "next_header"}
      /\ \A n \in DOMAIN parts : Range(parts[n]) \subseteq Symbol
      /\ result \in {"none", "ok", "error", "thrown"}

Body(text) == SelectSeq(text, LAMBDA c : c # "nul")
Received == SubSeq(mimeify(docs), 1, Len(mimeify(docs)) - Len(FlattenSeq(pieces)))

\* No read fills more than half of what the buffer grew by.
Gentle == \A read \in Range(reads) : 2 * Len(read) <= Grow
\* A read ends within a line end or a boundary line, or just before a boundary line
\* or an empty line: the padding behind it makes these look like something else.
Torn ==
  LET text == mimeify(docs)
  IN  \E j \in Range(Begins(header, chunks, text)) \ {1} :
        \/ text[j - 1] \in {"sep", "dash", "cr"}
        \/ text[j - 1] = "lf" /\ text[j] \in {"sep", "cr"}

\* As long as no read fills more than half of the buffer, growing and shrinking
\* lose nothing: what is in work_store between the padding is the end of what has
\* been received, without gap (main.cpp:174-181, 206-213).
ReadsKept == Gentle => IsSuffix(Body(work_store), Received)

\* If besides no read, be it a chunk's end or rxbuf's, tears a boundary line or a
\* line end, the parts are the documents, in order and complete, each behind the empty line that ended its
\* headers (main.cpp:185-198).
PartsAreDocs ==
  result = "ok" /\ Gentle /\ ~Torn =>
    [n \in DOMAIN parts |-> Body(parts[n])] = [n \in DOMAIN docs |-> CRLF \o docs[n]]

\* How test() may end.
Outcome == IF pc # "header" /\ Gentle /\ ~Torn THEN {"ok"} ELSE {"ok", "error", "thrown"}

\* The reader always comes to an end, also when the last boundary was torn or lost
\* and no more input comes; and on gentle, untorn input it does not fail once it
\* has a header with a boundary (main.cpp:158-230).
Finishes == <>(result \in Outcome)
=============================================================================
