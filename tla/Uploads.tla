------------------------------ MODULE Uploads ------------------------------
(* POST /files/file_upload: a file is read in chunks, its size and the type *)
(* its first bytes show are checked on the way, then it is put into the     *)
(* bucket and a download URL is signed for it.                              *)
(*                                                                          *)
(* A byte is one of a few symbols: Nul is the byte no text holds, Control a *)
(* character that does not print, Lead and Cont are the two bytes of one    *)
(* that does, and all others are printable characters of one byte.  A       *)
(* signature is a sequence of bytes with gaps (RIFF....WEBP).               *)
EXTENDS Integers, Sequences, FiniteSets

CONSTANTS
    Null, Lead, Cont, Nul, Control, Gap,
    Uploads,         \* the uploads of a run
    Keys,            \* storage keys
    Bytes,
    Files,           \* what clients send
    DeclaredTypes,   \* the content types they declare
    AllowedTypes,    \* FILE_UPLOAD_ALLOWED_CONTENT_TYPES
    Text,            \* text/plain
    Signatures,      \* function from the other detectable types to signatures
    ChunkSize,       \* _UPLOAD_CHUNK_SIZE
    SniffBytes,      \* FILE_UPLOAD_SNIFF_BYTES
    MaxBytes,        \* FILE_UPLOAD_MAX_BYTES
    Printable, Of    \* _TEXT_PRINTABLE_MIN_RATIO: 95 characters of 100

ASSUME SizesArePositive ==
    /\ ChunkSize \in Nat \ {0} /\ SniffBytes \in Nat \ {0} /\ MaxBytes \in Nat
    /\ Of \in Nat \ {0} /\ Printable \in 0..Of
    /\ Text \notin DOMAIN Signatures /\ Null \notin DeclaredTypes

ASSUME FilesAreBytes ==
    /\ Files \subseteq Seq(Bytes)
    /\ \A t \in DOMAIN Signatures : Signatures[t] \in Seq(Bytes \union {Gap})

\* Signatures fit into the sample and differ in a byte that is not a gap.
ASSUME SignaturesAreDistinct ==
    /\ \A t \in DOMAIN Signatures : Len(Signatures[t]) \in 1..SniffBytes
    /\ \A t, s \in DOMAIN Signatures :
        t # s => \E i \in DOMAIN Signatures[t] \intersect DOMAIN Signatures[s] :
                    /\ Gap \notin {Signatures[t][i], Signatures[s][i]}
                    /\ Signatures[t][i] # Signatures[s][i]

VARIABLES
    pc,      \* what an upload does next, or was answered
    job,     \* the local variables of its handler
    bucket   \* the stored objects

uploadsVars == <<pc, job, bucket>>

-----------------------------------------------------------------------------
Prefix(s, n) == SubSeq(s, 1, IF Len(s) < n THEN Len(s) ELSE n)

Starts(sample, signature) ==
    /\ Len(sample) >= Len(signature)
    /\ \A i \in DOMAIN signature : signature[i] \in {Gap, sample[i]}

\* The sample decodes as UTF-8 and holds no NUL.
Decodes(sample) ==
    \A i \in DOMAIN sample :
        /\ sample[i] # Nul
        /\ sample[i] = Lead => i < Len(sample) /\ sample[i + 1] = Cont
        /\ sample[i] = Cont => i > 1 /\ sample[i - 1] = Lead

\* printable_ratio, over characters, each counted at its first byte.
EnoughPrintable(sample) ==
    LET characters == {i \in DOMAIN sample : sample[i] # Cont}
    IN Of * Cardinality({i \in characters : sample[i] # Control})
            >= Printable * Cardinality(characters)

LooksLikeText(sample) == Decodes(sample) /\ EnoughPrintable(sample)

Signed(sample) == {t \in DOMAIN Signatures : Starts(sample, Signatures[t])}

Detect(sample) ==
    IF Signed(sample) # {} THEN CHOOSE t \in Signed(sample) : TRUE
    ELSE IF LooksLikeText(sample) THEN Text ELSE Null

\* Mutant: whatever the first chunk shows is enough.
Enough(sample) == sample # <<>>
ShouldValidate(sample) == Signed(sample) # {} \/ Len(sample) >= SniffBytes

-----------------------------------------------------------------------------
StoredObject == [content : Files, type : AllowedTypes]

ASSUME NullIsNoObject == Null \notin StoredObject

Answers == {"ok", "bad_request", "storage_error"}

UploadsTypeOK ==
    /\ pc \in [Uploads -> {"idle", "read", "put", "presign"} \union Answers]
    /\ bucket \in [Keys -> StoredObject \union {Null}]
    /\ \A u \in Uploads :
        pc[u] # "idle" =>
            /\ job[u].file \in Files /\ job[u].declared \in DeclaredTypes
            /\ job[u].read \in 0..MaxBytes
            /\ Len(job[u].sample) <= SniffBytes
            /\ job[u].verdict \in AllowedTypes \union {Null}
            /\ job[u].key \in Keys \union {Null}

UploadsInit ==
    /\ pc = [u \in Uploads |-> "idle"]
    /\ job = [u \in Uploads |-> Null]
    /\ bucket = [k \in Keys |-> Null]

Goto(u, step) == pc' = [pc EXCEPT ![u] = step]

-----------------------------------------------------------------------------
\* The content type is a header of the request and decides first.
StartUpload(u) ==
    /\ pc[u] = "idle"
    /\ \E f \in Files, d \in DeclaredTypes :
        /\ job' = [job EXCEPT ![u] =
                [file |-> f, declared |-> d, read |-> 0, sample |-> <<>>,
                 verdict |-> Null, spool |-> <<>>, key |-> Null]]
        /\ Goto(u, IF d \in AllowedTypes THEN "read" ELSE "bad_request")
    /\ UNCHANGED bucket

NextChunk(j) ==
    SubSeq(j.file, j.read + 1,
           IF j.read + ChunkSize < Len(j.file) THEN j.read + ChunkSize ELSE Len(j.file))

\* Mutant: the sample takes in whole chunks.
ExtendedByChunk(j) ==
    IF Len(j.sample) < SniffBytes THEN j.sample \o NextChunk(j) ELSE j.sample
Extended(j) == Prefix(j.sample \o NextChunk(j), SniffBytes)

\* One turn of the loop: the size first, then the sample and, as soon as it is
\* enough and only once, its type; a chunk that passes is spooled.
ReadChunk(u) ==
    /\ pc[u] = "read"
    /\ LET j == job[u]
           total == j.read + Len(NextChunk(j))
           judge == j.verdict = Null /\ ShouldValidate(Extended(j))
       IN /\ j.read < Len(j.file)
          /\ IF \/ total > MaxBytes
                \/ judge /\ Detect(Extended(j)) # j.declared
             THEN Goto(u, "bad_request") /\ UNCHANGED job
             ELSE /\ job' = [job EXCEPT ![u] = [j EXCEPT
                        !.read = total,
                        !.sample = Extended(j),
                        !.verdict = IF judge THEN Detect(Extended(j)) ELSE @,
                        !.spool = @ \o NextChunk(j)]]
                  /\ UNCHANGED pc
    /\ UNCHANGED bucket

\* Mutant: a file that ends before the sample is full keeps its declared type.
EndOfFileTrusting(u) ==
    /\ pc[u] = "read"
    /\ job[u].read = Len(job[u].file)
    /\ job' = [job EXCEPT ![u].verdict = IF @ = Null THEN job[u].declared ELSE @]
    /\ Goto(u, "put")
    /\ UNCHANGED bucket

\* Mutant: the loop ends at a chunk that is not full.
EndOfShortChunk(u) ==
    /\ pc[u] = "read"
    /\ job[u].read = Len(job[u].file)
    /\ job[u].read % ChunkSize # 0
    /\ Goto(u, "put")
    /\ UNCHANGED <<job, bucket>>

\* An empty chunk ends the loop; a type still unknown is decided now.
EndOfFile(u) ==
    /\ pc[u] = "read"
    /\ job[u].read = Len(job[u].file)
    /\ IF job[u].verdict = Null /\ Detect(job[u].sample) # job[u].declared
       THEN Goto(u, "bad_request") /\ UNCHANGED job
       ELSE /\ Goto(u, "put")
            /\ job' = [job EXCEPT ![u].verdict =
                    IF @ = Null THEN Detect(job[u].sample) ELSE @]
    /\ UNCHANGED bucket

Stored(j) == [content |-> j.spool, type |-> j.verdict]

\* Mutant: the key has no random part.
PutObjectAnyKey(u) ==
    /\ pc[u] = "put"
    /\ \E k \in Keys :
        /\ bucket' = [bucket EXCEPT ![k] = Stored(job[u])]
        /\ job' = [job EXCEPT ![u].key = k]
    /\ Goto(u, "presign")

\* A key is new: it ends in a part of a fresh UUID.
NewKeys == {k \in Keys : bucket[k] = Null}

PutObject(u) ==
    /\ pc[u] = "put"
    /\ \E k \in NewKeys :
        /\ bucket' = [bucket EXCEPT ![k] = Stored(job[u])]
        /\ job' = [job EXCEPT ![u].key = k]
    /\ Goto(u, "presign")

\* The storage refuses, or stores the object and its answer is lost.
PutFails(u) ==
    /\ pc[u] = "put"
    /\ \/ UNCHANGED bucket
       \/ \E k \in NewKeys : bucket' = [bucket EXCEPT ![k] = Stored(job[u])]
    /\ Goto(u, "storage_error")
    /\ UNCHANGED job

\* Signing needs credentials and may fail; the object stays.
Presign(u) ==
    /\ pc[u] = "presign"
    /\ \E step \in {"ok", "storage_error"} : Goto(u, step)
    /\ UNCHANGED <<job, bucket>>

HandlerStep(u) ==
    \/ ReadChunk(u) \/ EndOfFile(u)
    \/ PutObject(u) \/ PutFails(u) \/ Presign(u)

UploadsNext == \E u \in Uploads : StartUpload(u) \/ HandlerStep(u)

UploadsSpec == UploadsInit /\ [][UploadsNext]_uploadsVars

\* A handler that has started is a coroutine: it runs on after every await,
\* and the calls to the storage return or time out.
FairUploadsSpec ==
    UploadsSpec /\ \A u \in Uploads : WF_uploadsVars(HandlerStep(u))

-----------------------------------------------------------------------------
\* Properties
\* Nothing gets into the bucket that is too large, of a type that is not
\* allowed, or of another type than its own first bytes show, wherever the
\* chunks end and whatever was declared.
BucketIsClean ==
    \A k \in Keys :
        bucket[k] # Null =>
            /\ Len(bucket[k].content) <= MaxBytes
            /\ bucket[k].type \in AllowedTypes
            /\ bucket[k].type = Detect(Prefix(bucket[k].content, SniffBytes))

\* An upload that is answered 200 has the whole file of its client in the
\* bucket, under its type, whatever other uploads did meanwhile.
AnswerMatchesObject ==
    \A u \in Uploads :
        pc[u] = "ok" =>
            bucket[job[u].key] = [content |-> job[u].file, type |-> job[u].declared]

\* A text the sample does not do justice to: the sample ends between the two
\* bytes of a character, or the unprintable characters of the text crowd in it.
Misjudged(f) ==
    /\ Len(f) > SniffBytes
    /\ f[SniffBytes] = Lead \/ ~EnoughPrintable(Prefix(f, SniffBytes))

\* A file is refused only for its declared type, its size or for not being, as
\* a whole, what it is declared to be, wherever the chunks and the sample end;
\* the one exception is a text longer than a sample that does not show it.
RefusalsExplained ==
    \A u \in Uploads :
        pc[u] = "bad_request" =>
            \/ job[u].declared \notin AllowedTypes
            \/ Len(job[u].file) > MaxBytes
            \/ Detect(job[u].file) # job[u].declared
            \/ job[u].declared = Text /\ Misjudged(job[u].file)

\* Every upload that was begun is answered, whatever the length of its file.
EveryUploadAnswered ==
    \A u \in Uploads : (pc[u] = "read") ~> (pc[u] \in Answers)
=============================================================================
