\* Every file under every declared type, two uploads at a time.
SPECIFICATION FairUploadsSpec
CONSTANTS
    Null = Null
    Lead = Lead
    Cont = Cont
    Nul = Nul
    Control = Control
    Gap = Gap
    u1 = u1
    u2 = u2
    k1 = k1
    k2 = k2
    a = a
    p = p
    w = w
    Pdf = Pdf
    Webp = Webp
    OctetStream = OctetStream
    Text = Text
    Uploads = {u1, u2}
    Keys = {k1, k2}
    Bytes <- MCBytes
    Files <- MCFiles
    DeclaredTypes = {Text, Pdf, Webp, OctetStream}
    AllowedTypes = {Text, Pdf, Webp}
    Signatures <- MCSignatures
    ChunkSize = 2
    SniffBytes = 3
    MaxBytes = 5
    Printable = 1
    Of = 2
INVARIANTS
    UploadsTypeOK
    BucketIsClean
    AnswerMatchesObject
    RefusalsExplained
PROPERTY
    EveryUploadAnswered
\* Each upload is one request; when both are answered nothing is left to do.
CHECK_DEADLOCK FALSE
