--------------------------- MODULE RotationProofs ---------------------------
(***************************************************************************)
(* Proofs about Receiver and Rotation: what a receiver accepts has the     *)
(* content that was signed, and its id, timestamp and body where the id    *)
(* has as many dots, and it is in time; what arrives as it was signed is   *)
(* accepted; and a rotation never leaves the receiver without a secret     *)
(* that signs.                                                             *)
(***************************************************************************)
EXTENDS Rotation, SequenceTheorems, TLAPS

LEMMA StampsAreIntegers == Stamps \subseteq Int /\ Times \subseteq Int
BY RangeAssumption, IntAssumption

\* signature.go's difference, wrapped and negated in the machine's arithmetic, is
\* the distance of the two times as long as that fits.
LEMMA SkewIsDistance ==
    ASSUME NEW now \in Int, NEW ts \in Int, now - ts \in -MaxInt..MaxInt
    PROVE  Skew(now, ts) = Distance(now, ts)
BY IntAssumption DEF Skew, Wrap, Distance

\* The pieces of a text that is joined of an id, a timestamp and a body.
JoinedOf(text, a, t, b) ==
    /\ Len(text) = Len(a) + 1 + Len(b)
    /\ \A i \in 1..Len(a) : text[i] = a[i]
    /\ text[Len(a) + 1] = t
    /\ \A i \in 1..Len(b) : text[Len(a) + 1 + i] = b[i]

LEMMA JoinedPieces ==
    ASSUME NEW P, NEW a \in Seq(P), NEW t \in P, NEW b \in Seq(P)
    PROVE  JoinedOf(SignedContent(a, t, b), a, t, b)
<1> DEFINE front == a \o <<t>>
<1>1. <<t>> \in Seq(P) /\ Len(<<t>>) = 1 /\ <<t>>[1] = t
  OBVIOUS
<1>2. /\ Len(a) \in Nat /\ Len(b) \in Nat
      /\ front \in Seq(P) /\ Len(front) = Len(a) + 1
      /\ \A i \in 1..Len(a) : front[i] = a[i]
      /\ front[Len(a) + 1] = t
  BY <1>1, ConcatProperties
<1> HIDE DEF front
<1>3. /\ Len(front \o b) = Len(front) + Len(b)
      /\ \A i \in 1..Len(front) + Len(b) :
            (front \o b)[i] = IF i <= Len(front) THEN front[i] ELSE b[i - Len(front)]
  BY <1>2, ConcatProperties
<1>4. SignedContent(a, t, b) = front \o b
  BY DEF SignedContent, front
<1> QED
  BY <1>2, <1>3, <1>4 DEF JoinedOf

\* A text has one division into an id of a given length, a timestamp and a body.
LEMMA DividedOnce ==
    ASSUME NEW P, NEW a \in Seq(P), NEW b \in Seq(P), NEW c \in Seq(P), NEW d \in Seq(P),
           NEW t \in P, NEW u \in P,
           SignedContent(a, t, b) = SignedContent(c, u, d), Len(a) = Len(c)
    PROVE  a = c /\ t = u /\ b = d
<1> DEFINE text == SignedContent(a, t, b)
           n == Len(a)
<1>1. JoinedOf(text, a, t, b) /\ JoinedOf(text, c, u, d)
  BY JoinedPieces
<1>2. /\ Len(text) = n + 1 + Len(b) /\ Len(text) = n + 1 + Len(d)
      /\ \A i \in 1..n : text[i] = a[i] /\ text[i] = c[i]
      /\ text[n + 1] = t /\ text[n + 1] = u
      /\ \A i \in 1..Len(b) : text[n + 1 + i] = b[i]
      /\ \A i \in 1..Len(d) : text[n + 1 + i] = d[i]
  BY <1>1 DEF JoinedOf
<1>3. n \in Nat /\ Len(b) \in Nat /\ Len(d) \in Nat /\ n = Len(c)
  OBVIOUS
<1> HIDE DEF text, n
<1>4. t = u /\ Len(b) = Len(d)
  BY <1>2, <1>3
<1>5. a = c
  BY <1>2, <1>3, SeqEqual DEF n
<1>6. b = d
  BY <1>2, <1>3, <1>4, SeqEqual
<1> QED
  BY <1>4, <1>5, <1>6

-----------------------------------------------------------------------------
(***************************************************************************)
(* One request.                                                            *)
(***************************************************************************)
\* What was signed.
SentSigned ==
    \E secrets \in SecretLists, id \in Ids, ts \in Stamps, body \in Bodies :
        sent = Signed(secrets, id, ts, body)

\* A verdict is what the check of the request as it arrived comes to.
Passes == Complete /\ request.body \notin TooLong /\ Authentic(known, request, clock)

PassesUntimed == Verify(known, request.id, request.ts, request.header, request.body)

VerdictEarned ==
    /\ Accepted => Passes
    /\ verdict = "untimed 0" => Complete /\ PassesUntimed
    /\ verdict \in {"unauthorized", "exit 1"} => ~Passes
    /\ verdict = "exit 2" => ~Complete
    /\ verdict = "exit 3" => request.body \in TooLong
    /\ verdict = "untimed 1" => ~PassesUntimed

RequestInv ==
    /\ SentSigned /\ request \in Arrivals
    /\ clock \in Times /\ tolerance \in Tolerances
    /\ VerdictEarned

Signatures(id, ts, body) == {Sign(secret, id, ts, body) : secret \in Secrets}

\* The header that is signed.
SentAs(secrets, id, ts, body) ==
    /\ sent.id = id /\ sent.ts = ts /\ sent.body = body
    /\ sent.header \in Seq(Signatures(id, ts, body)) /\ sent.header # <<>>
    /\ Len(sent.header) = Len(secrets)
    /\ \A j \in 1..Len(sent.header) : sent.header[j] = Sign(secrets[j], id, ts, body)

LEMMA SentHeader ==
    ASSUME NEW secrets \in SecretLists, NEW id, NEW ts, NEW body,
           sent = Signed(secrets, id, ts, body)
    PROVE  SentAs(secrets, id, ts, body)
<1> DEFINE n == Len(secrets)
           signatures == Signatures(id, ts, body)
<1>1. n \in {1, 2} /\ n \in Nat /\ \A i \in 1..n : secrets[i] \in Secrets
  BY DEF SecretLists
<1>2. /\ sent.id = id /\ sent.ts = ts /\ sent.body = body
      /\ sent.header = [i \in 1..n |-> Sign(secrets[i], id, ts, body)]
  BY DEF Signed, Request, SignAll
<1>3. \A i \in 1..n : Sign(secrets[i], id, ts, body) \in signatures
  BY <1>1 DEF Signatures
<1> HIDE DEF n, signatures
<1>4. sent.header \in Seq(signatures)
  BY <1>1, <1>2, <1>3
<1>5. Len(sent.header) = n
  BY <1>1, <1>2
<1>6. \A j \in 1..n : sent.header[j] = Sign(secrets[j], id, ts, body)
  BY <1>2
<1>7. sent.header # <<>>
  BY <1>1, <1>5
<1>8. \A j \in 1..Len(sent.header) : sent.header[j] = Sign(secrets[j], id, ts, body)
  BY <1>5, <1>6
<1> QED
  BY <1>2, <1>4, <1>5, <1>7, <1>8 DEF SentAs, n, signatures

\* A header of signatures, what is left of it or what is added to it, holds no
\* signature that was not in it.
LEMMA HeaderOnlyLoses ==
    ASSUME SentSigned, request \in Arrivals,
           NEW j \in 1..Len(request.header), request.header[j] # Malformed
    PROVE  \E k \in 1..Len(sent.header) : request.header[j] = sent.header[k]
<1>1. PICK secrets \in SecretLists, id \in Ids, ts \in Stamps, body \in Bodies :
          sent = Signed(secrets, id, ts, body)
  BY DEF SentSigned
<1> DEFINE header == sent.header
           signatures == Signatures(id, ts, body)
<1>2. header \in Seq(signatures) /\ header # <<>>
  BY <1>1, SentHeader DEF SentAs
<1> HIDE DEF header, signatures
<1>3. request.header \in {<<>>, <<header[1]>>, header, Append(header, Malformed)}
  BY DEF Arrivals, header
<1>4. CASE request.header = <<>>
  BY <1>4
<1>5. CASE request.header = <<header[1]>>
  BY <1>2, <1>5 DEF header
<1>6. CASE request.header = header
  BY <1>6 DEF header
<1>7. CASE request.header = Append(header, Malformed)
  <2>1. Len(request.header) = Len(header) + 1 /\ Len(header) \in Nat
    BY <1>2, <1>7
  <2>2. request.header[Len(header) + 1] = Malformed
    BY <1>2, <1>7
  <2>3. j \in 1..Len(header)
    BY <2>1, <2>2
  <2>4. request.header[j] = header[j]
    BY <1>2, <1>7, <2>3
  <2> QED
    BY <2>3, <2>4 DEF header
<1> QED
  BY <1>3, <1>4, <1>5, <1>6, <1>7

\* An entry that matches is one of the entries sent, and its content is the
\* content of what arrived.
LEMMA MatchedWasSent ==
    ASSUME SentSigned, request \in Arrivals, request.id # None, request.ts \in Stamps,
           PassesUntimed
    PROVE  /\ SharedSecret
           /\ Content(request) = Content(sent)
           /\ Len(request.id) = Len(sent.id) => [request EXCEPT !.header = sent.header] = sent
<1>1. PICK secrets \in SecretLists, id \in Ids, ts \in Stamps, body \in Bodies :
          sent = Signed(secrets, id, ts, body)
  BY DEF SentSigned
<1>2. PICK i \in 1..Len(known), j \in 1..Len(request.header) :
          /\ request.header[j] = Sign(known[i], request.id, request.ts, request.body)
          /\ request.header[j] # Malformed
  BY DEF PassesUntimed, Verify, Matches
<1>3. PICK k \in 1..Len(sent.header) : request.header[j] = sent.header[k]
  BY <1>2, HeaderOnlyLoses
<1>4. sent.header[k] = Sign(secrets[k], id, ts, body)
  BY <1>1, SentHeader DEF SentAs
<1>5. /\ SignedContent(request.id, request.ts, request.body) = SignedContent(id, ts, body)
      /\ sent.header[k].secret = known[i]
  <2>1. Sign(known[i], request.id, request.ts, request.body) = Sign(secrets[k], id, ts, body)
    BY <1>2, <1>3, <1>4
  <2>2. \A secret, i1, t1, b1 : /\ Sign(secret, i1, t1, b1).secret = secret
                              /\ Sign(secret, i1, t1, b1).content = SignedContent(i1, t1, b1)
    BY DEF Sign
  <2> QED
    BY <1>4, <2>1, <2>2
<1>6. SharedSecret
  BY <1>5 DEF SharedSecret
<1>7. sent.id = id /\ sent.ts = ts /\ sent.body = body
  BY <1>1 DEF Signed, Request
<1>8. Content(request) = Content(sent)
  BY <1>5, <1>7 DEF Content
<1>9. ASSUME Len(request.id) = Len(sent.id)
      PROVE  [request EXCEPT !.header = sent.header] = sent
  <2> DEFINE P == Pieces \cup Stamps
  <2>1. request.id \in Ids /\ request.body \in Bodies
    BY DEF Arrivals
  <2>2. id \in Seq(Pieces) /\ body \in Seq(Pieces)
        /\ request.id \in Seq(Pieces) /\ request.body \in Seq(Pieces)
    BY <2>1, TextAssumption
  <2>3. id \in Seq(P) /\ body \in Seq(P) /\ request.id \in Seq(P) /\ request.body \in Seq(P)
    BY <2>2
  <2>4. ts \in P /\ request.ts \in P
    OBVIOUS
  <2> HIDE DEF P
  <2>5. request.id = id /\ request.ts = ts /\ request.body = body
    BY <1>5, <1>7, <1>9, <2>3, <2>4, DividedOnce
  <2> QED
    BY <1>1, <2>5 DEF Signed, Request, Arrivals
<1> QED
  BY <1>6, <1>8, <1>9

\* A request that arrives as it was signed, with a secret the receiver knows.
LEMMA IntactPasses ==
    ASSUME RequestInv, request = sent, sent.body \notin TooLong, SharedSecret, InTime
    PROVE  Complete /\ PassesUntimed /\ Passes
<1>1. PICK secrets \in SecretLists, id \in Ids, ts \in Stamps, body \in Bodies :
          sent = Signed(secrets, id, ts, body)
  BY DEF RequestInv, SentSigned
<1>2. SentAs(secrets, id, ts, body)
  BY <1>1, SentHeader
<1>3. sent.id = id /\ sent.ts = ts /\ sent.body = body /\ sent.header # <<>>
  BY <1>2 DEF SentAs
<1>4. Complete
  BY <1>3, HeaderAssumption DEF Complete
<1>5. PassesUntimed
  <2>1. \A j \in 1..Len(sent.header) : sent.header[j] = Sign(secrets[j], id, ts, body)
    BY <1>2 DEF SentAs
  <2>2. \A j \in 1..Len(sent.header) : sent.header[j] # Malformed
    <3>1. \A secret : Sign(secret, id, ts, body).mac # Malformed.mac
      BY DEF Sign, Malformed
    <3> QED
      BY <2>1, <3>1
  <2>3. PICK i \in 1..Len(known), j \in 1..Len(sent.header) :
            sent.header[j].secret = known[i]
    BY DEF SharedSecret
  <2>4. sent.header[j] = Sign(known[i], id, ts, body)
    <3>1. \A secret : Sign(secret, id, ts, body).secret = secret
      BY DEF Sign
    <3> QED
      BY <2>1, <2>3, <3>1
  <2>5. Matches(known, request.id, request.ts, request.header, request.body)
    BY <1>3, <2>4 DEF Matches
  <2> QED
    BY <1>3, <2>2, <2>5 DEF PassesUntimed, Verify
<1>6. Skew(clock, request.ts) <= Tolerance(tolerance)
  <2>1. clock \in Int /\ request.ts \in Int /\ tolerance \in -MaxInt - 1..MaxInt
    BY <1>3, RangeAssumption, IntAssumption DEF RequestInv
  <2>2. Tolerance(tolerance) \in 0..MaxInt
    BY <2>1, IntAssumption DEF Tolerance
  <2>3. clock - request.ts \in -MaxInt..MaxInt
    BY <2>1, <2>2, IntAssumption DEF InTime, Distance
  <2> QED
    BY <2>1, <2>3, SkewIsDistance DEF InTime
<1> QED
  BY <1>4, <1>5, <1>6 DEF Passes, PassesUntimed, Authentic, VerifyAt

LEMMA RequestSuffices ==
    ASSUME RequestInv
    PROVE  AcceptedWasSent /\ SentIsAccepted
<1>1. ASSUME Accepted \/ verdict = "untimed 0"
      PROVE  /\ SharedSecret
             /\ Content(request) = Content(sent)
             /\ Len(request.id) = Len(sent.id) => [request EXCEPT !.header = sent.header] = sent
             /\ verdict # "untimed 0" => InTime \/ Overflows
  <2>1. PassesUntimed /\ Complete
    BY <1>1 DEF RequestInv, VerdictEarned, Passes, PassesUntimed, Authentic, VerifyAt
  <2>2. request.id # None /\ request.ts \in Stamps /\ clock \in Times
    BY <2>1 DEF RequestInv, Complete, Arrivals
  <2>3. ASSUME verdict # "untimed 0" PROVE InTime \/ Overflows
    <3>1. Skew(clock, request.ts) <= Tolerance(tolerance)
      BY <1>1, <2>3 DEF RequestInv, VerdictEarned, Passes, Authentic, VerifyAt
    <3>2. clock \in Int /\ request.ts \in Int /\ MaxInt \in Nat
      BY <2>2, StampsAreIntegers, IntAssumption
    <3>3. ASSUME ~Overflows PROVE InTime
      <4>1. clock - request.ts \in -MaxInt..MaxInt
        BY <3>2, <3>3, IntAssumption DEF Overflows, Distance
      <4> QED
        BY <3>1, <3>2, <4>1, SkewIsDistance DEF InTime
    <3> QED
      BY <3>3
  <2> QED
    BY <2>1, <2>2, <2>3, MatchedWasSent DEF RequestInv
<1>2. ASSUME request = sent, sent.body \notin TooLong, SharedSecret, InTime
      PROVE  verdict \notin {"unauthorized", "exit 1", "exit 2", "exit 3", "untimed 1"}
  <2>1. Complete /\ PassesUntimed /\ Passes
    BY <1>2, IntactPasses
  <2> QED
    BY <1>2, <2>1 DEF RequestInv, VerdictEarned
<1> QED
  BY <1>1, <1>2 DEF AcceptedWasSent, SentIsAccepted

LEMMA ArriveKeepsRequestInv ==
    ASSUME RequestInv, Arrive
    PROVE  RequestInv'
<1>1. /\ SentSigned' /\ clock' \in Times /\ tolerance' \in Tolerances
      /\ verdict' = "none" /\ sent' = sent
  BY DEF Arrive, RequestInv, SentSigned
<1>2. sent \in Arrivals
  BY DEF Arrive, RequestInv
<1>3. request' \in Arrivals
  BY <1>2 DEF Arrive
<1>4. (request \in Arrivals)'
  BY <1>1, <1>3 DEF Arrivals
<1> QED
  BY <1>1, <1>4 DEF RequestInv, VerdictEarned, Accepted

LEMMA CheckKeepsRequestInv ==
    ASSUME RequestInv, Handle \/ VerifyCommand \/ VerifyUntimed
    PROVE  RequestInv'
<1>1. UNCHANGED <<sent, request, known, tolerance, clock>>
  BY DEF Handle, VerifyCommand, VerifyUntimed
<1>2. /\ SentSigned' /\ (request \in Arrivals)' /\ clock' \in Times /\ tolerance' \in Tolerances
      /\ Passes' = Passes /\ PassesUntimed' = PassesUntimed /\ Complete' = Complete
  BY <1>1 DEF RequestInv, SentSigned, Arrivals, Passes, PassesUntimed, Complete, Authentic
<1>3. VerdictEarned'
  <2>1. CASE Handle
    BY <1>1, <1>2, <2>1 DEF Handle, VerdictEarned, Accepted, Passes
  <2>2. CASE VerifyCommand
    BY <1>1, <1>2, <2>2 DEF VerifyCommand, VerdictEarned, Accepted, Passes
  <2>3. CASE VerifyUntimed
    BY <1>1, <1>2, <2>3 DEF VerifyUntimed, VerdictEarned, Accepted, PassesUntimed
  <2> QED
    BY <2>1, <2>2, <2>3
<1> QED
  BY <1>2, <1>3 DEF RequestInv

LEMMA ReceiverIInv == ReceiverSpec => []RequestInv
<1>1. ReceiverInit => RequestInv
  <2> SUFFICES ASSUME ReceiverInit PROVE RequestInv
    OBVIOUS
  <2>1. SentSigned
    BY DEF ReceiverInit, SentSigned
  <2>2. request \in Arrivals
    BY DEF ReceiverInit, Arrivals, Signed, Request
  <2> QED
    BY <2>1, <2>2 DEF ReceiverInit, RequestInv, VerdictEarned, Accepted
<1>2. RequestInv /\ [ReceiverNext]_receiverVars => RequestInv'
  <2> SUFFICES ASSUME RequestInv, [ReceiverNext]_receiverVars PROVE RequestInv'
    OBVIOUS
  <2>1. CASE UNCHANGED receiverVars
    BY <2>1 DEF receiverVars, RequestInv, SentSigned, Arrivals, VerdictEarned, Accepted,
                Passes, PassesUntimed, Complete, Authentic
  <2> QED
    BY <2>1, ArriveKeepsRequestInv, CheckKeepsRequestInv DEF ReceiverNext
<1> QED
  BY <1>1, <1>2, PTL DEF ReceiverSpec

(***************************************************************************)
(* Whatever secrets, ids, bodies, tolerances and times there are, and      *)
(* whichever id, timestamp and body arrive with the signatures that were   *)
(* made: the handler and the verify command accept only the content that   *)
(* was signed, the same request unless the id has fewer or more dots, and  *)
(* in time unless the distance overflows; and all of that which arrives as *)
(* it was signed.                                                          *)
(***************************************************************************)
THEOREM ReceiverJudgesRightly ==
    ReceiverSpec => [](AcceptedWasSent /\ SentIsAccepted)
<1>1. RequestInv => AcceptedWasSent /\ SentIsAccepted
  BY RequestSuffices
<1> QED
  BY <1>1, ReceiverIInv, PTL

-----------------------------------------------------------------------------
(***************************************************************************)
(* The rotation.                                                           *)
(***************************************************************************)
\* The receiver's own secret is one the endpoint has; the operator saw last the
\* newest one, or, after a rotation that was not printed, the receiver's.
RotationInv ==
    /\ "endpoints" \in DOMAIN st /\ DOMAIN st.endpoints = {Name}
    /\ EndpointSecrets \in SecretLists /\ known \in SecretLists
    /\ printed \in Secrets
    /\ ReceiverCovered
    /\ unprinted => known[1] = printed
    /\ ~unprinted => EndpointSecrets[1] = printed

\* A run signs with the secrets the endpoint has.
RunInv ==
    /\ held # <<>> => held = EndpointSecrets
    /\ held # <<>> /\ UnderWay => sent = Signed(held, Id, SentAt, Body)

ClockInv ==
    /\ offset \in Offsets /\ delays \in 0..MaxDelays
    /\ \E delay \in 0..delays : clock = SentAt + offset + delay
    /\ tolerance \in Tolerances

IInv ==
    /\ RotationInv /\ RunInv /\ ClockInv
    /\ IF UnderWay THEN RequestInv ELSE verdict = "none"

LEMMA InitIInv == Init => IInv
<1> SUFFICES ASSUME Init PROVE IInv
  OBVIOUS
<1>1. st = Store!Apply(Store!NewStore, Store!EndpointAddRec(Name, First))
  BY DEF Init
<1>2. st = Store!ApplyEndpointAdd(Store!NewStore, Store!EndpointAddRec(Name, First))
  BY <1>1 DEF Store!Apply, Store!EndpointAddRec
<1>3. "endpoints" \in DOMAIN st /\ st.endpoints = Store!Put(<<>>, Name, <<First>>)
  BY <1>2 DEF Store!ApplyEndpointAdd, Store!EndpointAddRec, Store!NewStore
<1>4. DOMAIN st.endpoints = {Name} /\ EndpointSecrets = <<First>>
  BY <1>3 DEF Store!Put, EndpointSecrets
<1>5. RotationInv
  <2>1. EndpointSecrets \in SecretLists /\ known \in SecretLists
    BY <1>4, MessageAssumption DEF Init, SecretLists
  <2>2. ReceiverCovered
    BY <1>4 DEF Init, ReceiverCovered, ToSet
  <2>3. EndpointSecrets[1] = printed /\ printed \in Secrets /\ ~unprinted
    BY <1>4, MessageAssumption DEF Init
  <2> QED
    BY ONLY <1>3, <1>4, <2>1, <2>2, <2>3 DEF RotationInv
<1>6. ClockInv
  <2>1. offset \in Int /\ SentAt \in Int /\ delays = 0 /\ 0 \in 0..MaxDelays /\ 0 \in 0..delays
    BY ClockAssumption, StampsAreIntegers DEF Init
  <2>2. clock = SentAt + offset + 0
    BY <2>1 DEF Init
  <2> QED
    BY <2>1, <2>2 DEF Init, ClockInv
<1> QED
  BY <1>5, <1>6 DEF Init, IInv, RunInv, UnderWay

\* What a request's invariant says while the request and its check stay.
LEMMA RequestUnchanged ==
    ASSUME RequestInv, UNCHANGED <<sent, request, known, tolerance, verdict>>, clock' \in Times,
           clock' = clock \/ verdict = "none"
    PROVE  RequestInv'
<1>1. SentSigned' /\ (request \in Arrivals)'
  BY DEF RequestInv, SentSigned, Arrivals
<1>2. VerdictEarned'
  <2>1. CASE clock' = clock
    BY <2>1 DEF RequestInv, VerdictEarned, Accepted, Passes, PassesUntimed, Complete, Authentic
  <2>2. CASE verdict = "none"
    BY <2>2 DEF VerdictEarned, Accepted
  <2> QED
    BY <2>1, <2>2
<1> QED
  BY <1>1, <1>2 DEF RequestInv

LEMMA ClockReads == ClockInv => clock \in Times
<1> SUFFICES ASSUME ClockInv PROVE clock \in Times
  OBVIOUS
<1>1. PICK delay \in 0..delays : clock = SentAt + offset + delay
  BY DEF ClockInv
<1>2. delays \in 0..MaxDelays /\ offset \in Offsets
  BY DEF ClockInv
<1>3. delay \in 0..MaxDelays
  BY <1>1, <1>2, ClockAssumption
<1> QED
  BY <1>1, <1>2, <1>3, ClockAssumption

\* An endpoint keeps its two newest secrets.
LEMMA TwoLong ==
    ASSUME NEW X, NEW list \in Seq(X), Len(list) = 2
    PROVE  list = <<list[1], list[2]>>
OBVIOUS

LEMMA FirstTwo ==
    ASSUME NEW X, NEW list \in Seq(X), Len(list) = 3
    PROVE  SubSeq(list, 1, 2) = <<list[1], list[2]>>
<1>1. SubSeq(list, 1, 2) \in Seq(X)
  OBVIOUS
<1>2. Len(SubSeq(list, 1, 2)) = 2
  OBVIOUS
<1>3. SubSeq(list, 1, 2)[1] = list[1] /\ SubSeq(list, 1, 2)[2] = list[2]
  OBVIOUS
<1> QED
  BY <1>1, <1>2, <1>3, TwoLong

LEMMA TwoNewest ==
    ASSUME NEW secret \in Secrets, NEW secrets \in Seq(Secrets), Len(secrets) \in {1, 2}
    PROVE  LET longer == <<secret>> \o secrets
           IN  (IF Len(longer) > 2 THEN SubSeq(longer, 1, 2) ELSE longer) = <<secret, secrets[1]>>
<1> DEFINE longer == <<secret>> \o secrets
<1>1. <<secret>> \in Seq(Secrets) /\ Len(<<secret>>) = 1 /\ <<secret>>[1] = secret
  OBVIOUS
<1>2. longer \in Seq(Secrets)
  BY <1>1, ConcatProperties
<1>3. Len(longer) = 1 + Len(secrets)
  BY <1>1, ConcatProperties
<1>4. longer[1] = secret
  BY <1>1
<1>5. longer[2] = secrets[1]
  BY <1>1
<1> HIDE DEF longer
<1>6. CASE Len(secrets) = 1
  <2>1. Len(longer) = 2
    BY <1>3, <1>6
  <2>2. longer = <<longer[1], longer[2]>>
    BY <1>2, <2>1, TwoLong
  <2> QED
    BY <1>4, <1>5, <2>1, <2>2 DEF longer
<1>7. CASE Len(secrets) = 2
  <2>1. Len(longer) = 3
    BY <1>3, <1>7
  <2>2. SubSeq(longer, 1, 2) = <<longer[1], longer[2]>>
    BY <1>2, <2>1, FirstTwo
  <2>3. (IF Len(longer) > 2 THEN SubSeq(longer, 1, 2) ELSE longer) = <<secret, secrets[1]>>
    BY <1>4, <1>5, <2>1, <2>2
  <2> QED
    BY <2>3 DEF longer
<1> QED
  BY <1>6, <1>7

LEMMA SecretListsAreSequences ==
    ASSUME NEW secrets \in SecretLists
    PROVE  secrets \in Seq(Secrets) /\ Len(secrets) \in {1, 2} /\ secrets[1] \in Secrets
<1>1. \A a \in Secrets : <<a>> \in Seq(Secrets) /\ Len(<<a>>) = 1 /\ <<a>>[1] = a
  OBVIOUS
<1>2. \A a \in Secrets, b \in Secrets :
          <<a, b>> \in Seq(Secrets) /\ Len(<<a, b>>) = 2 /\ <<a, b>>[1] = a
  OBVIOUS
<1>3. CASE \E a \in Secrets : secrets = <<a>>
  BY <1>1, <1>3
<1>4. CASE \E a \in Secrets, b \in Secrets : secrets = <<a, b>>
  <2>1. PICK a \in Secrets, b \in Secrets : secrets = <<a, b>>
    BY <1>4
  <2> QED
    BY <1>2, <2>1
<1> QED
  BY <1>3, <1>4 DEF SecretLists

LEMMA RotateApplied ==
    ASSUME RotationInv, NEW secret \in Secrets,
           st' = Store!Apply(st, Store!EndpointRotateRec(Name, secret))
    PROVE  /\ "endpoints" \in DOMAIN st' /\ DOMAIN st'.endpoints = {Name}
           /\ EndpointSecrets' = <<secret, EndpointSecrets[1]>>
           /\ EndpointSecrets' \in SecretLists
<1> DEFINE longer == <<secret>> \o st.endpoints[Name]
           kept == IF Len(longer) > 2 THEN SubSeq(longer, 1, 2) ELSE longer
<1>1. st' = Store!ApplyEndpointRotate(st, Store!EndpointRotateRec(Name, secret))
  BY DEF Store!Apply, Store!EndpointRotateRec
<1>2. st' = [st EXCEPT !.endpoints = [st.endpoints EXCEPT ![Name] = kept]]
  BY <1>1 DEF Store!ApplyEndpointRotate, Store!EndpointRotateRec, Store!MaxSecrets
<1>3. kept = <<secret, EndpointSecrets[1]>>
  BY TwoNewest, SecretListsAreSequences DEF RotationInv, EndpointSecrets
<1> HIDE DEF kept
<1>4. "endpoints" \in DOMAIN st /\ DOMAIN st.endpoints = {Name} /\ EndpointSecrets[1] \in Secrets
  BY DEF RotationInv, SecretLists
<1>5. "endpoints" \in DOMAIN st' /\ st'.endpoints = [st.endpoints EXCEPT ![Name] = kept]
  BY <1>2, <1>4
<1>6. DOMAIN st'.endpoints = {Name} /\ EndpointSecrets' = kept
  BY <1>4, <1>5 DEF EndpointSecrets
<1>7. <<secret, EndpointSecrets[1]>> \in SecretLists
  BY <1>4 DEF SecretLists
<1> QED
  BY <1>3, <1>5, <1>6, <1>7

LEMMA RotateKeepsIInv ==
    ASSUME IInv, NEW secret \in Secrets, Rotate(secret) \/ RotateUnprinted(secret)
    PROVE  IInv'
<1>1. /\ RotateRecord(secret)
      /\ \/ printed' = secret /\ UNCHANGED unprinted
         \/ unprinted' = TRUE /\ UNCHANGED printed
  BY DEF Rotate, RotateUnprinted
<1>2. /\ held = <<>> /\ known[1] = printed /\ ~unprinted
      /\ UNCHANGED <<held, offset, sent, request, known, tolerance, clock, verdict, delays>>
      /\ st' = Store!Apply(st, Store!EndpointRotateRec(Name, secret))
  BY <1>1 DEF RotateRecord, Switched, receiverVars, bounded
<1>3. /\ EndpointSecrets[1] = printed /\ known \in SecretLists /\ printed \in Secrets
  BY <1>2 DEF IInv, RotationInv
<1>4. /\ "endpoints" \in DOMAIN st' /\ DOMAIN st'.endpoints = {Name}
      /\ EndpointSecrets' = <<secret, printed>> /\ EndpointSecrets' \in SecretLists
  BY <1>2, <1>3, RotateApplied DEF IInv
<1>5. EndpointSecrets'[1] = secret /\ EndpointSecrets'[2] = printed /\ 2 \in DOMAIN EndpointSecrets'
  BY <1>4
<1>6. ReceiverCovered'
  BY <1>2, <1>5 DEF ReceiverCovered, ToSet
<1>7. RotationInv'
  <2>1. CASE printed' = secret /\ UNCHANGED unprinted
    BY <1>2, <1>3, <1>4, <1>5, <1>6, <2>1 DEF RotationInv
  <2>2. CASE unprinted' = TRUE /\ UNCHANGED printed
    BY <1>2, <1>3, <1>4, <1>5, <1>6, <2>2 DEF RotationInv
  <2> QED
    BY <1>1, <2>1, <2>2
<1>8. RunInv' /\ ClockInv' /\ UnderWay' = UnderWay
  BY <1>2 DEF IInv, RunInv, ClockInv, UnderWay
<1>9. IF UnderWay' THEN RequestInv' ELSE verdict' = "none"
  BY <1>2, <1>8, RequestUnchanged, ClockReads DEF IInv
<1> QED
  BY <1>7, <1>8, <1>9 DEF IInv

\* The endpoint's secrets stay, and so do a run's.
LEMMA ReceiverSwitchKeepsIInv ==
    ASSUME IInv, ListSecrets \/ Switch
    PROVE  IInv'
<1>1. /\ UNCHANGED <<st, held, offset, delays, sent, request, tolerance, clock, verdict>>
      /\ EndpointSecrets' = EndpointSecrets /\ UnderWay' = UnderWay
  BY DEF ListSecrets, Switch, operatorVars, receiverVars, bounded, EndpointSecrets, UnderWay
<1>2. /\ EndpointSecrets \in SecretLists /\ EndpointSecrets[1] \in Secrets
      /\ 1 \in DOMAIN EndpointSecrets
  BY SecretListsAreSequences DEF IInv, RotationInv
<1>3. RunInv' /\ ClockInv'
  BY <1>1 DEF IInv, RunInv, ClockInv
<1>4. CASE ListSecrets
  <2>1. /\ unprinted /\ printed' = EndpointSecrets[1] /\ ~unprinted' /\ known' = known
    BY <1>4 DEF ListSecrets, receiverVars
  <2>2. RotationInv'
    BY <1>1, <1>2, <2>1 DEF IInv, RotationInv, ReceiverCovered
  <2>3. IF UnderWay' THEN RequestInv' ELSE verdict' = "none"
    BY <1>1, <2>1, RequestUnchanged, ClockReads DEF IInv
  <2> QED
    BY <1>3, <2>2, <2>3 DEF IInv
<1>5. CASE Switch
  <2>1. /\ known[1] # printed /\ verdict = "none" /\ UNCHANGED <<printed, unprinted>>
        /\ known' \in {<<printed>>, <<printed, known[1]>>}
    BY <1>5 DEF Switch, Switched, operatorVars
  <2>2. known[1] \in Secrets /\ printed \in Secrets /\ printed = EndpointSecrets[1]
    BY <2>1, SecretListsAreSequences DEF IInv, RotationInv
  <2>3. known' \in SecretLists /\ known'[1] = printed
    BY <2>1, <2>2 DEF SecretLists
  <2>4. RotationInv'
    <3>1. known'[1] \in ToSet(EndpointSecrets)
      BY <1>2, <2>2, <2>3 DEF ToSet
    <3> QED
      BY <1>1, <2>1, <2>2, <2>3, <3>1 DEF IInv, RotationInv, ReceiverCovered
  <2>5. ASSUME UnderWay PROVE RequestInv'
    <3>1. (SentSigned /\ request \in Arrivals)' /\ clock' \in Times /\ tolerance' \in Tolerances
      BY <1>1, <2>5 DEF IInv, RequestInv, SentSigned, Arrivals
    <3> QED
      BY <1>1, <2>1, <3>1 DEF RequestInv, VerdictEarned, Accepted
  <2> QED
    BY <1>1, <1>3, <2>1, <2>4, <2>5 DEF IInv
<1> QED
  BY <1>4, <1>5

LEMMA StartKeepsIInv ==
    ASSUME IInv, Start
    PROVE  IInv'
<1>1. /\ UNCHANGED <<operatorVars, offset, receiverVars, delays>>
      /\ ~UnderWay /\ held' = EndpointSecrets
  BY DEF Start, bounded
<1>2. /\ RotationInv' /\ ClockInv' /\ UnderWay' = UnderWay /\ EndpointSecrets' = EndpointSecrets
  BY <1>1 DEF IInv, RotationInv, ReceiverCovered, EndpointSecrets, ClockInv, UnderWay,
              operatorVars, receiverVars
<1> QED
  BY <1>1, <1>2 DEF IInv, RunInv, receiverVars

LEMMA SendKeepsIInv ==
    ASSUME IInv, Send
    PROVE  IInv'
<1>1. /\ held # <<>> /\ ~UnderWay
      /\ sent' = Signed(held, Id, SentAt, Body) /\ request' = sent'
      /\ UNCHANGED <<operatorVars, held, offset, delays, known, tolerance, clock, verdict>>
  BY DEF Send, bounded
<1>2. held \in SecretLists /\ held = EndpointSecrets /\ verdict = "none"
  BY <1>1 DEF IInv, RunInv, RotationInv
<1>3. RotationInv' /\ ClockInv' /\ EndpointSecrets' = EndpointSecrets
  BY <1>1 DEF IInv, RotationInv, ReceiverCovered, EndpointSecrets, ClockInv, operatorVars
<1>4. RequestInv'
  <2>1. SentSigned'
    BY <1>1, <1>2, MessageAssumption, ClockAssumption DEF SentSigned
  <2>2. (request \in Arrivals)'
    BY <1>1, MessageAssumption, ClockAssumption DEF Arrivals, Signed, Request
  <2>3. clock' \in Times /\ tolerance' \in Tolerances
    BY <1>1, ClockReads DEF IInv, ClockInv
  <2> QED
    BY <1>1, <1>2, <2>1, <2>2, <2>3 DEF RequestInv, VerdictEarned, Accepted
<1>5. UnderWay'
  <2>1. sent'.header # <<>>
    BY <1>1, <1>2, SentHeader, SecretListsAreSequences DEF Signed, Request, SignAll
  <2> QED
    BY <2>1 DEF UnderWay, NoRequest, Request
<1> QED
  BY <1>1, <1>2, <1>3, <1>4, <1>5 DEF IInv, RunInv

LEMMA DelayKeepsIInv ==
    ASSUME IInv, Delay
    PROVE  IInv'
<1>1. /\ UnderWay /\ verdict = "none" /\ delays < MaxDelays /\ delays' = delays + 1
      /\ clock' = clock + 1
      /\ UNCHANGED <<operatorVars, held, offset, sent, request, known, tolerance, verdict>>
  BY DEF Delay
<1>2. /\ RotationInv' /\ RunInv' /\ UnderWay' = UnderWay
  BY <1>1 DEF IInv, RotationInv, ReceiverCovered, EndpointSecrets, RunInv, UnderWay, operatorVars
<1>3. PICK delay \in 0..delays : clock = SentAt + offset + delay
  BY DEF IInv, ClockInv
<1>4. ClockInv' /\ clock' \in Times
  <2>1. /\ offset \in Offsets /\ delays \in 0..MaxDelays /\ tolerance \in Tolerances
        /\ offset \in Int /\ SentAt \in Int
    BY ClockAssumption, StampsAreIntegers DEF IInv, ClockInv
  <2>2. /\ delay + 1 \in 0..delays' /\ delay + 1 \in 0..MaxDelays
        /\ delays' \in 0..MaxDelays
    BY <1>1, <1>3, <2>1, ClockAssumption
  <2>3. clock' = SentAt + offset + (delay + 1)
    BY <1>1, <1>3, <2>1, ClockAssumption
  <2> QED
    BY <1>1, <2>1, <2>2, <2>3, ClockAssumption DEF ClockInv
<1>5. RequestInv'
  BY <1>1, <1>4, RequestUnchanged DEF IInv
<1> QED
  BY <1>1, <1>2, <1>4, <1>5 DEF IInv

LEMMA ChangeKeepsIInv ==
    ASSUME IInv, Change
    PROVE  IInv'
<1>1. /\ UnderWay /\ Arrive
      /\ UNCHANGED <<operatorVars, held, offset, delays, sent, known, tolerance, clock>>
  BY DEF Change, Arrive
<1>2. /\ RotationInv' /\ RunInv' /\ ClockInv' /\ UnderWay' = UnderWay
  BY <1>1 DEF IInv, RotationInv, ReceiverCovered, EndpointSecrets, RunInv, ClockInv, UnderWay,
              operatorVars
<1>3. RequestInv'
  BY <1>1, ArriveKeepsRequestInv DEF IInv
<1> QED
  BY <1>1, <1>2, <1>3 DEF IInv

LEMMA CheckKeepsIInv ==
    ASSUME IInv, Check
    PROVE  IInv'
<1>1. /\ UnderWay
      /\ Handle \/ VerifyCommand \/ VerifyUntimed
      /\ UNCHANGED <<operatorVars, held, offset, delays, sent, known, tolerance, clock>>
  BY DEF Check, Handle, VerifyCommand, VerifyUntimed, bounded
<1>2. /\ RotationInv' /\ RunInv' /\ ClockInv' /\ UnderWay' = UnderWay
  BY <1>1 DEF IInv, RotationInv, ReceiverCovered, EndpointSecrets, RunInv, ClockInv, UnderWay,
              operatorVars
<1>3. RequestInv'
  BY <1>1, CheckKeepsRequestInv DEF IInv
<1> QED
  BY <1>1, <1>2, <1>3 DEF IInv

LEMMA RecordKeepsIInv ==
    ASSUME IInv, Record
    PROVE  IInv'
<1>1. /\ held' = <<>> /\ sent' = NoRequest /\ verdict' = "none" /\ clock' = SentAt + offset
      /\ UNCHANGED <<operatorVars, offset, known, tolerance, delays>>
  BY DEF Record, bounded
<1>2. RotationInv'
  BY <1>1 DEF IInv, RotationInv, ReceiverCovered, EndpointSecrets, operatorVars
<1>3. ClockInv'
  <2>1. /\ offset \in Offsets /\ delays \in 0..MaxDelays /\ tolerance \in Tolerances
        /\ offset \in Int /\ SentAt \in Int
    BY ClockAssumption, StampsAreIntegers DEF IInv, ClockInv
  <2>2. clock' = SentAt + offset + 0 /\ 0 \in 0..delays
    BY <1>1, <2>1, ClockAssumption
  <2> QED
    BY <1>1, <2>1, <2>2 DEF ClockInv
<1> QED
  BY <1>1, <1>2, <1>3 DEF IInv, RunInv, UnderWay

LEMMA KillKeepsIInv ==
    ASSUME IInv, Kill
    PROVE  IInv'
<1>1. held' = <<>> /\ UNCHANGED <<operatorVars, offset, receiverVars, delays>>
  BY DEF Kill
<1>2. /\ RotationInv' /\ ClockInv' /\ UnderWay' = UnderWay
  BY <1>1 DEF IInv, RotationInv, ReceiverCovered, EndpointSecrets, ClockInv, UnderWay,
              operatorVars, receiverVars
<1>3. IF UnderWay' THEN RequestInv' ELSE verdict' = "none"
  BY <1>1, <1>2, RequestUnchanged, ClockReads DEF IInv, receiverVars
<1> QED
  BY <1>1, <1>2, <1>3 DEF IInv, RunInv

LEMMA IInvHolds == Spec => []IInv
<1>1. IInv /\ [Next]_vars => IInv'
  <2> SUFFICES ASSUME IInv, [Next]_vars PROVE IInv'
    OBVIOUS
  <2>1. CASE UNCHANGED vars
    <3>1. UNCHANGED <<operatorVars, held, offset, receiverVars, delays>>
      BY <2>1 DEF vars, bounded
    <3>2. /\ RotationInv' /\ RunInv' /\ ClockInv' /\ UnderWay' = UnderWay
      BY <3>1 DEF IInv, RotationInv, ReceiverCovered, EndpointSecrets, RunInv, ClockInv,
                  UnderWay, operatorVars, receiverVars
    <3>3. IF UnderWay' THEN RequestInv' ELSE verdict' = "none"
      BY <3>1, <3>2, RequestUnchanged, ClockReads DEF IInv, receiverVars
    <3> QED
      BY <3>2, <3>3 DEF IInv
  <2>2. CASE \E secret \in Secrets : Rotate(secret) \/ RotateUnprinted(secret)
    BY <2>2, RotateKeepsIInv
  <2>3. CASE ListSecrets \/ Switch \/ Start \/ Send \/ Delay
    BY <2>3, ReceiverSwitchKeepsIInv, StartKeepsIInv, SendKeepsIInv, DelayKeepsIInv
  <2>4. CASE Change \/ Check \/ Record \/ Kill
    BY <2>4, ChangeKeepsIInv, CheckKeepsIInv, RecordKeepsIInv, KillKeepsIInv
  <2> QED
    BY <2>1, <2>2, <2>3, <2>4 DEF Next
<1> QED
  BY <1>1, InitIInv, PTL DEF Spec

(***************************************************************************)
(* However often a secret is rotated, whatever rotations end before they   *)
(* are printed and whenever the receiver is switched: it knows a secret    *)
(* that the endpoint signs with.                                           *)
(***************************************************************************)
THEOREM ReceiverAlwaysCovered == Spec => []ReceiverCovered
  BY IInvHolds, PTL DEF IInv, RotationInv

\* Without a request under way there is no verdict.
LEMMA NothingIsJudgedUnderNone ==
    IInv /\ ~UnderWay => AcceptedWasSent /\ SentIsAccepted
BY DEF IInv, AcceptedWasSent, SentIsAccepted, Accepted

(***************************************************************************)
(* The receiver's judgement of one request holds of every request of a     *)
(* rotation, with secrets that change under way and requests that a killed *)
(* run left behind.                                                        *)
(***************************************************************************)
THEOREM AcceptedAlwaysSent == Spec => []AcceptedWasSent
<1>1. IInv => AcceptedWasSent
  BY RequestSuffices, NothingIsJudgedUnderNone DEF IInv
<1> QED
  BY <1>1, IInvHolds, PTL

(***************************************************************************)
(* What arrives as it was signed, in time and with a secret the receiver   *)
(* has by then, is accepted.                                               *)
(***************************************************************************)
THEOREM SentAlwaysAccepted == Spec => []SentIsAccepted
<1>1. IInv => SentIsAccepted
  BY RequestSuffices, NothingIsJudgedUnderNone DEF IInv
<1> QED
  BY <1>1, IInvHolds, PTL

(***************************************************************************)
(* A rotation costs no attempt: a run's request is signed with a secret    *)
(* that its receiver knows at the check, so only what came late, changed,  *)
(* or from a run that was killed is refused.                               *)
(***************************************************************************)
THEOREM RefusalsExplained == Spec => []RefusalExplained
<1>1. IInv => RefusalExplained
  <2> SUFFICES ASSUME IInv, Refused, request = sent, held # <<>>, InTime PROVE FALSE
    BY DEF RefusalExplained
  <2>1. UnderWay /\ RequestInv
    BY DEF IInv, Refused
  <2>2. /\ sent = Signed(held, Id, SentAt, Body) /\ held = EndpointSecrets
        /\ held \in SecretLists /\ ReceiverCovered /\ known \in SecretLists
    BY <2>1 DEF IInv, RunInv, RotationInv
  <2>3. SentAs(held, Id, SentAt, Body)
    BY <2>2, SentHeader
  <2>4. SharedSecret
    <3>1. PICK j \in DOMAIN held : held[j] = known[1]
      BY <2>2 DEF ReceiverCovered, ToSet
    <3>2. j \in 1..Len(sent.header) /\ 1 \in 1..Len(known)
      BY <2>2, <2>3, <3>1, SecretListsAreSequences DEF SentAs
    <3>3. sent.header[j].secret = known[1]
      <4>1. sent.header[j] = Sign(held[j], Id, SentAt, Body)
        BY <2>3, <3>2 DEF SentAs
      <4> QED
        BY <3>1, <4>1 DEF Sign
    <3> QED
      BY <3>2, <3>3 DEF SharedSecret
  <2>5. sent.body \notin TooLong
    BY <2>3, MessageAssumption DEF SentAs
  <2>6. SentIsAccepted
    BY <2>1, RequestSuffices
  <2> QED
    BY <2>4, <2>5, <2>6 DEF SentIsAccepted, Refused
<1> QED
  BY <1>1, IInvHolds, PTL
=============================================================================
