----------------------------- MODULE MailProofs -----------------------------
(***************************************************************************)
(* Theorems about the mail system, for any number of users, clients and    *)
(* connections, with children killed while they write or not.              *)
(***************************************************************************)
EXTENDS MailInv, FiniteSetTheorems, SequenceTheorems, WellFoundedInduction, TLAPS

(***************************************************************************)
(* Lists: what Kept returns.                                               *)
(***************************************************************************)

\* A set of numbers that is not empty has a smallest.
LEMMA Smallest ==
  ASSUME NEW N \in SUBSET Nat, N # {}
  PROVE  \E m \in N : \A k \in N : m <= k
<1>1. IsWellFoundedOn(OpToRel(<, Nat), Nat)
  BY NatLessThanWellFounded
<1>2. PICK m \in N : \A k \in N : ~ (<<k, m>> \in OpToRel(<, Nat))
  BY <1>1, WFMin
<1>3. \A k \in N : ~ (k < m)
  BY <1>2 DEF OpToRel
<1> QED BY <1>3

\* e with m before it goes through U, m being below all other members of U.
LEMMA IncreasingFrom ==
  ASSUME NEW U \in SUBSET Nat, IsFiniteSet(U), NEW m \in U, \A k \in U : m <= k,
         NEW e, Increasing(e, U \ {m})
  PROVE  \E d : Increasing(d, U)
<1> DEFINE n == Cardinality(U)
           d == [i \in 1..n |-> IF i = 1 THEN m ELSE e[i - 1]]
<1>1. n \in Nat /\ Cardinality(U \ {m}) = n - 1
  BY FS_RemoveElement, FS_CardinalityType
<1> HIDE DEF n
<1>2. \A i \in 1..(n - 1) : e[i] \in U \ {m}
  BY <1>1 DEF Increasing
<1>3. \A i \in 2..n : i - 1 \in 1..(n - 1) /\ d[i] = e[i - 1]
  BY <1>1
<1>4. \A i \in 2..n : d[i] \in U /\ d[i] > m
  <2> TAKE i \in 2..n
  <2>1. d[i] \in U \ {m}
    BY <1>2, <1>3
  <2>2. d[i] \in Nat /\ m \in Nat /\ m <= d[i] /\ d[i] # m
    BY <2>1
  <2> QED BY <2>1, <2>2
<1>5. d \in [1..n -> U]
  <2>1. \A i \in 1..n : i = 1 \/ i \in 2..n
    BY <1>1
  <2>2. \A i \in 1..n : d[i] \in U
    BY <1>4, <2>1
  <2> QED BY <2>2
<1>6. ASSUME NEW i \in 1..n, NEW j \in 1..n, i < j
      PROVE  d[i] < d[j]
  <2>1. j \in 2..n
    BY <1>1, <1>6
  <2>2. CASE i = 1
    BY <1>4, <2>1, <2>2
  <2>3. CASE i # 1
    <3>1. i \in 2..n
      BY <1>1, <2>3
    <3>2. e[i - 1] < e[j - 1]
      <4>1. i - 1 \in 1..(n - 1) /\ j - 1 \in 1..(n - 1) /\ i - 1 < j - 1
        BY <1>1, <1>6, <2>1, <3>1
      <4> QED BY <1>1, <4>1 DEF Increasing
    <3> QED BY <1>3, <2>1, <3>1, <3>2
  <2> QED BY <2>2, <2>3
<1> QED BY <1>5, <1>6 DEF Increasing, n

\* The members of a finite set of numbers can be gone through in order.
LEMMA IncreasingExists ==
  ASSUME NEW U \in SUBSET Nat, IsFiniteSet(U)
  PROVE  \E e : Increasing(e, U)
<1> DEFINE Bad == { n \in Nat : \E V \in SUBSET Nat :
                      /\ IsFiniteSet(V) /\ Cardinality(V) = n
                      /\ ~ \E e : Increasing(e, V) }
<1>1. SUFFICES Bad = {}
  <2>1. Cardinality(U) \in Nat
    BY FS_CardinalityType
  <2> QED BY <1>1, <2>1
<1>2. SUFFICES ASSUME Bad # {} PROVE FALSE
  OBVIOUS
<1>3. PICK n \in Bad : \A k \in Bad : n <= k
  BY <1>2, Smallest
<1>4. PICK V \in SUBSET Nat : /\ IsFiniteSet(V) /\ Cardinality(V) = n
                              /\ ~ \E e : Increasing(e, V)
  BY <1>3
<1>5. V # {}
  <2> SUFFICES ASSUME V = {} PROVE FALSE
    OBVIOUS
  <2>1. Cardinality(V) = 0
    BY FS_EmptySet
  <2>2. Increasing([i \in {} |-> 0], V)
    BY <2>1 DEF Increasing
  <2> QED BY <1>4, <2>2
<1>6. PICK m \in V : \A k \in V : m <= k
  BY <1>5, Smallest
<1>7. IsFiniteSet(V \ {m}) /\ Cardinality(V \ {m}) = n - 1 /\ n \in Nat /\ n - 1 \in Nat
  <2>1. n # 0
    BY <1>4, <1>5, FS_EmptySet
  <2> QED BY <1>3, <1>4, <2>1, FS_RemoveElement
<1>8. n - 1 \notin Bad
  BY <1>3, <1>7
<1>9. PICK e : Increasing(e, V \ {m})
  BY <1>7, <1>8
<1> QED BY <1>4, <1>6, <1>9, IncreasingFrom

\* Kept returns a list of elements of its own list; what it keeps of a mailbox is
\* what it keeps of the mailbox's mails.
LEMMA KeptIn ==
  ASSUME NEW S, NEW l \in Seq(S), NEW M
  PROVE  /\ Kept(l, M) \in Seq(S)
         /\ \A i \in DOMAIN Kept(l, M) : \E j \in DOMAIN l : Kept(l, M)[i] = l[j]
         /\ MailsIn(Kept(l, M)) = Kept(MailsIn(l), M)
<1> DEFINE U == DOMAIN l \ M
           n == Cardinality(U)
           e == CHOOSE x \in [1..n -> U] : Increasing(x, U)
<1>1. DOMAIN l = 1..Len(l) /\ Len(l) \in Nat /\ l \in [1..Len(l) -> S]
  BY LenProperties
<1>2. U \in SUBSET Nat /\ IsFiniteSet(U) /\ n \in Nat
  <2>1. IsFiniteSet(1..Len(l))
    BY <1>1, FS_Interval
  <2>2. IsFiniteSet(U)
    BY <1>1, <2>1, FS_Subset
  <2> QED BY <1>1, <2>2, FS_CardinalityType
<1>3. \E x \in [1..n -> U] : Increasing(x, U)
  <2>1. \E x : Increasing(x, U)
    BY <1>2, IncreasingExists
  <2> QED BY <2>1 DEF Increasing
<1>4. e \in [1..n -> U]
  BY <1>3
<1>5. Kept(l, M) = [i \in 1..n |-> l[e[i]]]
  BY DEF Kept
<1>6. Kept(MailsIn(l), M) = [i \in 1..n |-> MailsIn(l)[e[i]]]
  <2>1. DOMAIN MailsIn(l) = DOMAIN l
    BY DEF MailsIn
  <2> QED BY <2>1 DEF Kept
<1> HIDE DEF e, n
<1>7. \A i \in 1..n : e[i] \in DOMAIN l /\ l[e[i]] \in S
  BY <1>1, <1>4
<1>8. Kept(l, M) \in Seq(S)
  <2>1. Kept(l, M) \in [1..n -> S]
    BY <1>5, <1>7
  <2> QED BY <1>2, <2>1, SeqDef
<1>9. MailsIn(Kept(l, M)) = Kept(MailsIn(l), M)
  <2>1. \A i \in 1..n : MailsIn(l)[e[i]] = MailIn(l[e[i]])
    BY <1>7 DEF MailsIn
  <2>2. MailsIn(Kept(l, M)) = [i \in 1..n |-> MailIn(l[e[i]])]
    BY <1>5 DEF MailsIn
  <2> QED BY <1>6, <2>1, <2>2
<1> QED BY <1>5, <1>7, <1>8, <1>9

(***************************************************************************)
(* Types.                                                                  *)
(***************************************************************************)

\* Every step is one of a child, or of a client alone.
LEMMA StepKinds ==
  ASSUME NEW c \in Client, Step(c)
  PROVE  \/ SMTPStep(c) /\ UNCHANGED popvars
         \/ POPStep(c) /\ UNCHANGED smtpvars
         \/ UNCHANGED <<files, smtpvars, popvars>>
<1>1. CASE ChooseManage(c) \/ GiveName(c) \/ GivePassword(c) \/ SayQuit(c) \/ RawPOP(c)
  BY <1>1 DEF ChooseManage, GiveName, GivePassword, SayQuit, RawPOP, QUIT, Unknown, POPStep
<1>2. CASE Dele(c)
  BY <1>2 DEF Dele, POPStep, DELE
<1>3. CASE Stat(c) \/ Retr(c) \/ Keep(c) \/ Leave(c) \/ Bye(c) \/ SendFails(c) \/ Die(c)
  BY <1>3 DEF Stat, Retr, Keep, Leave, Bye, SendFails, Die
<1>4. CASE \/ ChooseSend(c) \/ SendHELO(c) \/ SendMAIL(c) \/ SendRCPT(c) \/ SendDATA(c)
           \/ SendBody(c) \/ SendQUIT(c) \/ RawSMTP(c)
  BY <1>4 DEF ChooseSend, SendHELO, SendMAIL, SendRCPT, SendDATA, SendBody, SendQUIT, RawSMTP,
              Answered, SMTPStep
<1>5. CASE RawConnect(c) \/ Notice(c) \/ ChildWrites(c) \/ Killed(c)
  BY <1>5 DEF RawConnect, Notice, ChildWrites, Killed, POPLost, SMTPStep, POPStep
<1> QED BY <1>1, <1>2, <1>3, <1>4, <1>5 DEF Step

LEMMA AppendedIn ==
  ASSUME NEW f \in File, NEW p \in Piece
  PROVE  Appended(f, p) \in File
<1>1. f.mails \in Seq(Seq(Piece)) /\ f.tail \in Seq(Piece)
      /\ f = [mails |-> f.mails, tail |-> f.tail]
  BY DEF File
<1>2. Append(f.tail, p) \in Seq(Piece)
  BY <1>1, AppendProperties
<1>3. Append(f.mails, Append(f.tail, p)) \in Seq(Seq(Piece))
  BY <1>1, <1>2, AppendProperties
<1>4. <<>> \in Seq(Piece)
  BY EmptySeq
<1> QED BY <1>1, <1>2, <1>3, <1>4 DEF Appended, File

LEMMA FromIn ==
  ASSUME NEW S, NEW l \in Seq(S), NEW k \in Nat \ {0}
  PROVE  From(l, k) \in Seq(S)
<1>1. Len(l) \in Nat /\ DOMAIN l = 1..Len(l)
  BY LenProperties
<1>2. \A i \in k..Len(l) : i \in 1..Len(l)
  BY <1>1
<1>3. \A i \in k..Len(l) : l[i] \in S
  BY <1>2, ElementOfSeq
<1> QED BY <1>1, <1>3, SubSeqProperties DEF From

LEMMA RemainsIn ==
  ASSUME NEW f \in File, NEW r \in Remains(f)
  PROVE  r \in File
<1>1. f.mails \in Seq(Seq(Piece)) /\ f.tail \in Seq(Piece)
      /\ f = [mails |-> f.mails, tail |-> f.tail] /\ Len(f.mails) \in Nat /\ Len(f.tail) \in Nat
      /\ DOMAIN f.mails = 1..Len(f.mails)
  BY LenProperties DEF File
<1>2. \A k \in Nat \ {0} : From(f.mails, k) \in Seq(Seq(Piece))
  BY <1>1, FromIn
<1>3. ASSUME NEW k \in 1..(Len(f.mails) + 1), r = [f EXCEPT !.mails = From(@, k)]
      PROVE  r \in File
  <2>1. From(f.mails, k) \in Seq(Seq(Piece))
    BY <1>1, <1>2
  <2>2. r = [mails |-> From(f.mails, k), tail |-> f.tail]
    BY <1>1, <1>3
  <2> QED BY <1>1, <2>1, <2>2 DEF File
<1>4. ASSUME NEW k \in DOMAIN f.mails, NEW j \in 2..3,
             r = [f EXCEPT !.mails = << From(@[k], j) >> \o From(@, k + 1)]
      PROVE  r \in File
  <2>1. f.mails[k] \in Seq(Piece)
    BY <1>1, ElementOfSeq
  <2>2. From(f.mails[k], j) \in Seq(Piece)
    BY <2>1, FromIn
  <2>3. << From(f.mails[k], j) >> \in Seq(Seq(Piece))
    BY <2>2
  <2>4. From(f.mails, k + 1) \in Seq(Seq(Piece))
    <3>1. k \in Nat /\ k + 1 \in Nat \ {0}
      BY <1>1
    <3> QED BY <1>2, <3>1
  <2>5. << From(f.mails[k], j) >> \o From(f.mails, k + 1) \in Seq(Seq(Piece))
    BY <2>3, <2>4, ConcatProperties
  <2>6. r = [mails |-> << From(f.mails[k], j) >> \o From(f.mails, k + 1), tail |-> f.tail]
    BY <1>1, <1>4
  <2> QED BY <1>1, <2>5, <2>6 DEF File
<1>5. ASSUME NEW j \in 1..(Len(f.tail) + 1), r = [mails |-> <<>>, tail |-> From(f.tail, j)]
      PROVE  r \in File
  <2>1. From(f.tail, j) \in Seq(Piece)
    BY <1>1, FromIn
  <2>2. <<>> \in Seq(Seq(Piece))
    BY EmptySeq
  <2> QED BY <1>5, <2>1, <2>2 DEF File
<1>6. CASE r \in { [f EXCEPT !.mails = From(@, k)] : k \in 1..(Len(f.mails) + 1) }
  BY <1>3, <1>6
<1>7. CASE r \in UNION { { [f EXCEPT !.mails = << From(@[k], j) >> \o From(@, k + 1)] :
                            j \in 2..3 } : k \in DOMAIN f.mails }
  BY <1>4, <1>7
<1>8. CASE r \in { [mails |-> <<>>, tail |-> From(f.tail, j)] : j \in 1..(Len(f.tail) + 1) }
  BY <1>5, <1>8
<1> QED BY <1>6, <1>7, <1>8 DEF Remains

LEMMA OverlaidIn ==
  ASSUME NEW ms \in Seq(Seq(Piece)), NEW f \in File, NEW g \in Overlaid(ms, f)
  PROVE  g \in File
<1>1. CASE ms = <<>>
  BY <1>1 DEF Overlaid
<1>2. CASE ms # <<>>
  <2>1. PICK r \in Remains(f) :
           g = [mails |-> IF r.mails = <<>> THEN ms ELSE ms \o r.mails, tail |-> r.tail]
    BY <1>2 DEF Overlaid
  <2>2. r.mails \in Seq(Seq(Piece)) /\ r.tail \in Seq(Piece)
    BY RemainsIn DEF File
  <2>3. ms \o r.mails \in Seq(Seq(Piece))
    BY <2>2, ConcatProperties
  <2> QED BY <2>1, <2>2, <2>3 DEF File
<1> QED BY <1>1, <1>2

\* The parts of TypeOK.
FilesTypeOK ==
    /\ file \in [User -> File]
    /\ made \in SUBSET Home
    /\ delivered \in [User -> SUBSET Mail]

LEMMA SMTPTypes ==
  ASSUME FilesTypeOK, SMTPTypeOK, Addressed, NEW c \in Client, SMTPStep(c)
  PROVE  FilesTypeOK' /\ SMTPTypeOK'
<1> USE DEF SMTPTypeOK, SMTPStates, Writing, SMTPGoto, At
<1>1. CASE SMTPAccept(c)
  BY <1>1 DEF SMTPAccept, FilesTypeOK, files
<1>2. CASE HELO(c) \/ Body(c) \/ SMTPKilled(c)
  BY <1>2 DEF HELO, Body, SMTPKilled, FilesTypeOK, files
<1>3. ASSUME NEW u \in Names, MAIL(c, u) \/ RCPT(c, u)
      PROVE  FilesTypeOK' /\ SMTPTypeOK'
  BY <1>3 DEF MAIL, RCPT, SMTPEnd, FilesTypeOK, files
<1>4. CASE DATA(c)
  BY <1>4 DEF DATA, SMTPEnd, FilesTypeOK
<1>5. CASE Write(c)
  <2>1. rcpt[c] \in User
    BY <1>5, HomeAssumption DEF Write, Addressed
  <2>2. MailOf(c) \in Mail
    BY DEF MailOf, Mail
  <2>3. [mail |-> MailOf(c), part |-> smtp[c]] \in Piece
    BY <1>5, <2>2 DEF Write, Piece, Parts
  <2>4. Appended(file[rcpt[c]], [mail |-> MailOf(c), part |-> smtp[c]]) \in File
    BY <2>1, <2>3, AppendedIn DEF FilesTypeOK
  <2>5. file' \in [User -> File]
    BY <1>5, <2>1, <2>4 DEF Write, FilesTypeOK
  <2>6. delivered' \in [User -> SUBSET Mail]
    <3>1. \/ delivered' = delivered
          \/ delivered' = [delivered EXCEPT ![rcpt[c]] = @ \cup {MailOf(c)}]
      BY <1>5 DEF Write
    <3> QED BY <2>1, <2>2, <3>1 DEF FilesTypeOK
  <2>7. made' \in SUBSET Home /\ SMTPTypeOK'
    BY <1>5 DEF Write, FilesTypeOK
  <2> QED BY <2>5, <2>6, <2>7 DEF FilesTypeOK
<1>6. CASE SMTPQuit(c) \/ SMTPLost(c)
  BY <1>6 DEF SMTPQuit, SMTPLost, SMTPEnd, FilesTypeOK, files
<1> QED BY <1>1, <1>2, <1>3, <1>4, <1>5, <1>6 DEF SMTPStep

LEMMA POPTypes ==
  ASSUME FilesTypeOK, POPTypeOK, Addressed, NEW c \in Client, POPStep(c)
  PROVE  FilesTypeOK' /\ POPTypeOK'
<1>0. <<>> \in Seq(Seq(Piece))
  BY EmptySeq
<1> USE <1>0 DEF POPTypeOK, POPStates, POPGoto
<1>1. CASE POPAccept(c) \/ NullMailbox(c) \/ BrokenPipe(c)
  BY <1>1 DEF POPAccept, NullMailbox, BrokenPipe, POPEnd, Forget, FilesTypeOK, files
<1>2. CASE PASS(c)
  <2>1. file[name[c]].mails \in Seq(Seq(Piece))
    BY <1>2 DEF PASS, FilesTypeOK, File
  <2>2. FilesTypeOK'
    BY <1>2 DEF PASS, FilesTypeOK, files
  <2>3. CASE name[c] \in made
    <3>1. /\ owner' = [owner EXCEPT ![c] = name[c]]
          /\ list' = [list EXCEPT ![c] = file[name[c]].mails]
          /\ marked' = [marked EXCEPT ![c] = {}]
          /\ pop' = pop /\ name' = name /\ name[c] \in User
      BY <1>2, <2>3 DEF PASS
    <3>2. list' \in [Client -> Seq(Seq(Piece))]
      BY <2>1, <3>1
    <3>3. owner' \in [Client -> User \cup {NoName}] /\ marked' \in [Client -> SUBSET (Nat \ {0})]
      BY <3>1
    <3> QED BY <2>2, <3>1, <3>2, <3>3
  <2>4. CASE name[c] \notin made
    <3>1. POPEnd(c)
      BY <1>2, <2>4 DEF PASS
    <3> QED BY <2>2, <3>1 DEF POPEnd, Forget
  <2> QED BY <2>3, <2>4
<1>3. CASE RSET(c) \/ POPKilled(c)
  BY <1>3 DEF RSET, POPKilled, FilesTypeOK, files
<1>4. ASSUME NEW u \in Names, USER(c, u)
      PROVE  FilesTypeOK' /\ POPTypeOK'
  BY <1>4 DEF USER, Names, FilesTypeOK, files
<1>5. ASSUME NEW n \in DOMAIN list[c], DELE(c, n)
      PROVE  FilesTypeOK' /\ POPTypeOK'
  <2>1. list[c] \in Seq(Seq(Piece))
    OBVIOUS
  <2>2. n \in Nat \ {0}
    BY <2>1, LenProperties
  <2> QED BY <1>5, <2>2 DEF DELE, FilesTypeOK, files
<1>6. CASE Truncate(c)
  <2>1. EmptyFile \in File
    BY DEF EmptyFile, File
  <2>2. file' \in [User -> File] /\ made' \in SUBSET Home /\ delivered' = delivered
    BY <1>6, <2>1 DEF Truncate, FilesTypeOK
  <2>3. POPTypeOK'
    BY <1>6 DEF Truncate, POPEnd, Forget
  <2> QED BY <2>2, <2>3 DEF FilesTypeOK
<1>7. CASE Rewrite(c)
  <2>1. name[c] \in User
    BY <1>7, HomeAssumption DEF Rewrite, Addressed
  <2>2. Kept(list[c], marked[c]) \in Seq(Seq(Piece))
    BY KeptIn
  <2>3. PICK g \in Overlaid(Kept(list[c], marked[c]), file[name[c]]) :
           file' = [file EXCEPT ![name[c]] = g]
    BY <1>7 DEF Rewrite
  <2>4. file[name[c]] \in File
    BY <2>1 DEF FilesTypeOK
  <2>5. g \in File
    BY <2>2, <2>4, OverlaidIn
  <2>6. file' \in [User -> File]
    BY <2>3, <2>5 DEF FilesTypeOK
  <2>7. POPTypeOK' /\ UNCHANGED <<made, delivered>>
    BY <1>7 DEF Rewrite, POPEnd, Forget
  <2> QED BY <2>6, <2>7 DEF FilesTypeOK
<1> QED BY <1>1, <1>2, <1>3, <1>4, <1>5, <1>6, <1>7 DEF POPStep

ClientTypeOK ==
    /\ cpc \in [Client -> ClientStates]
    /\ mail_count \in [Client -> Nat]
    /\ mail_number \in [Client -> Nat]
    /\ visits \in [Client -> Nat]

LEMMA ClientTypes ==
  ASSUME ClientTypeOK, POPTypeOK, NEW c \in Client, Step(c)
  PROVE  ClientTypeOK'
<1> USE DEF ClientTypeOK, ClientStates, Goto, AtC
<1>1. CASE ChooseManage(c) \/ ChooseSend(c) \/ RawConnect(c)
  BY <1>1 DEF ChooseManage, ChooseSend, RawConnect, Connect
<1>2. CASE GiveName(c) \/ GivePassword(c) \/ Keep(c) \/ Leave(c) \/ SayQuit(c) \/ Bye(c)
  BY <1>2 DEF GiveName, GivePassword, Keep, Leave, SayQuit, Bye, Same
<1>3. CASE Stat(c)
  <2>1. list[c] \in Seq(Seq(Piece))
    BY DEF POPTypeOK
  <2>2. IsFiniteSet(DOMAIN list[c])
    <3>1. Len(list[c]) \in Nat /\ DOMAIN list[c] = 1..Len(list[c]) /\ 1 \in Int
          /\ Len(list[c]) \in Int
      BY <2>1, LenProperties
    <3>2. IsFiniteSet(1..Len(list[c]))
      BY <3>1, FS_Interval
    <3> QED BY <3>1, <3>2
  <2>3. Cardinality(DOMAIN list[c] \ marked[c]) \in Nat
    BY <2>2, FS_Subset, FS_CardinalityType
  <2> QED BY <1>3, <2>3 DEF Stat
<1>4. CASE Retr(c)
  BY <1>4 DEF Retr
<1>5. CASE Dele(c)
  BY <1>5 DEF Dele
<1>6. CASE \/ SendHELO(c) \/ SendMAIL(c) \/ SendRCPT(c) \/ SendDATA(c) \/ SendBody(c)
           \/ SendQUIT(c) \/ SendFails(c)
  BY <1>6 DEF SendHELO, SendMAIL, SendRCPT, SendDATA, SendBody, SendQUIT, SendFails, Answered,
              Same
<1>7. CASE RawPOP(c) \/ RawSMTP(c) \/ Die(c) \/ Notice(c) \/ ChildWrites(c) \/ Killed(c)
  BY <1>7 DEF RawPOP, RawSMTP, Die, Notice, ChildWrites, Killed, Same, clientvars
<1> QED BY <1>1, <1>2, <1>3, <1>4, <1>5, <1>6, <1>7 DEF Step

\* A step of a child is no business of the other clients' children.
LEMMA SMTPFrame ==
  ASSUME SMTPTypeOK, NEW c \in Client, SMTPStep(c), NEW d \in Client, d # c
  PROVE  smtp'[d] = smtp[d] /\ rcpt'[d] = rcpt[d] /\ mailno'[d] = mailno[d]
<1> USE DEF SMTPTypeOK, SMTPGoto, SMTPEnd
<1>0. CASE SMTPAccept(c)
  BY <1>0 DEF SMTPAccept
<1>1. CASE HELO(c) \/ Body(c) \/ SMTPKilled(c)
  BY <1>1 DEF HELO, Body, SMTPKilled
<1>2. CASE Write(c)
  BY <1>2 DEF Write, Writing
<1>3. CASE DATA(c)
  BY <1>3 DEF DATA
<1>4. CASE SMTPQuit(c) \/ SMTPLost(c)
  BY <1>4 DEF SMTPQuit, SMTPLost
<1>5. CASE \E u \in Names : MAIL(c, u) \/ RCPT(c, u)
  BY <1>5 DEF MAIL, RCPT
<1> QED BY <1>0, <1>1, <1>2, <1>3, <1>4, <1>5 DEF SMTPStep

LEMMA POPFrame ==
  ASSUME POPTypeOK, NEW c \in Client, POPStep(c), NEW d \in Client, d # c
  PROVE  /\ pop'[d] = pop[d] /\ name'[d] = name[d] /\ owner'[d] = owner[d]
         /\ list'[d] = list[d] /\ marked'[d] = marked[d]
<1> USE DEF POPTypeOK, POPGoto, POPEnd, Forget
<1>1. CASE POPAccept(c) \/ PASS(c) \/ RSET(c) \/ NullMailbox(c)
  BY <1>1 DEF POPAccept, PASS, RSET, NullMailbox
<1>2. CASE BrokenPipe(c) \/ Truncate(c) \/ Rewrite(c) \/ POPKilled(c)
  BY <1>2 DEF BrokenPipe, Truncate, Rewrite, POPKilled
<1>3. CASE \E u \in Names : USER(c, u)
  BY <1>3 DEF USER
<1>4. CASE \E n \in DOMAIN list[c] : DELE(c, n)
  BY <1>4 DEF DELE
<1> QED BY <1>1, <1>2, <1>3, <1>4 DEF POPStep

\* Whom a child writes to.
LEMMA AddressedStep ==
  ASSUME SMTPTypeOK, POPTypeOK, Addressed, NEW c \in Client, Step(c)
  PROVE  Addressed'
<1>1. CASE SMTPStep(c) /\ UNCHANGED popvars
  <2> USE DEF SMTPTypeOK, SMTPGoto, SMTPEnd, Writing, Addressed, At
  <2>1. /\ smtp'[c] \in {"data", "quit"} => rcpt'[c] \in User
        /\ smtp'[c] \in {"body"} \cup Writing => rcpt'[c] \in Home
    <3>1. CASE SMTPAccept(c) \/ HELO(c) \/ DATA(c) \/ Body(c) \/ SMTPKilled(c)
      BY <3>1 DEF SMTPAccept, HELO, DATA, Body, SMTPKilled
    <3>2. CASE Write(c)
      BY <3>2, HomeAssumption DEF Write
    <3>3. CASE SMTPQuit(c) \/ SMTPLost(c)
      BY <3>3 DEF SMTPQuit, SMTPLost
    <3>4. CASE \E u \in Names : MAIL(c, u) \/ RCPT(c, u)
      BY <3>4 DEF MAIL, RCPT
    <3> QED BY <1>1, <3>1, <3>2, <3>3, <3>4 DEF SMTPStep
  <2>2. pop' = pop /\ name' = name
    BY <1>1 DEF popvars
  <2> QED BY <1>1, <2>1, <2>2, SMTPFrame
<1>2. CASE POPStep(c) /\ UNCHANGED smtpvars
  <2> USE DEF POPTypeOK, POPGoto, POPEnd, Forget, Addressed
  <2>1. pop'[c] = "update" => name'[c] \in Home
    <3>1. CASE POPAccept(c) \/ PASS(c) \/ RSET(c) \/ NullMailbox(c)
      BY <3>1 DEF POPAccept, PASS, RSET, NullMailbox
    <3>2. CASE BrokenPipe(c) \/ Truncate(c) \/ Rewrite(c) \/ POPKilled(c)
      BY <3>2 DEF BrokenPipe, Truncate, Rewrite, POPKilled
    <3>3. CASE \E u \in Names : USER(c, u)
      BY <3>3 DEF USER
    <3>4. CASE \E n \in DOMAIN list[c] : DELE(c, n)
      BY <3>4 DEF DELE
    <3> QED BY <1>2, <3>1, <3>2, <3>3, <3>4 DEF POPStep
  <2>2. smtp' = smtp /\ rcpt' = rcpt
    BY <1>2 DEF smtpvars
  <2> QED BY <1>2, <2>1, <2>2, POPFrame
<1>3. CASE UNCHANGED <<files, smtpvars, popvars>>
  BY <1>3 DEF smtpvars, popvars, Addressed
<1> QED BY <1>1, <1>2, <1>3, StepKinds

LEMMA TypeStep ==
  ASSUME TypeOK, Addressed, [Next]_vars
  PROVE  TypeOK' /\ Addressed'
<1>0. TypeOK <=> FilesTypeOK /\ SMTPTypeOK /\ POPTypeOK /\ ClientTypeOK
                 /\ clean \in [User -> BOOLEAN]
  BY DEF TypeOK, FilesTypeOK, ClientTypeOK
<1>1. CASE Next
  <2>1. PICK c \in Client : Tracked(Step(c))
    BY <1>1 DEF Next
  <2>2. Step(c) /\ clean' = [u \in User |-> clean[u] /\ ~ Clash(u)']
    BY <2>1 DEF Tracked
  <2>3. Addressed' /\ ClientTypeOK'
    BY <1>0, <2>2, AddressedStep, ClientTypes
  <2>4. FilesTypeOK' /\ SMTPTypeOK' /\ POPTypeOK'
    <3>1. CASE SMTPStep(c) /\ UNCHANGED popvars
      BY <1>0, <3>1, SMTPTypes DEF popvars, POPTypeOK
    <3>2. CASE POPStep(c) /\ UNCHANGED smtpvars
      BY <1>0, <3>2, POPTypes DEF smtpvars, SMTPTypeOK
    <3>3. CASE UNCHANGED <<files, smtpvars, popvars>>
      BY <1>0, <3>3 DEF files, smtpvars, popvars, FilesTypeOK, SMTPTypeOK, POPTypeOK
    <3> QED BY <2>2, <3>1, <3>2, <3>3, StepKinds
  <2>5. clean' \in [User -> BOOLEAN]
    <3>1. \A u \in User : clean[u] \in BOOLEAN
      BY <1>0
    <3>2. \A u \in User : (clean[u] /\ ~ Clash(u)') \in BOOLEAN
      BY Zenon
    <3> QED BY <2>2, <3>2, Zenon
  <2> QED BY <2>3, <2>4, <2>5 DEF TypeOK, FilesTypeOK, ClientTypeOK
<1>2. CASE UNCHANGED vars
  BY <1>2 DEF TypeOK, Addressed, vars, files, smtpvars, popvars, clientvars, SMTPTypeOK, POPTypeOK
<1> QED BY <1>1, <1>2

LEMMA TypesAtFirst ==
  ASSUME Init
  PROVE  TypeOK /\ Addressed
<1>1. EmptyFile \in File /\ <<>> \in Seq(Seq(Piece))
  BY DEF EmptyFile, File
<1>2. FilesTypeOK
  BY <1>1 DEF Init, FilesInit, FilesTypeOK
<1>3. SMTPTypeOK /\ POPTypeOK /\ Addressed
  BY <1>1 DEF Init, SMTPInit, POPInit, SMTPTypeOK, POPTypeOK, SMTPStates, POPStates, Addressed,
              Writing
<1>4. ClientTypeOK
  BY DEF Init, ClientTypeOK, ClientStates
<1>5. clean \in [User -> BOOLEAN]
  BY DEF Init
<1> QED BY <1>2, <1>3, <1>4, <1>5 DEF TypeOK, FilesTypeOK, ClientTypeOK

\* TypeOK: the types of the mailboxes, of both servers' children and of the clients;
\* a mailbox is made only for a user who has a directory, and written to only then.
THEOREM MailTypesCorrect == Spec => [](TypeOK /\ Addressed)
<1>1. Init => TypeOK /\ Addressed
  BY TypesAtFirst
<1>2. TypeOK /\ Addressed /\ [Next]_vars => (TypeOK /\ Addressed)'
  BY TypeStep
<1> QED BY <1>1, <1>2, PTL DEF Spec

(***************************************************************************)
(* The client and its child between STAT and QUIT.                         *)
(***************************************************************************)

LEMMA ClientFrame ==
  ASSUME ClientTypeOK, NEW c \in Client, Step(c), NEW d \in Client, d # c
  PROVE  /\ cpc'[d] = cpc[d]
         /\ mail_count'[d] = mail_count[d] /\ mail_number'[d] = mail_number[d]
<1> USE DEF ClientTypeOK, Goto
<1>1. CASE ChooseManage(c) \/ ChooseSend(c) \/ RawConnect(c)
  BY <1>1 DEF ChooseManage, ChooseSend, RawConnect, Connect
<1>2. CASE GiveName(c) \/ GivePassword(c) \/ Keep(c) \/ Leave(c) \/ SayQuit(c) \/ Bye(c)
  BY <1>2 DEF GiveName, GivePassword, Keep, Leave, SayQuit, Bye, Same
<1>3. CASE Stat(c) \/ Retr(c) \/ Dele(c)
  BY <1>3 DEF Stat, Retr, Dele
<1>4. CASE \/ SendHELO(c) \/ SendMAIL(c) \/ SendRCPT(c) \/ SendDATA(c) \/ SendBody(c)
           \/ SendQUIT(c) \/ SendFails(c)
  BY <1>4 DEF SendHELO, SendMAIL, SendRCPT, SendDATA, SendBody, SendQUIT, SendFails, Answered,
              Same
<1>5. CASE RawPOP(c) \/ RawSMTP(c) \/ Die(c) \/ Notice(c) \/ ChildWrites(c) \/ Killed(c)
  BY <1>5 DEF RawPOP, RawSMTP, Die, Notice, ChildWrites, Killed, Same, clientvars
<1> QED BY <1>1, <1>2, <1>3, <1>4, <1>5 DEF Step

\* The part of LoggedIn and ClientInStep that is about client c.
SessionOK(c) ==
    /\ cpc[c] = "stat" /\ pop[c] = "ready" =>
          owner[c] \in User /\ name[c] = owner[c] /\ marked[c] = {}
    /\ cpc[c] \in {"list", "read"} =>
          /\ pop[c] = "ready" /\ name[c] = owner[c] /\ owner[c] \in User
          /\ mail_count[c] = Len(list[c])
          /\ cpc[c] = "read" => mail_number[c] \in DOMAIN list[c] \ marked[c]

\* The sessions of the other clients are as they were.
LEMMA SessionFrame ==
  ASSUME POPTypeOK, ClientTypeOK, NEW c \in Client, Step(c), NEW d \in Client, d # c,
         SessionOK(d)
  PROVE  SessionOK(d)'
<1>1. /\ pop'[d] = pop[d] /\ name'[d] = name[d] /\ owner'[d] = owner[d]
      /\ list'[d] = list[d] /\ marked'[d] = marked[d]
  <2>1. CASE POPStep(c)
    BY <2>1, POPFrame
  <2>2. CASE UNCHANGED popvars
    BY <2>2 DEF popvars
  <2> QED BY <2>1, <2>2, StepKinds
<1> QED BY <1>1, ClientFrame DEF SessionOK

\* A step of client c or of its children.
LEMMA SessionStep ==
  ASSUME POPTypeOK, ClientTypeOK, NEW c \in Client, Step(c), SessionOK(c)
  PROVE  SessionOK(c)'
<1> USE DEF POPTypeOK, ClientTypeOK, Goto, AtC
<1>1. CASE GivePassword(c)
  BY <1>1 DEF GivePassword, PASS, POPEnd, POPGoto, SessionOK
<1>2. CASE Stat(c)
  <2>1. UNCHANGED popvars
    BY <1>2 DEF Stat
  <2>2. cpc'[c] = "list" => Cardinality(DOMAIN list[c] \ marked[c]) = Len(list[c])
    <3>1. Len(list[c]) \in Nat /\ DOMAIN list[c] = 1..Len(list[c])
      BY LenProperties
    <3>2. Cardinality(1..Len(list[c])) = Len(list[c])
      <4> DEFINE n == Len(list[c])
      <4>1. 1 \in Int /\ n \in Int /\ (1 > n => n = 0) /\ n - 1 + 1 = n
        BY <3>1
      <4> HIDE DEF n
      <4>2. Cardinality(1..n) = n
        BY <4>1, FS_Interval
      <4> QED BY <4>2 DEF n
    <3>3. cpc'[c] = "list" => marked[c] = {}
      BY <1>2 DEF Stat, SessionOK
    <3> QED BY <3>1, <3>2, <3>3
  <2> QED BY <1>2, <2>1, <2>2 DEF Stat, SessionOK, popvars
<1>3. CASE Retr(c)
  <2>1. list[c] \in Seq(Seq(Piece))
    OBVIOUS
  <2>2. DOMAIN list[c] = 1..Len(list[c])
    BY <2>1, LenProperties
  <2> QED BY <1>3, <2>2 DEF Retr, SessionOK, popvars
<1>4. CASE Dele(c) \/ Keep(c)
  BY <1>4 DEF Dele, DELE, Keep, SessionOK, popvars
<1>5. CASE ChooseManage(c) \/ ChooseSend(c) \/ GiveName(c) \/ Leave(c) \/ Bye(c) \/ SendFails(c)
  BY <1>5 DEF ChooseManage, ChooseSend, GiveName, Leave, Bye, SendFails, SessionOK
<1>6. CASE \/ SendHELO(c) \/ SendMAIL(c) \/ SendRCPT(c) \/ SendDATA(c) \/ SendBody(c)
           \/ SendQUIT(c)
  BY <1>6 DEF SendHELO, SendMAIL, SendRCPT, SendDATA, SendBody, SendQUIT, Answered, SessionOK
<1>7. CASE SayQuit(c) \/ RawConnect(c) \/ RawPOP(c) \/ RawSMTP(c) \/ Die(c)
  BY <1>7 DEF SayQuit, RawConnect, RawPOP, RawSMTP, Die, SessionOK
<1>8. CASE Notice(c)
  BY <1>8 DEF Notice, Gone, clientvars, SessionOK
<1>9. CASE ChildWrites(c) \/ Killed(c)
  <2>1. UNCHANGED clientvars
    BY <1>9 DEF ChildWrites, Killed
  <2>2. CASE UNCHANGED popvars
    BY <2>1, <2>2 DEF clientvars, popvars, SessionOK
  <2>3. CASE Rewrite(c) \/ POPKilled(c)
    BY <2>1, <2>3 DEF Rewrite, POPKilled, POPEnd, POPGoto, clientvars, SessionOK
  <2> QED BY <1>9, <2>2, <2>3 DEF ChildWrites, Killed
<1> QED BY <1>1, <1>2, <1>3, <1>4, <1>5, <1>6, <1>7, <1>8, <1>9 DEF Step

\* ClientInStep: whatever the other clients and their children do, mailclient's count
\* is the length of its child's list from STAT to QUIT, the mail it deletes is there,
\* and the child goes by the name it has logged in with.
THEOREM SessionsInStep == Spec => []ClientInStep
<1> DEFINE Inv == TypeOK /\ Addressed /\ LoggedIn /\ ClientInStep
<1>0. LoggedIn /\ ClientInStep <=> \A c \in Client : SessionOK(c)
  BY DEF LoggedIn, ClientInStep, SessionOK
<1>1. Init => Inv
  <2> SUFFICES ASSUME Init PROVE Inv
    OBVIOUS
  <2>1. LoggedIn /\ ClientInStep
    BY DEF Init, LoggedIn, ClientInStep
  <2>2. TypeOK /\ Addressed
    BY TypesAtFirst
  <2> QED BY <2>1, <2>2
<1>2. Inv /\ [Next]_vars => Inv'
  <2> SUFFICES ASSUME Inv, [Next]_vars PROVE Inv'
    OBVIOUS
  <2>1. TypeOK' /\ Addressed'
    BY TypeStep
  <2>2. \A d \in Client : SessionOK(d)'
    <3>1. POPTypeOK /\ ClientTypeOK /\ \A d \in Client : SessionOK(d)
      BY <1>0 DEF TypeOK, ClientTypeOK
    <3>2. CASE UNCHANGED vars
      BY <3>1, <3>2 DEF vars, clientvars, popvars, SessionOK
    <3>3. ASSUME NEW c \in Client, Step(c)
          PROVE  \A d \in Client : SessionOK(d)'
      BY <3>1, <3>3, SessionFrame, SessionStep
    <3> QED BY <3>2, <3>3 DEF Next, Tracked
  <2>3. LoggedIn' /\ ClientInStep'
    BY <2>2 DEF LoggedIn, ClientInStep, SessionOK
  <2> QED BY <2>1, <2>3
<1> QED BY <1>1, <1>2, PTL DEF Spec

(***************************************************************************)
(* The mail system implements MailStore: SystemInv is inductive, and under *)
(* it every step is a step of the store, or none, for every mailbox that   *)
(* stays clean.                                                            *)
(***************************************************************************)

(***************************************************************************)
(* The children of one client.                                             *)
(***************************************************************************)

\* The part of OneChild that is about client c.
OneChildOf(c) ==
    /\ ~ (SMTPRuns(c) /\ POPRuns(c))
    /\ cpc[c] = "menu" => ~ SMTPRuns(c) /\ ~ POPRuns(c)
    /\ cpc[c] = "send" => ~ POPRuns(c)
    /\ cpc[c] \in {"user", "pass", "stat", "list", "read", "bye"} => ~ SMTPRuns(c)

\* Only accept() makes a child.
LEMMA ChildrenOnlyAccepted ==
  ASSUME SMTPTypeOK, POPTypeOK, NEW c \in Client
  PROVE  /\ SMTPStep(c) /\ ~ SMTPAccept(c) /\ SMTPRuns(c)' => SMTPRuns(c)
         /\ POPStep(c) /\ ~ POPAccept(c) /\ POPRuns(c)' => POPRuns(c)
<1>1. ASSUME SMTPStep(c), ~ SMTPAccept(c)
      PROVE  SMTPRuns(c)
  <2> USE DEF SMTPRuns, At
  <2>1. CASE HELO(c) \/ DATA(c) \/ Body(c) \/ SMTPQuit(c) \/ SMTPLost(c) \/ SMTPKilled(c)
    BY <2>1 DEF HELO, DATA, Body, SMTPQuit, SMTPLost, SMTPKilled
  <2>2. CASE Write(c)
    BY <2>2 DEF Write, Writing
  <2>3. CASE \E u \in Names : MAIL(c, u) \/ RCPT(c, u)
    BY <2>3 DEF MAIL, RCPT
  <2> QED BY <1>1, <2>1, <2>2, <2>3 DEF SMTPStep
<1>2. ASSUME POPStep(c), ~ POPAccept(c)
      PROVE  POPRuns(c)
  <2> USE DEF POPRuns
  <2>1. CASE PASS(c) \/ RSET(c) \/ NullMailbox(c) \/ BrokenPipe(c) \/ Truncate(c)
    BY <2>1 DEF PASS, RSET, NullMailbox, BrokenPipe, Truncate
  <2>2. CASE Rewrite(c) \/ POPKilled(c)
    BY <2>2 DEF Rewrite, POPKilled
  <2>3. CASE \E u \in Names : USER(c, u)
    BY <2>3 DEF USER
  <2>4. CASE \E n \in DOMAIN list[c] : DELE(c, n)
    BY <2>4 DEF DELE
  <2> QED BY <1>2, <2>1, <2>2, <2>3, <2>4 DEF POPStep
<1> QED BY <1>1, <1>2

LEMMA OneChildStep ==
  ASSUME SMTPTypeOK, POPTypeOK, ClientTypeOK, NEW c \in Client, Step(c),
         NEW d \in Client, OneChildOf(d)
  PROVE  OneChildOf(d)'
<1>1. CASE d # c
  <2>1. cpc'[d] = cpc[d]
    BY <1>1, ClientFrame
  <2>2. smtp'[d] = smtp[d]
    BY <1>1, StepKinds, SMTPFrame DEF smtpvars
  <2>3. pop'[d] = pop[d]
    BY <1>1, StepKinds, POPFrame DEF popvars
  <2> QED BY <2>1, <2>2, <2>3 DEF OneChildOf, SMTPRuns, POPRuns
<1>2. CASE d = c
  <2> USE <1>2 DEF SMTPTypeOK, POPTypeOK, ClientTypeOK, Goto, AtC
  <2>0. /\ UNCHANGED popvars => (POPRuns(c)' <=> POPRuns(c))
        /\ UNCHANGED smtpvars => (SMTPRuns(c)' <=> SMTPRuns(c))
    BY DEF popvars, smtpvars, POPRuns, SMTPRuns
  <2>1. CASE ChooseManage(c)
    BY <2>0, <2>1 DEF ChooseManage, OneChildOf
  <2>2. CASE ChooseSend(c)
    BY <2>0, <2>2 DEF ChooseSend, OneChildOf
  <2>3. CASE RawConnect(c)
    <3>1. ~ SMTPRuns(c) /\ ~ POPRuns(c) /\ cpc'[c] = "raw"
      BY <2>3 DEF RawConnect, SMTPRuns, POPRuns
    <3> QED BY <2>0, <2>3, <3>1 DEF RawConnect, OneChildOf
  <2>4. CASE GiveName(c) \/ GivePassword(c) \/ SayQuit(c)
    BY <2>0, <2>4 DEF GiveName, GivePassword, SayQuit, OneChildOf
  <2>5. CASE Stat(c) \/ Retr(c) \/ Keep(c) \/ Leave(c)
    BY <2>0, <2>5 DEF Stat, Retr, Keep, Leave, OneChildOf
  <2>6. CASE Dele(c)
    BY <2>0, <2>6 DEF Dele, OneChildOf
  <2>7. CASE Bye(c)
    BY <2>0, <2>7 DEF Bye, OneChildOf, POPRuns
  <2>8. CASE SendHELO(c) \/ SendMAIL(c) \/ SendRCPT(c) \/ SendDATA(c) \/ SendBody(c) \/ SendQUIT(c)
    <3>1. UNCHANGED popvars /\ cpc[c] = "send"
          /\ \/ cpc'[c] = "menu" /\ smtp'[c] = "none"
             \/ cpc'[c] \in {"send", "dead"}
      BY <2>8 DEF SendHELO, SendMAIL, SendRCPT, SendDATA, SendBody, SendQUIT, Answered
    <3> QED BY <2>0, <3>1 DEF OneChildOf, SMTPRuns
  <2>9. CASE SendFails(c)
    BY <2>0, <2>9 DEF SendFails, OneChildOf, SMTPRuns, At
  <2>10. CASE Die(c)
    BY <2>0, <2>10 DEF Die, OneChildOf
  <2>11. CASE RawPOP(c) \/ RawSMTP(c) \/ Notice(c) \/ ChildWrites(c) \/ Killed(c)
    <3>1. cpc' = cpc
      BY <2>11 DEF RawPOP, RawSMTP, Notice, ChildWrites, Killed, clientvars
    <3>2. \/ POPStep(c) /\ ~ POPAccept(c) /\ UNCHANGED smtpvars
          \/ SMTPStep(c) /\ ~ SMTPAccept(c) /\ UNCHANGED popvars
      <4> USE DEF SMTPStep, POPStep
      <4>1. CASE RawPOP(c)
        BY <4>1 DEF RawPOP, QUIT, Unknown, USER, PASS, DELE, RSET, NullMailbox, Truncate, POPAccept
      <4>2. CASE RawSMTP(c)
        BY <4>2 DEF RawSMTP, HELO, MAIL, RCPT, DATA, Body, SMTPQuit, At, SMTPAccept
      <4>3. CASE Notice(c)
        BY <4>3 DEF Notice, POPLost, BrokenPipe, Truncate, SMTPLost, SMTPAccept, POPAccept
      <4>4. CASE ChildWrites(c) \/ Killed(c)
        BY <4>4 DEF ChildWrites, Killed, Write, Writing, Rewrite, SMTPKilled, POPKilled,
                    SMTPAccept, POPAccept
      <4> QED BY <2>11, <4>1, <4>2, <4>3, <4>4
    <3>3. (SMTPRuns(c)' => SMTPRuns(c)) /\ (POPRuns(c)' => POPRuns(c))
      BY <2>0, <3>2, ChildrenOnlyAccepted
    <3> QED BY <3>1, <3>3 DEF OneChildOf
  <2> QED BY <2>1, <2>2, <2>3, <2>4, <2>5, <2>6, <2>7, <2>8, <2>9, <2>10, <2>11 DEF Step
<1> QED BY <1>1, <1>2

(***************************************************************************)
(* A mail is delivered once.                                               *)
(***************************************************************************)

LEMMA FreshStep ==
  ASSUME FilesTypeOK, SMTPTypeOK, Addressed, Fresh, NEW c \in Client, Step(c)
  PROVE  Fresh'
<1> USE DEF Fresh, Writing
<1>1. CASE SMTPStep(c) /\ UNCHANGED popvars
  <2> SUFFICES ASSUME NEW u \in User, NEW m \in delivered'[u]
               PROVE  /\ m.no <= mailno'[m.from]
                      /\ smtp'[m.from] \in {"helo", "mail", "rcpt", "data", "body"} \cup Writing =>
                            m.no < mailno'[m.from]
    OBVIOUS
  <2> USE DEF SMTPTypeOK, SMTPGoto, SMTPEnd, At
  <2>1. CASE Write(c) /\ smtp[c] = "text" /\ m \notin delivered[u]
    <3>1. m = MailOf(c)
      BY <2>1, Addressed, HomeAssumption DEF Write, Addressed, FilesTypeOK
    <3> QED BY <2>1, <3>1 DEF Write, MailOf
  <2>2. CASE m \in delivered[u] /\ ~ SMTPAccept(c)
    <3>1. m \in Mail
      BY <2>2 DEF FilesTypeOK
    <3>2. m.from \in Client /\ m.no \in Nat
      BY <3>1 DEF Mail
    <3>3. mailno' = mailno
      BY <1>1, <2>2 DEF SMTPStep, HELO, DATA, Body, Write, SMTPQuit, SMTPLost, SMTPKilled, MAIL, RCPT
    <3>4. smtp'[c] \in {"helo", "mail", "rcpt", "data", "body"} \cup Writing =>
             smtp[c] \in {"helo", "mail", "rcpt", "data", "body"} \cup Writing
      <4>1. CASE HELO(c) \/ Body(c) \/ SMTPQuit(c) \/ SMTPLost(c) \/ SMTPKilled(c)
        BY <4>1 DEF HELO, Body, SMTPQuit, SMTPLost, SMTPKilled
      <4>2. CASE DATA(c)
        BY <4>2 DEF DATA
      <4>3. CASE Write(c)
        BY <4>3 DEF Write
      <4>4. CASE \E w \in Names : MAIL(c, w) \/ RCPT(c, w)
        BY <4>4 DEF MAIL, RCPT
      <4> QED BY <1>1, <2>2, <4>1, <4>2, <4>3, <4>4 DEF SMTPStep
    <3> QED BY <1>1, <2>2, <3>2, <3>3, <3>4, SMTPFrame
  <2>3. CASE SMTPAccept(c)
    <3>1. m \in delivered[u]
      BY <2>3 DEF SMTPAccept, files
    <3>2. m \in Mail
      BY <3>1 DEF FilesTypeOK
    <3>3. m.from \in Client /\ m.no \in Nat
      BY <3>2 DEF Mail
    <3> QED BY <2>3, <3>1, <3>3 DEF SMTPAccept
  <2>4. \/ Write(c) /\ smtp[c] = "text"
        \/ delivered' = delivered
    <3>1. CASE Write(c)
      BY <3>1 DEF Write
    <3>2. CASE ~ Write(c)
      BY <1>1, <3>2 DEF SMTPStep, SMTPAccept, HELO, DATA, Body, SMTPQuit, SMTPLost, SMTPKilled,
                        MAIL, RCPT, files
    <3> QED BY <3>1, <3>2
  <2> QED BY <2>1, <2>2, <2>3, <2>4
<1>2. CASE POPStep(c) /\ UNCHANGED smtpvars
  <2>1. delivered' = delivered
    BY <1>2 DEF POPStep, POPAccept, PASS, RSET, NullMailbox, BrokenPipe, Truncate, Rewrite,
                POPKilled, USER, DELE, files
  <2> QED BY <1>2, <2>1 DEF smtpvars
<1>3. CASE UNCHANGED <<files, smtpvars, popvars>>
  BY <1>3 DEF files, smtpvars
<1> QED BY <1>1, <1>2, <1>3, StepKinds

(***************************************************************************)
(* Who uses a mailbox on which nobody clashes.                             *)
(***************************************************************************)

LEMMA ReaderAlone ==
  \A u \in User, c \in Client : ~ Clash(u) /\ c \in Readers(u) =>
      /\ Readers(u) = {c} /\ Updaters(u) = {} /\ Writers(u) \subseteq {c}
      /\ Box(u) = MailsIn(file[u].mails) /\ Marks(u) = marked[c]
<1> SUFFICES ASSUME NEW u \in User, NEW c \in Client, ~ Clash(u), c \in Readers(u)
             PROVE  /\ Readers(u) = {c} /\ Updaters(u) = {} /\ Writers(u) \subseteq {c}
                    /\ Box(u) = MailsIn(file[u].mails) /\ Marks(u) = marked[c]
  OBVIOUS
<1>1. pop[c] = "ready" /\ owner[c] = u /\ Uses(c, u)
  BY DEF Readers, Uses
<1>2. \A d \in Client : d # c => ~ Uses(d, u)
  BY <1>1 DEF Clash
<1>3. Readers(u) = {c} /\ Updaters(u) = {} /\ Writers(u) \subseteq {c}
  BY <1>1, <1>2 DEF Readers, Updaters, Writers, Uses
<1>4. Marks(u) = marked[c]
  BY <1>3 DEF Marks
<1> QED BY <1>3, <1>4 DEF Box

\* With an empty file, a mailbox under an update is what will be written to it.
LEMMA NothingSince ==
  ASSUME NEW l \in Seq(Seq(Piece)), NEW M
  PROVE  Kept(l, M) \o <<>> = Kept(l, M)
BY KeptIn

LEMMA UpdaterAlone ==
  \A u \in User, c \in Client : POPTypeOK /\ MailboxInv(u) /\ c \in Updaters(u) =>
      /\ Readers(u) = {} /\ Updaters(u) = {c} /\ Writers(u) \subseteq {c} /\ owner[c] = u
      /\ Box(u) = MailsIn(Kept(list[c], marked[c])) /\ Marks(u) = {}
<1> SUFFICES ASSUME NEW u \in User, NEW c \in Client, POPTypeOK, MailboxInv(u),
                    c \in Updaters(u)
             PROVE  /\ Readers(u) = {} /\ Updaters(u) = {c} /\ Writers(u) \subseteq {c}
                    /\ owner[c] = u
                    /\ Box(u) = MailsIn(Kept(list[c], marked[c])) /\ Marks(u) = {}
  OBVIOUS
<1>1. pop[c] = "update" /\ name[c] = u /\ Uses(c, u) /\ owner[c] = u
  BY DEF Updaters, Uses, Clash, MailboxInv
<1>2. \A d \in Client : d # c => ~ Uses(d, u)
  BY <1>1 DEF Clash, MailboxInv
<1>3. Readers(u) = {} /\ Updaters(u) = {c} /\ Writers(u) \subseteq {c}
  BY <1>1, <1>2 DEF Readers, Updaters, Writers, Uses
<1>4. Marks(u) = {}
  BY <1>3 DEF Marks
<1>5. Box(u) = MailsIn(Kept(list[c], marked[c]))
  <2>1. (CHOOSE d \in Updaters(u) : TRUE) = c
    BY <1>3
  <2>2. Box(u) = MailsIn(Kept(list[c], marked[c]) \o file[u].mails)
    BY <1>3, <2>1 DEF Box
  <2>3. file[u].mails = <<>> /\ list[c] \in Seq(Seq(Piece))
    BY DEF MailboxInv, EmptyFile, POPTypeOK
  <2> QED BY <2>2, <2>3, NothingSince
<1> QED BY <1>1, <1>3, <1>4, <1>5

LEMMA WriterAlone ==
  \A u \in User, c \in Client : ~ Clash(u) /\ OneChild /\ smtp[c] \in Writing /\ rcpt[c] = u =>
      /\ Readers(u) = {} /\ Updaters(u) = {} /\ Writers(u) \subseteq {c}
      /\ Box(u) = MailsIn(file[u].mails) /\ Marks(u) = {}
<1> SUFFICES ASSUME NEW u \in User, NEW c \in Client, ~ Clash(u), OneChild, smtp[c] \in Writing,
                    rcpt[c] = u
             PROVE  /\ Readers(u) = {} /\ Updaters(u) = {} /\ Writers(u) \subseteq {c}
                    /\ Box(u) = MailsIn(file[u].mails) /\ Marks(u) = {}
  OBVIOUS
<1>1. Uses(c, u) /\ pop[c] \in {"none", "killed"}
  BY DEF Uses, Writing, OneChild, SMTPRuns, POPRuns
<1>2. \A d \in Client : d # c => ~ Uses(d, u)
  BY <1>1 DEF Clash
<1>3. Readers(u) = {} /\ Updaters(u) = {} /\ Writers(u) \subseteq {c}
  BY <1>1, <1>2 DEF Readers, Updaters, Writers, Uses
<1> QED BY <1>3 DEF Box, Marks

\* A POP3 child that neither reads nor updates u's mailbox, before and after its step.
LEMMA Bystander ==
  ASSUME POPTypeOK, NEW c \in Client, POPStep(c), NEW u \in User,
         c \notin Readers(u) \cup Updaters(u), (c \notin Readers(u) \cup Updaters(u))',
         file'[u] = file[u]
  PROVE  /\ Readers(u)' = Readers(u) /\ Updaters(u)' = Updaters(u)
         /\ \A d \in Readers(u) \cup Updaters(u) : list'[d] = list[d] /\ marked'[d] = marked[d]
         /\ Box(u)' = Box(u) /\ Marks(u)' = Marks(u)
<1>1. \A d \in Client : d # c =>
         /\ pop'[d] = pop[d] /\ name'[d] = name[d] /\ owner'[d] = owner[d]
         /\ list'[d] = list[d] /\ marked'[d] = marked[d]
  BY POPFrame
<1>2. Readers(u)' = Readers(u) /\ Updaters(u)' = Updaters(u)
  BY <1>1 DEF Readers, Updaters
<1>3. \A d \in Readers(u) \cup Updaters(u) : list'[d] = list[d] /\ marked'[d] = marked[d]
  BY <1>1 DEF Readers, Updaters
<1>4. Marks(u)' = Marks(u)
  BY <1>2, <1>3 DEF Marks
<1>5. Box(u)' = Box(u)
  <2>1. CASE Updaters(u) = {}
    BY <1>2, <2>1 DEF Box, MailsIn, MailIn
  <2>2. CASE Updaters(u) # {}
    <3> DEFINE e == CHOOSE d \in Updaters(u) : TRUE
    <3>1. e \in Updaters(u) /\ e' = e
      BY <1>2, <2>2
    <3>2. Box(u) = MailsIn(Kept(list[e], marked[e]) \o file[u].mails)
      BY <2>2 DEF Box
    <3>3. Box(u)' = MailsIn(Kept(list'[e], marked'[e]) \o file'[u].mails)
      BY <1>2, <2>2 DEF Box, MailsIn, MailIn
    <3>4. list'[e] = list[e] /\ marked'[e] = marked[e]
      BY <1>3, <3>1
    <3> QED BY <3>2, <3>3, <3>4
  <2> QED BY <2>1, <2>2
<1> QED BY <1>2, <1>3, <1>4, <1>5

\* What Box and Marks depend on.
LEMMA BoxSame ==
  ASSUME UNCHANGED popvars, NEW u \in User, file'[u].mails = file[u].mails
  PROVE  Box(u)' = Box(u) /\ Marks(u)' = Marks(u) /\ Readers(u)' = Readers(u)
         /\ Updaters(u)' = Updaters(u)
<1>1. Updaters(u)' = Updaters(u) /\ Readers(u)' = Readers(u)
  BY DEF popvars, Updaters, Readers
<1>2. Marks(u)' = Marks(u)
  BY <1>1 DEF popvars, Marks
<1> QED BY <1>1, <1>2 DEF popvars, Box, MailsIn, MailIn

(***************************************************************************)
(* What a step does to a mailbox that is clean before and after it.        *)
(***************************************************************************)

\* A step of the store on u's mailbox, or none.
StoreMove(u) ==
    \/ Store!Arrive(u) \/ Store!Mark(u) \/ Store!Unmark(u) \/ Store!Expunge(u)
    \/ UNCHANGED <<Box(u), Marks(u), delivered[u]>>

\* The mail that a whole text is.
LEMMA WholeMail ==
  ASSUME NEW m
  PROVE  MailIn(Whole(m)) = m /\ IsWhole(Whole(m))
BY DEF MailIn, IsWhole, Whole

\* The pieces of a mail, one after the other.
LEMMA Appends ==
  ASSUME NEW a, NEW b, NEW c
  PROVE  Append(<<a>>, b) = <<a, b>> /\ Append(<<a, b>>, c) = <<a, b, c>>
<1>1. ASSUME NEW s \in Seq({a, b, c}), NEW x \in {a, b, c}, NEW t \in Seq({a, b, c}),
             Len(t) = Len(s) + 1, \A i \in 1..Len(s) : t[i] = s[i], t[Len(s) + 1] = x
      PROVE  Append(s, x) = t
  <2>1. /\ Append(s, x) \in Seq({a, b, c}) /\ Len(Append(s, x)) = Len(s) + 1
        /\ \A i \in 1..Len(s) : Append(s, x)[i] = s[i]
        /\ Append(s, x)[Len(s) + 1] = x /\ Len(s) \in Nat
    BY AppendProperties, LenProperties
  <2>2. \A i \in 1..(Len(s) + 1) : i \in 1..Len(s) \/ i = Len(s) + 1
    BY <2>1
  <2>3. \A i \in 1..(Len(s) + 1) : Append(s, x)[i] = t[i]
    BY <1>1, <2>1, <2>2
  <2> QED BY <1>1, <2>1, <2>3, SeqEqual
<1>2. /\ <<a>> \in Seq({a, b, c}) /\ Len(<<a>>) = 1 /\ <<a>>[1] = a
      /\ <<a, b>> \in Seq({a, b, c}) /\ Len(<<a, b>>) = 2 /\ <<a, b>>[1] = a /\ <<a, b>>[2] = b
      /\ <<a, b, c>> \in Seq({a, b, c}) /\ Len(<<a, b, c>>) = 3
      /\ <<a, b, c>>[1] = a /\ <<a, b, c>>[2] = b /\ <<a, b, c>>[3] = c
  OBVIOUS
<1>3. Append(<<a>>, b) = <<a, b>>
  <2> DEFINE s == <<a>>
             t == <<a, b>>
  <2>1. s \in Seq({a, b, c}) /\ Len(s) = 1 /\ t \in Seq({a, b, c}) /\ Len(t) = 2
        /\ s[1] = a /\ t[1] = a /\ t[2] = b
    BY <1>2
  <2> HIDE DEF s, t
  <2>2. \A i \in 1..Len(s) : t[i] = s[i]
    BY <2>1
  <2>3. Append(s, b) = t
    BY <1>1, <2>1, <2>2
  <2> QED BY <2>3 DEF s, t
<1>4. Append(<<a, b>>, c) = <<a, b, c>>
  <2> DEFINE s == <<a, b>>
             t == <<a, b, c>>
  <2>1. s \in Seq({a, b, c}) /\ Len(s) = 2 /\ t \in Seq({a, b, c}) /\ Len(t) = 3
        /\ s[1] = a /\ s[2] = b /\ t[1] = a /\ t[2] = b /\ t[3] = c
    BY <1>2
  <2> HIDE DEF s, t
  <2>2. \A i \in 1..Len(s) : t[i] = s[i]
    <3>1. \A i \in 1..Len(s) : i = 1 \/ i = 2
      BY <2>1
    <3> QED BY <2>1, <3>1
  <2>3. t[Len(s) + 1] = c /\ Len(t) = Len(s) + 1
    BY <2>1
  <2>4. Append(s, c) = t
    BY <1>1, <2>1, <2>2, <2>3
  <2> QED BY <2>4 DEF s, t
<1> QED BY <1>3, <1>4

\* SMTP steps that write nothing.
LEMMA SMTPQuiet ==
  ASSUME SMTPTypeOK, NEW c \in Client, SMTPStep(c), ~ Write(c), UNCHANGED popvars,
         NEW u \in User, MailboxInv(u), ~ Clash(u)'
  PROVE  MailboxInv(u)' /\ StoreMove(u)
<1>1. file' = file /\ delivered' = delivered
  BY DEF SMTPStep, SMTPAccept, HELO, DATA, Body, SMTPQuit, SMTPLost, SMTPKilled, MAIL, RCPT, files
<1>2. Box(u)' = Box(u) /\ Marks(u)' = Marks(u) /\ Readers(u)' = Readers(u)
      /\ Updaters(u)' = Updaters(u)
  BY <1>1, BoxSame
<1>3. Writers(u)' = Writers(u) /\ \A d \in Writers(u) : Written(d)' = Written(d)
  <2>1. c \notin Writers(u)' /\ c \notin Writers(u)
    <3> USE DEF SMTPTypeOK, SMTPGoto, SMTPEnd, At, Writers
    <3>1. CASE SMTPAccept(c)
      BY <3>1 DEF SMTPAccept
    <3>2. CASE HELO(c) \/ Body(c) \/ SMTPQuit(c) \/ SMTPLost(c)
      BY <3>2 DEF HELO, Body, SMTPQuit, SMTPLost
    <3>3. CASE DATA(c)
      BY <3>3 DEF DATA
    <3>4. CASE SMTPKilled(c)
      <4>1. smtp'[c] = "killed" /\ rcpt'[c] = rcpt[c]
        BY <3>4 DEF SMTPKilled
      <4>2. rcpt[c] # u
        BY <4>1 DEF Clash
      <4> QED BY <4>1, <4>2
    <3>5. CASE \E w \in Names : MAIL(c, w) \/ RCPT(c, w)
      BY <3>5 DEF MAIL, RCPT
    <3> QED BY <3>1, <3>2, <3>3, <3>4, <3>5 DEF SMTPStep
  <2>2. \A d \in Client : d # c =>
           smtp'[d] = smtp[d] /\ rcpt'[d] = rcpt[d] /\ mailno'[d] = mailno[d]
    BY SMTPFrame
  <2>3. Writers(u)' = Writers(u)
    BY <2>1, <2>2 DEF Writers
  <2>4. \A d \in Writers(u) : Written(d)' = Written(d)
    BY <2>1, <2>2 DEF Writers, Written, MailOf, Whole
  <2> QED BY <2>3, <2>4
<1>4. list' = list
  BY DEF popvars
<1>5. MailboxInv(u)'
  BY <1>1, <1>2, <1>3, <1>4 DEF MailboxInv, AllWhole, IsWhole, Whole
<1> QED BY <1>1, <1>2, <1>5 DEF StoreMove

\* The three writes of a mail.
LEMMA SMTPWrites ==
  ASSUME FilesTypeOK, SMTPTypeOK, OneChild, Fresh, NEW c \in Client, Write(c), UNCHANGED popvars,
         NEW u \in User, MailboxInv(u), ~ Clash(u)'
  PROVE  MailboxInv(u)' /\ StoreMove(u)
<1> DEFINE p == [mail |-> MailOf(c), part |-> smtp[c]]
<1>0. SMTPStep(c) /\ list' = list
  BY DEF SMTPStep, popvars
<1>1. \A d \in Client : d # c =>
         smtp'[d] = smtp[d] /\ rcpt'[d] = rcpt[d] /\ mailno'[d] = mailno[d]
  BY <1>0, SMTPFrame
<1>2. smtp[c] \in Writing /\ rcpt' = rcpt /\ mailno' = mailno
  BY DEF Write
<1>3. CASE rcpt[c] # u
  <2>1. file'[u] = file[u] /\ delivered'[u] = delivered[u]
    <3>1. delivered' = delivered \/ delivered' = [delivered EXCEPT ![rcpt[c]] = @ \cup {MailOf(c)}]
      BY DEF Write, Writing
    <3> QED BY <1>3, <3>1 DEF Write, FilesTypeOK
  <2>2. Box(u)' = Box(u) /\ Marks(u)' = Marks(u) /\ Readers(u)' = Readers(u)
        /\ Updaters(u)' = Updaters(u)
    BY <2>1, BoxSame
  <2>3. Writers(u)' = Writers(u) /\ c \notin Writers(u)
    BY <1>1, <1>2, <1>3 DEF Writers
  <2>4. \A d \in Writers(u) : Written(d)' = Written(d)
    BY <1>1, <2>3 DEF Writers, Written, MailOf, Whole
  <2>5. MailboxInv(u)'
    BY <1>0, <2>1, <2>2, <2>3, <2>4 DEF MailboxInv, AllWhole, IsWhole, Whole
  <2> QED BY <2>1, <2>2, <2>5 DEF StoreMove
<1>4. CASE rcpt[c] = u
  <2>1. /\ Readers(u) = {} /\ Updaters(u) = {} /\ Writers(u) \subseteq {c}
        /\ Box(u) = MailsIn(file[u].mails) /\ Marks(u) = {}
    BY <1>2, <1>4, WriterAlone DEF MailboxInv
  <2>2. Readers(u)' = {} /\ Updaters(u)' = {} /\ Marks(u)' = {}
    BY <2>1 DEF popvars, Readers, Updaters, Marks
  <2>3. file'[u] = Appended(file[u], p)
    BY <1>4 DEF Write, FilesTypeOK
  <2>4. Writers(u)' \subseteq {c} /\ MailOf(c)' = MailOf(c)
    BY <1>1, <1>2, <2>1 DEF Writers, MailOf
  <2>5. Box(u)' = MailsIn(file'[u].mails)
    BY <2>2 DEF Box, MailsIn, MailIn, Whole
  <2>6. file[u] = [mails |-> file[u].mails, tail |-> file[u].tail]
        /\ file[u].mails \in Seq(Seq(Piece)) /\ file[u].tail \in Seq(Piece)
    BY DEF FilesTypeOK, File
  <2>7. CASE smtp[c] # "text"
    <3>1. file'[u] = [mails |-> file[u].mails, tail |-> Append(file[u].tail, p)]
      BY <2>3, <2>6, <2>7 DEF Appended
    <3>2. delivered' = delivered
      BY <1>2, <2>7 DEF Write, Writing
    <3>3. CASE smtp[c] = "head"
      <4>1. smtp'[c] = "time"
        BY <3>3 DEF Write, SMTPGoto, SMTPTypeOK
      <4>2. Writers(u) = {}
        BY <2>1, <3>3 DEF Writers
      <4>3. file'[u].tail = << p >>
        <5>1. file[u].tail = <<>>
          BY <4>2 DEF MailboxInv
        <5> QED BY <3>1, <5>1
      <4>4. Written(c)' = << p >>
        BY <2>4, <3>3, <4>1 DEF Written, Whole
      <4>5. c \in Writers(u)'
        BY <1>2, <1>4, <4>1 DEF Writers
      <4>6. AllWhole(file'[u].mails)
        BY <3>1 DEF MailboxInv, AllWhole, IsWhole
      <4>7. MailboxInv(u)'
        BY <2>2, <2>4, <4>3, <4>4, <4>5, <4>6 DEF MailboxInv, AllWhole, IsWhole, Whole
      <4> QED BY <2>1, <2>2, <2>5, <3>1, <3>2, <4>7 DEF StoreMove
    <3>4. CASE smtp[c] = "time"
      <4>1. smtp'[c] = "text"
        BY <3>4 DEF Write, SMTPGoto, SMTPTypeOK
      <4>2. c \in Writers(u)
        BY <1>4, <3>4 DEF Writers
      <4>3. file[u].tail = << [mail |-> MailOf(c), part |-> "head"] >>
        BY <3>4, <4>2 DEF MailboxInv, Written, Whole
      <4>4. file'[u].tail = << [mail |-> MailOf(c), part |-> "head"], p >>
        BY <3>1, <4>3, Appends
      <4>5. Written(c)' = << [mail |-> MailOf(c), part |-> "head"], p >>
        BY <2>4, <3>4, <4>1 DEF Written, Whole
      <4>6. c \in Writers(u)'
        BY <1>2, <1>4, <4>1 DEF Writers
      <4>7. AllWhole(file'[u].mails)
        BY <3>1 DEF MailboxInv, AllWhole, IsWhole
      <4>8. MailboxInv(u)'
        BY <2>2, <2>4, <4>4, <4>5, <4>6, <4>7 DEF MailboxInv, AllWhole, IsWhole, Whole
      <4> QED BY <2>1, <2>2, <2>5, <3>1, <3>2, <4>8 DEF StoreMove
    <3> QED BY <1>2, <2>7, <3>3, <3>4 DEF Writing
  <2>8. CASE smtp[c] = "text"
    <3>1. smtp'[c] = "quit" /\ delivered'[u] = delivered[u] \cup {MailOf(c)}
      BY <1>4, <2>8 DEF Write, SMTPGoto, SMTPTypeOK, FilesTypeOK
    <3>2. c \in Writers(u)
      BY <1>4, <2>8 DEF Writers
    <3>3. file[u].tail = << [mail |-> MailOf(c), part |-> "head"],
                            [mail |-> MailOf(c), part |-> "time"] >>
      BY <2>8, <3>2 DEF MailboxInv, Written, Whole
    <3>4. Append(file[u].tail, p) = Whole(MailOf(c))
      BY <2>8, <3>3, Appends DEF Whole
    <3>5. file'[u].mails = Append(file[u].mails, Whole(MailOf(c))) /\ file'[u].tail = <<>>
      BY <2>3, <2>8, <3>4 DEF Appended
    <3>6. /\ DOMAIN file'[u].mails = 1..(Len(file[u].mails) + 1)
          /\ DOMAIN file[u].mails = 1..Len(file[u].mails) /\ Len(file[u].mails) \in Nat
          /\ \A i \in 1..Len(file[u].mails) : file'[u].mails[i] = file[u].mails[i]
          /\ file'[u].mails[Len(file[u].mails) + 1] = Whole(MailOf(c))
      <4>1. Whole(MailOf(c)) \in Seq(Piece)
        <5>1. p \in Piece
          BY <2>8 DEF Piece, Parts, MailOf, Mail, SMTPTypeOK
        <5>2. Append(file[u].tail, p) \in Seq(Piece)
          BY <2>6, <5>1, AppendProperties
        <5> QED BY <3>4, <5>2
      <4> QED BY <2>6, <3>5, <4>1, AppendProperties, LenProperties
    <3>7. AllWhole(file'[u].mails)
      BY <3>6, WholeMail DEF MailboxInv, AllWhole
    <3>8. MailsIn(file'[u].mails) = Append(MailsIn(file[u].mails), MailOf(c))
      <4> DEFINE n == Len(file[u].mails)
                 old == MailsIn(file[u].mails)
                 new == MailsIn(file'[u].mails)
      <4>1. old = [i \in 1..n |-> MailIn(file[u].mails[i])] /\ n \in Nat
        BY <3>6 DEF MailsIn
      <4>2. new = [i \in 1..(n + 1) |-> MailIn(file'[u].mails[i])]
        BY <3>6 DEF MailsIn
      <4>3. Len(old) = n
        BY <4>1
      <4>4. new = [i \in 1..(n + 1) |-> IF i = n + 1 THEN MailOf(c) ELSE old[i]]
        BY <3>6, <4>1, <4>2, WholeMail
      <4> QED BY <4>1, <4>3, <4>4
    <3>9. MailOf(c) \notin delivered[u] /\ MailOf(c) \in Mail
      BY <2>8 DEF Fresh, MailOf, Writing, Mail, SMTPTypeOK
    <3>10. Writers(u)' = {}
      BY <2>4, <3>1 DEF Writers
    <3>11. MailboxInv(u)'
      BY <2>2, <3>5, <3>7, <3>10 DEF MailboxInv, AllWhole, IsWhole, Whole
    <3>12. Store!Arrive(u)
      BY <2>1, <2>2, <2>5, <3>1, <3>8, <3>9 DEF Store!Arrive
    <3> QED BY <3>11, <3>12 DEF StoreMove
  <2> QED BY <2>7, <2>8
<1> QED BY <1>3, <1>4

\* A POP3 child that has nothing to do with the mailbox.
LEMMA POPApart ==
  ASSUME POPTypeOK, NEW c \in Client, POPStep(c), UNCHANGED smtpvars,
         NEW u \in User, MailboxInv(u), ~ Clash(u)',
         c \notin Readers(u) \cup Updaters(u), (c \notin Readers(u) \cup Updaters(u))',
         file'[u] = file[u], delivered' = delivered
  PROVE  MailboxInv(u)' /\ StoreMove(u)
<1>1. /\ Readers(u)' = Readers(u) /\ Updaters(u)' = Updaters(u)
      /\ \A d \in Readers(u) \cup Updaters(u) : list'[d] = list[d] /\ marked'[d] = marked[d]
      /\ Box(u)' = Box(u) /\ Marks(u)' = Marks(u)
  BY Bystander
<1>2. Writers(u)' = Writers(u) /\ \A d \in Writers(u) : Written(d)' = Written(d)
  BY DEF smtpvars, Writers, Written, MailOf
<1>3. MailboxInv(u)'
  BY <1>1, <1>2 DEF MailboxInv, AllWhole, IsWhole, Whole
<1> QED BY <1>1, <1>3 DEF StoreMove

\* A POP3 child that reads the mailbox and leaves it.
LEMMA POPLeaves ==
  ASSUME POPTypeOK, NEW c \in Client, POPStep(c), UNCHANGED smtpvars,
         NEW u \in User, MailboxInv(u), ~ Clash(u)',
         c \in Readers(u), (c \notin Readers(u) \cup Updaters(u))',
         file'[u] = file[u], delivered' = delivered
  PROVE  MailboxInv(u)' /\ StoreMove(u)
<1>1. Readers(u) = {c} /\ Updaters(u) = {} /\ Box(u) = MailsIn(file[u].mails)
  BY ReaderAlone DEF MailboxInv
<1>2. Readers(u)' = {} /\ Updaters(u)' = {}
  <2>1. \A d \in Client : d # c =>
           pop'[d] = pop[d] /\ name'[d] = name[d] /\ owner'[d] = owner[d]
    BY POPFrame
  <2> QED BY <1>1, <2>1 DEF Readers, Updaters
<1>3. Box(u)' = Box(u) /\ Marks(u)' = {}
  BY <1>1, <1>2 DEF Box, Marks, MailsIn, MailIn, Whole
<1>4. Writers(u)' = Writers(u) /\ \A d \in Writers(u) : Written(d)' = Written(d)
  BY DEF smtpvars, Writers, Written, MailOf
<1>5. MailboxInv(u)'
  BY <1>2, <1>4 DEF MailboxInv, AllWhole, IsWhole, Whole
<1>6. Store!Unmark(u)
  BY <1>3 DEF Store!Unmark
<1> QED BY <1>5, <1>6 DEF StoreMove

\* A POP3 child that reads the mailbox after its step; it has read it then, or its
\* list is as it was.
LEMMA POPReads ==
  ASSUME POPTypeOK, NEW c \in Client, POPStep(c), UNCHANGED smtpvars,
         NEW u \in User, MailboxInv(u), ~ Clash(u)',
         pop[c] = "ready", pop'[c] = "ready", owner'[c] = u,
         file'[u] = file[u], delivered' = delivered,
         list'[c] = file[u].mails
  PROVE  /\ MailboxInv(u)' /\ Box(u) = MailsIn(file[u].mails) /\ Box(u)' = Box(u)
         /\ Marks(u)' = marked'[c]
<1>1. \A d \in Client : d # c =>
         pop'[d] = pop[d] /\ name'[d] = name[d] /\ owner'[d] = owner[d]
  BY POPFrame
<1>2. \A d \in Client : d # c => ~ Uses(d, u)'
  BY DEF Clash, Uses
<1>3. Updaters(u) = {}
  BY <1>1, <1>2 DEF Updaters, Uses
<1>4. Readers(u)' = {c} /\ Updaters(u)' = {}
  BY <1>2 DEF Readers, Updaters, Uses
<1>5. Box(u) = MailsIn(file[u].mails) /\ Box(u)' = Box(u)
  BY <1>3, <1>4 DEF Box, MailsIn, MailIn, Whole
<1>6. Marks(u)' = marked'[c]
  BY <1>4 DEF Marks
<1>7. Writers(u)' = Writers(u) /\ \A d \in Writers(u) : Written(d)' = Written(d)
  BY DEF smtpvars, Writers, Written, MailOf
<1>8. MailboxInv(u)'
  BY <1>4, <1>7 DEF MailboxInv, AllWhole, IsWhole, Whole
<1> QED BY <1>5, <1>6, <1>8

\* The store deletes from a list as popserver.c does.
LEMMA KeptSame ==
  ASSUME NEW l, NEW M
  PROVE  Store!Kept(l, M) = Kept(l, M)
BY Zenon DEF Store!Kept, Kept, Store!Increasing, Increasing, Store!Cardinality, Cardinality

\* The first half of an update removes what is marked.
LEMMA POPTruncates ==
  ASSUME FilesTypeOK, POPTypeOK, OneChild, NEW c \in Client, Truncate(c), UNCHANGED smtpvars,
         NEW u \in User, MailboxInv(u), ~ Clash(u)', name[c] = u, u \in Home
  PROVE  MailboxInv(u)' /\ StoreMove(u)
<1>1. /\ pop[c] = "ready" /\ pop'[c] = "update" /\ file'[u] = EmptyFile
      /\ UNCHANGED <<name, owner, list, marked, delivered>>
  BY DEF Truncate, POPGoto, POPTypeOK, FilesTypeOK
<1>2. owner[c] = u
  BY <1>1 DEF Clash
<1>3. c \in Readers(u)
  BY <1>1, <1>2 DEF Readers
<1>4. /\ Readers(u) = {c} /\ Updaters(u) = {} /\ Writers(u) \subseteq {c}
      /\ Box(u) = MailsIn(file[u].mails) /\ Marks(u) = marked[c]
  BY <1>3, ReaderAlone DEF MailboxInv
<1>5. \A d \in Client : d # c => ~ Uses(d, u)'
  BY <1>1 DEF Clash, Uses
<1>6. Readers(u)' = {} /\ Updaters(u)' = {c} /\ Marks(u)' = {}
  BY <1>1, <1>5 DEF Readers, Updaters, Uses, Marks
<1>7. Box(u)' = MailsIn(Kept(list[c], marked[c]))
  <2>1. (CHOOSE d \in Updaters(u)' : TRUE) = c
    BY <1>6
  <2>2. Box(u)' = MailsIn(Kept(list[c], marked[c]) \o file'[u].mails)
    BY <1>1, <1>6, <2>1 DEF Box, MailsIn, MailIn, Whole
  <2>3. file'[u].mails = <<>> /\ list[c] \in Seq(Seq(Piece))
    BY <1>1 DEF EmptyFile, POPTypeOK
  <2> QED BY <2>2, <2>3, NothingSince
<1>8. list[c] = file[u].mails
  BY <1>3 DEF MailboxInv
<1>9. Box(u)' = Kept(Box(u), Marks(u))
  <2>1. list[c] \in Seq(Seq(Piece))
    BY DEF POPTypeOK
  <2> QED BY <1>4, <1>7, <1>8, <2>1, KeptIn
<1>10. Store!Expunge(u)
  BY <1>1, <1>6, <1>9, KeptSame DEF Store!Expunge
<1>11. Writers(u)' = {}
  <2>1. ~ SMTPRuns(c)
    BY <1>1 DEF OneChild, POPRuns
  <2> QED BY <1>4, <2>1 DEF smtpvars, Writers, SMTPRuns
<1>12. MailboxInv(u)'
  BY <1>1, <1>6, <1>8, <1>11 DEF MailboxInv, AllWhole, IsWhole, Whole, EmptyFile
<1> QED BY <1>10, <1>12 DEF StoreMove

\* What is written over an empty mailbox is all there is then.
LEMMA OverlaidEmpty ==
  ASSUME NEW ms, NEW g \in Overlaid(ms, EmptyFile)
  PROVE  g = [mails |-> ms, tail |-> <<>>]
<1>1. CASE ms = <<>>
  BY <1>1 DEF Overlaid, EmptyFile
<1>2. CASE ms # <<>>
  <2>1. PICK r \in Remains(EmptyFile) :
           g = [mails |-> IF r.mails = <<>> THEN ms ELSE ms \o r.mails, tail |-> r.tail]
    BY <1>2 DEF Overlaid
  <2>2. \A k \in Nat \ {0} : From(<<>>, k) = <<>>
    BY SubSeqEmpty DEF From
  <2>3. r.mails = <<>> /\ r.tail = <<>>
    <3>1. Len(EmptyFile.mails) = 0 /\ Len(EmptyFile.tail) = 0 /\ DOMAIN EmptyFile.mails = {}
      BY DEF EmptyFile
    <3>2. \/ r \in { [EmptyFile EXCEPT !.mails = From(@, k)] : k \in 1..1 }
          \/ r \in { [mails |-> <<>>, tail |-> From(EmptyFile.tail, j)] : j \in 1..1 }
      BY <3>1 DEF Remains
    <3> QED BY <2>2, <3>2 DEF EmptyFile
  <2> QED BY <2>1, <2>3
<1> QED BY <1>1, <1>2

\* The second half leaves the mailbox as the first half has promised.
LEMMA POPRewrites ==
  ASSUME FilesTypeOK, POPTypeOK, OneChild, NEW c \in Client, Rewrite(c), UNCHANGED smtpvars,
         NEW u \in User, MailboxInv(u), ~ Clash(u)', name[c] = u
  PROVE  MailboxInv(u)' /\ StoreMove(u)
<1> DEFINE ms == Kept(list[c], marked[c])
<1>0. POPStep(c)
  BY DEF POPStep
<1>1. pop[c] = "update" /\ pop'[c] = "none" /\ delivered' = delivered
  BY DEF Rewrite, POPEnd, POPGoto, POPTypeOK
<1>2. c \in Updaters(u)
  BY <1>1 DEF Updaters
<1>3. /\ Readers(u) = {} /\ Updaters(u) = {c} /\ Writers(u) \subseteq {c} /\ owner[c] = u
      /\ Box(u) = MailsIn(ms) /\ Marks(u) = {}
  BY <1>2, UpdaterAlone
<1>4. Readers(u)' = {} /\ Updaters(u)' = {} /\ Marks(u)' = {}
  <2>1. \A d \in Client : d # c =>
           pop'[d] = pop[d] /\ name'[d] = name[d] /\ owner'[d] = owner[d]
    BY <1>0, POPFrame
  <2> QED BY <1>1, <1>3, <2>1 DEF Readers, Updaters, Marks
<1>5. file'[u] = [mails |-> ms, tail |-> <<>>]
  <2>1. file[u] = EmptyFile
    BY <1>2 DEF MailboxInv
  <2>2. PICK g \in Overlaid(ms, file[u]) : file' = [file EXCEPT ![u] = g]
    BY DEF Rewrite
  <2>3. g = [mails |-> ms, tail |-> <<>>]
    BY <2>1, <2>2, OverlaidEmpty
  <2> QED BY <2>2, <2>3 DEF FilesTypeOK
<1>6. Box(u)' = MailsIn(ms)
  BY <1>4, <1>5 DEF Box, MailsIn, MailIn, Whole
<1>7. AllWhole(ms)
  <2>1. list[c] \in Seq(Seq(Piece)) /\ AllWhole(list[c])
    BY <1>2 DEF POPTypeOK, MailboxInv
  <2> QED BY <2>1, KeptIn DEF AllWhole
<1>8. Writers(u)' = {}
  <2>1. ~ SMTPRuns(c)
    BY <1>1 DEF OneChild, POPRuns
  <2> QED BY <1>3, <2>1 DEF smtpvars, Writers, SMTPRuns
<1>9. MailboxInv(u)'
  <2>1. AllWhole(file'[u].mails) /\ file'[u].tail = <<>>
    BY <1>5, <1>7
  <2> QED BY <1>4, <1>8, <2>1 DEF MailboxInv, AllWhole, IsWhole, Whole
<1> QED BY <1>1, <1>3, <1>4, <1>6, <1>9 DEF StoreMove

LEMMA POPMailbox ==
  ASSUME FilesTypeOK, POPTypeOK, OneChild, NEW c \in Client, POPStep(c), UNCHANGED smtpvars,
         NEW u \in User, MailboxInv(u), ~ Clash(u)'
  PROVE  MailboxInv(u)' /\ StoreMove(u)
<1> USE DEF POPTypeOK, POPGoto, POPEnd, Forget
<1>1. NoName # u
  BY HomeAssumption
<1>2. ASSUME pop[c] = "ready", c \notin (Readers(u) \cup Updaters(u))', file' = file,
             delivered' = delivered
      PROVE  MailboxInv(u)' /\ StoreMove(u)
  <2>1. c \notin Updaters(u)
    BY <1>2 DEF Updaters
  <2> QED BY <1>2, <2>1, POPApart, POPLeaves
<1>3. CASE POPAccept(c)
  <2>1. c \notin Readers(u) \cup Updaters(u)
    BY <1>3 DEF POPAccept, Readers, Updaters
  <2>2. (c \notin Readers(u) \cup Updaters(u))'
    BY <1>1, <1>3 DEF POPAccept, Readers, Updaters
  <2> QED BY <1>3, <2>1, <2>2, POPApart DEF POPAccept, files
<1>4. CASE NullMailbox(c) \/ BrokenPipe(c)
  <2>1. (c \notin Readers(u) \cup Updaters(u))'
    BY <1>4 DEF NullMailbox, BrokenPipe, Readers, Updaters
  <2> QED BY <1>2, <1>4, <2>1 DEF NullMailbox, BrokenPipe, files
<1>5. CASE PASS(c)
  <2>1. CASE name[c] = u /\ name[c] \in made
    <3>1. /\ pop[c] = "ready" /\ pop'[c] = "ready" /\ owner'[c] = u /\ marked'[c] = {}
          /\ list'[c] = file[u].mails /\ file' = file /\ delivered' = delivered
      BY <1>5, <2>1 DEF PASS, files
    <3>2. MailboxInv(u)' /\ Box(u)' = Box(u) /\ Marks(u)' = {}
      BY <3>1, POPReads
    <3> QED BY <3>1, <3>2 DEF StoreMove, Store!Unmark
  <2>2. CASE ~ (name[c] = u /\ name[c] \in made)
    <3>1. (c \notin Readers(u) \cup Updaters(u))'
      BY <1>5, <2>2 DEF PASS, Readers, Updaters
    <3> QED BY <1>2, <1>5, <3>1 DEF PASS, files
  <2> QED BY <2>1, <2>2
<1>6. CASE RSET(c)
  <2>1. CASE owner[c] = u
    <3>1. c \in Readers(u) /\ list'[c] = list[c]
      BY <1>6, <2>1 DEF RSET, Readers
    <3>2. /\ pop[c] = "ready" /\ pop'[c] = "ready" /\ owner'[c] = u /\ marked'[c] = {}
          /\ list'[c] = file[u].mails /\ file' = file /\ delivered' = delivered
      BY <1>6, <2>1, <3>1 DEF RSET, files, MailboxInv
    <3>3. MailboxInv(u)' /\ Box(u)' = Box(u) /\ Marks(u)' = {}
      BY <3>2, POPReads
    <3> QED BY <3>2, <3>3 DEF StoreMove, Store!Unmark
  <2>2. CASE owner[c] # u
    <3>1. (c \notin Readers(u) \cup Updaters(u))'
      BY <1>6, <2>2 DEF RSET, Readers, Updaters
    <3> QED BY <1>2, <1>6, <3>1 DEF RSET, files
  <2> QED BY <2>1, <2>2
<1>7. ASSUME NEW w \in Names, USER(c, w)
      PROVE  MailboxInv(u)' /\ StoreMove(u)
  <2>1. CASE owner[c] = u
    <3>1. c \in Readers(u) /\ list'[c] = list[c]
      BY <1>7, <2>1 DEF USER, Readers
    <3>2. /\ pop[c] = "ready" /\ pop'[c] = "ready" /\ owner'[c] = u /\ marked'[c] = marked[c]
          /\ list'[c] = file[u].mails /\ file' = file /\ delivered' = delivered
      BY <1>7, <2>1, <3>1 DEF USER, files, MailboxInv
    <3>3. MailboxInv(u)' /\ Box(u)' = Box(u) /\ Marks(u)' = marked[c]
      BY <3>2, POPReads
    <3>4. Marks(u) = marked[c]
      BY <3>1, ReaderAlone DEF MailboxInv
    <3> QED BY <3>2, <3>3, <3>4 DEF StoreMove
  <2>2. CASE owner[c] # u
    <3>1. (c \notin Readers(u) \cup Updaters(u))'
      BY <1>7, <2>2 DEF USER, Readers, Updaters
    <3> QED BY <1>2, <1>7, <3>1 DEF USER, files
  <2> QED BY <2>1, <2>2
<1>8. ASSUME NEW n \in DOMAIN list[c], DELE(c, n)
      PROVE  MailboxInv(u)' /\ StoreMove(u)
  <2>1. CASE owner[c] = u
    <3>1. c \in Readers(u) /\ list'[c] = list[c]
      BY <1>8, <2>1 DEF DELE, Readers
    <3>2. /\ pop[c] = "ready" /\ pop'[c] = "ready" /\ owner'[c] = u
          /\ marked'[c] = marked[c] \cup {n}
          /\ list'[c] = file[u].mails /\ file' = file /\ delivered' = delivered
      BY <1>8, <2>1, <3>1 DEF DELE, files, MailboxInv
    <3>3. MailboxInv(u)' /\ Box(u)' = Box(u) /\ Marks(u)' = marked[c] \cup {n}
      BY <3>2, POPReads
    <3>4. Marks(u) = marked[c] /\ Box(u) = MailsIn(file[u].mails)
      BY <3>1, ReaderAlone DEF MailboxInv
    <3>5. n \in DOMAIN Box(u)
      BY <3>1, <3>2, <3>4 DEF MailsIn
    <3> QED BY <3>2, <3>3, <3>4, <3>5 DEF StoreMove, Store!Mark
  <2>2. CASE owner[c] # u
    <3>1. (c \notin Readers(u) \cup Updaters(u))'
      BY <1>8, <2>2 DEF DELE, Readers, Updaters
    <3> QED BY <1>2, <1>8, <3>1 DEF DELE, files
  <2> QED BY <2>1, <2>2
<1>9. CASE Truncate(c)
  <2>1. CASE name[c] = u /\ u \in Home
    BY <1>9, <2>1, POPTruncates
  <2>2. CASE name[c] # u \/ u \notin Home
    <3>1. (c \notin Readers(u) \cup Updaters(u))'
      BY <1>9, <2>2 DEF Truncate, Readers, Updaters
    <3>2. file'[u] = file[u] /\ delivered' = delivered /\ pop[c] = "ready"
      BY <1>9, <2>2 DEF Truncate, FilesTypeOK
    <3>3. c \notin Updaters(u)
      BY <3>2 DEF Updaters
    <3> QED BY <3>1, <3>2, <3>3, POPApart, POPLeaves
  <2> QED BY <2>1, <2>2
<1>10. CASE Rewrite(c)
  <2>1. CASE name[c] = u
    BY <1>10, <2>1, POPRewrites
  <2>2. CASE name[c] # u
    <3>1. c \notin Readers(u) \cup Updaters(u)
      BY <1>10, <2>2 DEF Rewrite, Readers, Updaters
    <3>2. (c \notin Readers(u) \cup Updaters(u))'
      BY <1>10 DEF Rewrite, Readers, Updaters
    <3>3. file'[u] = file[u] /\ delivered' = delivered
      BY <1>10, <2>2 DEF Rewrite, FilesTypeOK
    <3> QED BY <3>1, <3>2, <3>3, POPApart
  <2> QED BY <2>1, <2>2
<1>11. CASE POPKilled(c)
  <2>1. pop[c] = "update" /\ pop'[c] = "killed" /\ name' = name
    BY <1>11 DEF POPKilled
  <2>2. name[c] # u
    BY <2>1 DEF Clash
  <2>3. c \notin Readers(u) \cup Updaters(u) /\ (c \notin Readers(u) \cup Updaters(u))'
    BY <2>1, <2>2 DEF Readers, Updaters
  <2> QED BY <1>11, <2>3, POPApart DEF POPKilled, files
<1> QED BY <1>3, <1>4, <1>5, <1>6, <1>7, <1>8, <1>9, <1>10, <1>11 DEF POPStep

\* Any step of the system, for a mailbox that is clean before and after it.
LEMMA MailboxStep ==
  ASSUME FilesTypeOK, SMTPTypeOK, POPTypeOK, OneChild, Fresh, NEW c \in Client, Step(c),
         NEW u \in User, MailboxInv(u), ~ Clash(u)'
  PROVE  MailboxInv(u)' /\ StoreMove(u)
<1>1. CASE SMTPStep(c) /\ UNCHANGED popvars
  BY <1>1, SMTPQuiet, SMTPWrites
<1>2. CASE POPStep(c) /\ UNCHANGED smtpvars
  BY <1>2, POPMailbox
<1>3. CASE UNCHANGED <<files, smtpvars, popvars>>
  <2>1. Box(u)' = Box(u) /\ Marks(u)' = Marks(u) /\ Readers(u)' = Readers(u)
        /\ Updaters(u)' = Updaters(u)
    BY <1>3, BoxSame DEF files
  <2>2. Writers(u)' = Writers(u) /\ \A d \in Writers(u) : Written(d)' = Written(d)
    BY <1>3 DEF smtpvars, Writers, Written, MailOf
  <2>3. MailboxInv(u)'
    BY <1>3, <2>1, <2>2 DEF files, popvars, MailboxInv, AllWhole, IsWhole, Whole
  <2> QED BY <1>3, <2>1, <2>3 DEF StoreMove, files
<1> QED BY <1>1, <1>2, <1>3, StepKinds

(***************************************************************************)
(* The invariant and the refinement.                                       *)
(***************************************************************************)

\* TypeOK and the sessions of the clients go along with SystemInv.
Inv == TypeOK /\ ClientInStep /\ SystemInv

LEMMA InvAtFirst ==
  ASSUME Init
  PROVE  Inv
<1>1. TypeOK /\ Addressed
  BY TypesAtFirst
<1>2. LoggedIn /\ ClientInStep /\ OneChild
  BY DEF Init, LoggedIn, ClientInStep, OneChild, SMTPInit, POPInit, SMTPRuns, POPRuns
<1>3. Fresh
  BY DEF Init, FilesInit, Fresh
<1>4. \A u \in User : MailboxInv(u)
  <2> SUFFICES ASSUME NEW u \in User PROVE MailboxInv(u)
    OBVIOUS
  <2>1. \A c \in Client : smtp[c] = "none" /\ pop[c] = "none" /\ owner[c] = NoName
    BY DEF Init, SMTPInit, POPInit
  <2>2. ~ Clash(u) /\ Writers(u) = {} /\ Readers(u) = {} /\ Updaters(u) = {}
    BY <2>1 DEF Clash, Uses, Writers, Readers, Updaters
  <2>3. file[u] = EmptyFile
    BY DEF Init, FilesInit
  <2> QED BY <2>2, <2>3 DEF MailboxInv, AllWhole, EmptyFile
<1> QED BY <1>1, <1>2, <1>3, <1>4 DEF Inv, SystemInv

LEMMA InvStep ==
  ASSUME Inv, [Next]_vars
  PROVE  /\ Inv'
         /\ \A u \in User : clean'[u] => clean[u] /\ StoreMove(u)
<1>0. FilesTypeOK /\ SMTPTypeOK /\ POPTypeOK /\ ClientTypeOK
      /\ OneChild /\ LoggedIn /\ Addressed /\ Fresh
  BY DEF Inv, SystemInv, TypeOK, FilesTypeOK, ClientTypeOK
<1>1. TypeOK' /\ Addressed'
  BY <1>0, TypeStep DEF Inv
<1>2. ASSUME NEW c \in Client, Step(c), clean' = [u \in User |-> clean[u] /\ ~ Clash(u)']
      PROVE  /\ Inv'
             /\ \A u \in User : clean'[u] => clean[u] /\ StoreMove(u)
  <2>1. \A d \in Client : SessionOK(d)'
    <3>1. \A d \in Client : SessionOK(d)
      BY <1>0 DEF Inv, LoggedIn, ClientInStep, SessionOK
    <3> QED BY <1>0, <1>2, <3>1, SessionFrame, SessionStep
  <2>2. LoggedIn' /\ ClientInStep'
    BY <2>1 DEF LoggedIn, ClientInStep, SessionOK
  <2>3. OneChild'
    <3>1. \A d \in Client : OneChildOf(d)
      BY <1>0 DEF OneChild, OneChildOf
    <3>2. \A d \in Client : OneChildOf(d)'
      BY <1>0, <1>2, <3>1, OneChildStep
    <3> QED BY <3>2 DEF OneChild, OneChildOf
  <2>4. Fresh'
    BY <1>0, <1>2, FreshStep
  <2>5. ASSUME NEW u \in User, clean'[u]
        PROVE  clean[u] /\ MailboxInv(u)' /\ StoreMove(u)
    <3>1. clean[u] /\ ~ Clash(u)'
      BY <1>2, <2>5, Zenon
    <3>2. MailboxInv(u)
      BY <3>1 DEF Inv, SystemInv
    <3> QED BY <1>0, <1>2, <3>1, <3>2, MailboxStep
  <2> QED BY <1>1, <2>2, <2>3, <2>4, <2>5 DEF Inv, SystemInv
<1>3. CASE UNCHANGED vars
  <2> USE <1>3 DEF vars, files, smtpvars, popvars, clientvars
  <2>1. LoggedIn' /\ ClientInStep' /\ OneChild' /\ Fresh'
    BY <1>0 DEF Inv, LoggedIn, ClientInStep, OneChild, Fresh, SMTPRuns, POPRuns
  <2>2. ASSUME NEW u \in User, clean'[u]
        PROVE  clean[u] /\ MailboxInv(u)' /\ StoreMove(u)
    <3>1. clean[u] /\ MailboxInv(u)
      BY <2>2 DEF Inv, SystemInv
    <3>2. Box(u)' = Box(u) /\ Marks(u)' = Marks(u) /\ Readers(u)' = Readers(u)
          /\ Updaters(u)' = Updaters(u)
      BY BoxSame
    <3>3. Writers(u)' = Writers(u) /\ \A d \in Writers(u) : Written(d)' = Written(d)
      BY DEF Writers, Written, MailOf
    <3>4. ~ Clash(u)'
      BY <3>1 DEF MailboxInv, Clash, Uses
    <3>5. MailboxInv(u)'
      BY <3>1, <3>2, <3>3, <3>4 DEF MailboxInv, AllWhole, IsWhole, Whole
    <3> QED BY <3>1, <3>2, <3>5 DEF StoreMove
  <2> QED BY <1>1, <2>1, <2>2 DEF Inv, SystemInv
<1> QED BY <1>2, <1>3 DEF Next, Tracked

\* SystemInv: as long as nobody clashes on a mailbox, it holds whole mails only, its
\* reader's list is what it holds, and the mail being written to it is new.
THEOREM CleanMailboxesWhole == Spec => []SystemInv
<1>1. Init => Inv
  BY InvAtFirst
<1>2. Inv /\ [Next]_vars => Inv'
  BY InvStep
<1>3. Inv => SystemInv
  BY DEF Inv
<1> QED BY <1>1, <1>2, <1>3, PTL DEF Spec

\* ImplementsStore: a mailbox that one child at a time has used, and that nobody broke
\* off, holds every accepted mail once, in order, but those a reader had marked.
THEOREM SystemImplementsStore == Spec => ImplementsStore
<1>1. Init => Inv /\ Store!StoreInit
  <2> SUFFICES ASSUME Init PROVE Inv /\ Store!StoreInit
    OBVIOUS
  <2>1. \A u \in User : Box(u) = <<>> /\ Marks(u) = {}
    <3>1. \A c \in Client : pop[c] = "none"
      BY DEF Init, POPInit
    <3>2. \A u \in User : Updaters(u) = {} /\ Readers(u) = {} /\ file[u].mails = <<>>
      BY <3>1 DEF Updaters, Readers, Init, FilesInit, EmptyFile
    <3>3. \A u \in User : Box(u) = MailsIn(<<>>)
      BY <3>2 DEF Box
    <3> QED BY <3>2, <3>3 DEF Marks, MailsIn
  <2> QED BY <2>1, InvAtFirst DEF Store!StoreInit, Init, FilesInit
<1>2. Inv /\ [Next]_vars => Inv' /\ [Store!StoreNext]_Store!storevars
  <2> SUFFICES ASSUME Inv, [Next]_vars PROVE Inv' /\ Store!StoreNext
    OBVIOUS
  <2>1. Inv' /\ \A u \in User : clean'[u] => clean[u] /\ StoreMove(u)
    BY InvStep
  <2>2. ASSUME NEW u \in User
        PROVE  Store!StoreStep(u) /\ (clean'[u] => clean[u])
    <3>1. CASE ~ clean'[u]
      BY <3>1 DEF Store!StoreStep
    <3>2. CASE clean'[u]
      BY <2>1, <3>2 DEF StoreMove, Store!StoreStep
    <3> QED BY <3>1, <3>2
  <2> QED BY <2>1, <2>2 DEF Store!StoreNext
<1> QED BY <1>1, <1>2, PTL DEF Spec, ImplementsStore, Store!StoreSpec
=============================================================================
