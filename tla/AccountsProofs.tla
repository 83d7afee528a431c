---------------------------- MODULE AccountsProofs ----------------------------
(***************************************************************************)
(* Proofs about Accounts: for any number of tabs, requests, codes and      *)
(* tokens, what a logout or a reset has ended stays ended, a refresh token *)
(* is exchanged once but by requests under way together, and only the      *)
(* latest code passes, once; and what the pages announce of all this is so.*)
(* The limits on how much is asked are not used.                           *)
(***************************************************************************)
EXTENDS AccountPages, FiniteSetTheorems, TLAPS

Steps == {"idle", "sent", "renew", "rotate", "wrong", "count", "spend", "commit"}
AccountRow == [status : {"PENDING_VERIFICATION", "ACTIVE", "SUSPENDED"}, verified : BOOLEAN,
               password : Password, failed : Nat, locked : {"never", "now", "before"}]
Call == [step : Steps, kind : Kinds \cup {"none"}, pw : Password, n : Nat, retry : BOOLEAN,
         tok : Nat, row : AccountRow \cup {<<>>}, seen : SUBSET Ids, found : SUBSET Ids,
         late : BOOLEAN]

History == [spent : SUBSET ({"verify", "fp"} \X Nat), ended : SUBSET Ids, missed : SUBSET Ids]

\* A request that is about to write the account has read it.
RowsRead ==
  \A a \in Actors :
    call[a].step \in {"spend", "count"} \/ (call[a].step = "commit" /\ call[a].kind # "logout")
      => call[a].row \in AccountRow

Types ==
  /\ user \in AccountRow
  /\ tokens \in [Ids -> [state : {"none", "live", "revoked", "deleted"}, of : Nat]]
  /\ call \in [Actors -> Call]
  /\ jar \in Nat
  /\ sent \in [{"verify", "fp"} -> Nat]
  /\ otp \in [{"verify", "fp"} -> SUBSET Nat]
  /\ hist \in History
  /\ RowsRead

\* Tokens are numbered as they are issued.
Numbered == \E n \in Nat : Used = 1..n

\* A token that was exchanged is not good any more.
Exchanged ==
  \A k, h \in Ids : tokens[h].of = k => tokens[k].state \in {"revoked", "deleted"}

\* What an exchange goes by when nobody else exchanged the token meanwhile.
Unexchanged ==
  \A a \in Actors : call[a].step = "rotate" /\ ~call[a].late /\ call[a].tok \in Ids =>
    \A h \in Ids : tokens[h].of # call[a].tok

\* What is ended is deleted, and what a logout or a reset came for will be, but for what a
\* read of the tokens missed.
EndedAreDeleted == \A k \in hist.ended \ hist.missed : tokens[k].state = "deleted"

FoundAreSeen ==
  \A a \in Actors : \A k \in call[a].found :
    /\ tokens[k].state # "none"
    /\ call[a].step = "commit" /\ call[a].kind \in {"logout", "reset"} =>
         k \in call[a].seen \/ tokens[k].state = "deleted" \/ k \in hist.missed

\* Only the latest code is there, and no code that was spent.
CodesAreFresh ==
  /\ \A p \in {"verify", "fp"} : otp[p] \subseteq {sent[p]}
  /\ \A p \in {"verify", "fp"}, n \in Nat : <<p, n>> \in hist.spent => n <= sent[p] /\ n \notin otp[p]
  /\ \A a \in Actors : call[a].step = "spend" => call[a].n <= sent[Purpose(call[a].kind)]

\* The inductive invariant.
IInv ==
  /\ Types
  /\ Numbered
  /\ Exchanged
  /\ Unexchanged
  /\ EndedAreDeleted
  /\ FoundAreSeen
  /\ CodesAreFresh

-----------------------------------------------------------------------------
(* Requests *)

LEMMA NoCallType ==
  /\ NoCall \in Call
  /\ NoCall.step = "idle" /\ NoCall.found = {} /\ NoCall.kind = "none"
  BY DEF NoCall, Call, Steps, Password

LEMMA GotoFacts ==
  ASSUME Types, NEW a \in Actors, NEW r \in Call, Goto(a, r)
  PROVE  /\ call' \in [Actors -> Call] /\ call'[a] = r
         /\ \A b \in Actors \ {a} : call'[b] = call[b]
  BY DEF Goto, Types

LEMMA StepFacts ==
  ASSUME Types, NEW a \in Actors, NEW s \in Steps, Step(a, s)
  PROVE  /\ call' \in [Actors -> Call]
         /\ \A b \in Actors \ {a} : call'[b] = call[b]
         /\ call'[a].step = s /\ call'[a].kind = call[a].kind /\ call'[a].n = call[a].n
         /\ call'[a].found = call[a].found /\ call'[a].row = call[a].row
         /\ call'[a].pw = call[a].pw
  <1> DEFINE r == [call[a] EXCEPT !.step = s]
  <1>1. call[a] \in Call
    BY DEF Types
  <1>2. /\ r \in Call /\ r.step = s /\ r.kind = call[a].kind /\ r.n = call[a].n
        /\ r.found = call[a].found /\ r.row = call[a].row /\ r.pw = call[a].pw
    BY <1>1 DEF Call
  <1>3. Goto(a, r)
    BY DEF Step
  <1> HIDE DEF r
  <1>4. QED
    BY <1>2, <1>3, GotoFacts

LEMMA ReadFacts ==
  ASSUME Types, NEW a \in Actors, NEW s \in Steps, Read(a, s)
  PROVE  /\ call' \in [Actors -> Call]
         /\ \A b \in Actors \ {a} : call'[b] = call[b]
         /\ call'[a].step = s /\ call'[a].kind = call[a].kind /\ call'[a].n = call[a].n
         /\ call'[a].found = call[a].found /\ call'[a].row \in AccountRow
         /\ call'[a].row = user /\ call'[a].pw = call[a].pw
  <1> DEFINE r == [call[a] EXCEPT !.step = s, !.row = user, !.late = FALSE]
  <1>1. call[a] \in Call /\ user \in AccountRow
    BY DEF Types
  <1>2. /\ r \in Call /\ r.step = s /\ r.kind = call[a].kind /\ r.n = call[a].n
        /\ r.found = call[a].found /\ r.row \in AccountRow
        /\ r.row = user /\ r.pw = call[a].pw
    BY <1>1 DEF Call
  <1>3. Goto(a, r)
    BY DEF Read
  <1> HIDE DEF r
  <1>4. QED
    BY <1>2, <1>3, GotoFacts

LEMMA AnswerFacts ==
  ASSUME Types, NEW a \in Actors, Answer(a)
  PROVE  /\ call' \in [Actors -> Call] /\ call'[a] = NoCall
         /\ \A b \in Actors \ {a} : call'[b] = call[b]
  BY NoCallType, GotoFacts DEF Answer

\* A request goes on, and comes to no step at which the invariant says more of it.
Moves(b) ==
  /\ call'[b].kind = call[b].kind /\ call'[b].n = call[b].n
  /\ call'[b].step = "rotate" =>
       /\ call[b].step = "rotate" /\ call'[b].tok = call[b].tok
       /\ call[b].late => call'[b].late
  /\ call'[b].step = "spend" => call[b].step = "spend"
  /\ call'[b].step = "commit" /\ call[b].kind \in {"logout", "reset"} =>
       call[b].step = "commit" /\ call'[b].seen = call[b].seen
  /\ call'[b].step \in {"spend", "count"} \/ (call'[b].step = "commit" /\ call[b].kind # "logout")
       => call'[b].row \in AccountRow

MovesOn(b) == call'[b] = NoCall \/ Moves(b)

\* The sessions it came for stay the same.
Keeps(b) == Moves(b) /\ call'[b].found = call[b].found

GoesOn(b) == call'[b] = NoCall \/ Keeps(b)

LEMMA SameGoesOn ==
  ASSUME IInv, NEW b \in Actors, call'[b] = call[b]
  PROVE  GoesOn(b)
  BY DEF IInv, Types, RowsRead, GoesOn, Keeps, Moves

\* The parts of the invariant that are about requests, when tokens and codes stay.
LEMMA Frame ==
  ASSUME IInv, UNCHANGED <<tokens, otp, sent, hist>>, user' \in AccountRow, jar' \in Nat,
         call' \in [Actors -> Call], \A b \in Actors : GoesOn(b)
  PROVE  IInv'
  <1>1. Types'
    <2>1. RowsRead'
      BY NoCallType DEF RowsRead, GoesOn, Keeps, Moves
    <2>2. QED
      BY <2>1 DEF IInv, Types
  <1>2. Numbered'
    BY DEF IInv, Numbered, Used
  <1>3. Exchanged' /\ EndedAreDeleted'
    BY DEF IInv, Exchanged, EndedAreDeleted
  <1>4. Unexchanged'
    BY NoCallType DEF IInv, Unexchanged, GoesOn, Keeps, Moves
  <1>5. FoundAreSeen'
    BY NoCallType DEF IInv, FoundAreSeen, GoesOn, Keeps, Moves
  <1>6. CodesAreFresh'
    BY NoCallType DEF IInv, CodesAreFresh, GoesOn, Keeps, Moves
  <1>7. QED
    BY <1>1, <1>2, <1>3, <1>4, <1>5, <1>6 DEF IInv

\* An answer, and the steps that only go on.
LEMMA AnswerGoesOn ==
  ASSUME IInv, NEW a \in Actors, Answer(a)
  PROVE  call' \in [Actors -> Call] /\ \A b \in Actors : GoesOn(b)
  <1>1. Types
    BY DEF IInv
  <1>2. QED
    BY <1>1, AnswerFacts, SameGoesOn DEF GoesOn

LEMMA StepGoesOn ==
  ASSUME IInv, NEW a \in Actors, NEW s \in {"sent", "renew", "wrong"}, Step(a, s)
  PROVE  call' \in [Actors -> Call] /\ \A b \in Actors : GoesOn(b)
  <1>1. Types /\ s \in Steps
    BY DEF IInv, Steps
  <1>2. Keeps(a)
    BY <1>1, StepFacts DEF Keeps, Moves
  <1>3. QED
    BY <1>1, <1>2, StepFacts, SameGoesOn DEF GoesOn

LEMMA UnauthorizedGoesOn ==
  ASSUME IInv, NEW a \in Actors, Unauthorized(a)
  PROVE  call' \in [Actors -> Call] /\ \A b \in Actors : GoesOn(b)
  BY AnswerGoesOn, StepGoesOn DEF Unauthorized

LEMMA ReadGoesOn ==
  ASSUME IInv, NEW a \in Actors, NEW s \in {"count", "commit"}, Read(a, s),
         s = "commit" => call[a].kind \notin {"logout", "reset"}
  PROVE  call' \in [Actors -> Call] /\ \A b \in Actors : GoesOn(b)
  <1>1. Types /\ s \in Steps
    BY DEF IInv, Steps
  <1>2. Keeps(a)
    BY <1>1, ReadFacts DEF Keeps, Moves
  <1>3. QED
    BY <1>1, <1>2, ReadFacts, SameGoesOn DEF GoesOn

\* Requests that are refused, or read the account.
LEMMA ServedInv ==
  ASSUME IInv, NEW a \in Actors,
         \/ Refuse(a) \/ Login(a) \/ ReadAttempts(a)
         \/ ChangePassword(a) \/ UpdateMyProfile(a) \/ UpdateUserStatus(a)
  PROVE  IInv'
  <1>1. UNCHANGED <<user, otp, sent, tokens, jar, hist>>
    BY DEF Refuse, Login, ReadAttempts, ChangePassword, UpdateMyProfile, UpdateUserStatus
  <1>2. \/ Answer(a) \/ Unauthorized(a) \/ Step(a, "wrong") \/ Read(a, "count")
        \/ Read(a, "commit") /\ call[a].kind \notin {"logout", "reset"}
    BY DEF Refuse, Login, ReadAttempts, ChangePassword, UpdateMyProfile, UpdateUserStatus,
           Admitted, Is, Admins
  <1>3. call' \in [Actors -> Call] /\ \A b \in Actors : GoesOn(b)
    BY <1>2, AnswerGoesOn, UnauthorizedGoesOn, StepGoesOn, ReadGoesOn
  <1>4. user' \in AccountRow /\ jar' \in Nat
    BY <1>1 DEF IInv, Types
  <1>5. QED
    BY <1>1, <1>3, <1>4, Frame

\* A new request, and what a logout or a reset finds there.
LEMMA AskInv ==
  ASSUME IInv, NEW a \in Actors, NEW kind \in Kinds, AskFor(a, kind)
  PROVE  IInv'
  <1>1. Types
    BY DEF IInv
  <1>2. PICK pw \in Passwords(kind), n \in Codes(kind) :
          Goto(a, [NoCall EXCEPT !.step = "sent", !.kind = kind, !.pw = pw, !.n = n, !.tok = jar,
                                 !.found = IF kind \in {"logout", "reset"} THEN Rows ELSE {}])
    BY DEF AskFor
  <1> DEFINE found == IF kind \in {"logout", "reset"} THEN Rows ELSE {}
             r == [NoCall EXCEPT !.step = "sent", !.kind = kind, !.pw = pw, !.n = n, !.tok = jar,
                                 !.found = found]
  <1>3. pw \in Password /\ n \in Nat
    <2>1. pw \in Password
      BY DEF Passwords, Password
    <2>2. \A p \in {"verify", "fp"} : sent[p] \in Nat
      BY <1>1 DEF Types
    <2>3. n \in Nat
      BY <2>2 DEF Codes, Purpose
    <2>4. QED
      BY <2>1, <2>3
  <1>4. found \in SUBSET Ids /\ \A k \in found : tokens[k].state # "none"
    BY DEF Rows
  <1>5. r \in Call /\ r.step = "sent" /\ r.found = found
    BY <1>1, <1>3, <1>4 DEF NoCall, Call, Steps, Types
  <1>6. Goto(a, r)
    BY <1>2
  <1> HIDE DEF found, r
  <1>7. /\ call' \in [Actors -> Call] /\ call'[a] = r
        /\ \A b \in Actors \ {a} : call'[b] = call[b]
    BY <1>1, <1>5, <1>6, GotoFacts
  <1>8. UNCHANGED <<user, otp, sent, tokens, jar, hist>>
    BY DEF AskFor
  <1>9. Types'
    <2>1. RowsRead'
      BY <1>5, <1>7 DEF IInv, Types, RowsRead
    <2>2. QED
      BY <1>1, <1>7, <1>8, <2>1 DEF Types
  <1>10. Numbered' /\ Exchanged' /\ EndedAreDeleted'
    BY <1>8 DEF IInv, Numbered, Used, Exchanged, EndedAreDeleted
  <1>11. Unexchanged' /\ FoundAreSeen' /\ CodesAreFresh'
    BY <1>4, <1>5, <1>7, <1>8 DEF IInv, Unexchanged, FoundAreSeen, CodesAreFresh
  <1>12. QED
    BY <1>9, <1>10, <1>11 DEF IInv

\* The session is renewed with a token that is good, so that nobody has exchanged it.
LEMMA RenewInv ==
  ASSUME IInv, NEW a \in Actors, Renew(a)
  PROVE  IInv'
  <1>1. Types
    BY DEF IInv
  <1>2. UNCHANGED <<user, otp, sent, tokens, jar, hist>>
    BY DEF Renew
  <1>3. CASE Answer(a)
    <2>1. user' \in AccountRow /\ jar' \in Nat
      BY <1>1, <1>2 DEF Types
    <2>2. QED
      BY <1>2, <1>3, <2>1, AnswerGoesOn, Frame
  <1>4. CASE ~Answer(a)
    <2> DEFINE r == [call[a] EXCEPT !.step = "rotate", !.tok = jar, !.late = FALSE]
    <2>1. Goto(a, r) /\ Refreshable(jar)
      BY <1>4 DEF Renew
    <2>2. /\ r \in Call /\ r.step = "rotate" /\ r.tok = jar
          /\ r.found = call[a].found /\ r.kind = call[a].kind
      <3>1. call[a] \in Call /\ jar \in Nat
        BY <1>1 DEF Types
      <3>2. QED
        BY <3>1 DEF Call, Steps
    <2> HIDE DEF r
    <2>3. /\ call' \in [Actors -> Call] /\ call'[a] = r
          /\ \A b \in Actors \ {a} : call'[b] = call[b]
      BY <1>1, <2>1, <2>2, GotoFacts
    <2>4. Types'
      <3>1. RowsRead'
        BY <2>2, <2>3 DEF IInv, Types, RowsRead
      <3>2. QED
        BY <1>1, <1>2, <2>3, <3>1 DEF Types
    <2>5. Numbered' /\ Exchanged' /\ EndedAreDeleted'
      BY <1>2 DEF IInv, Numbered, Used, Exchanged, EndedAreDeleted
    <2>6. jar \in Ids => \A h \in Ids : tokens[h].of # jar
      BY <2>1 DEF IInv, Exchanged, Refreshable
    <2>7. Unexchanged'
      BY <1>2, <2>2, <2>3, <2>6 DEF IInv, Unexchanged
    <2>8. FoundAreSeen' /\ CodesAreFresh'
      BY <1>2, <2>2, <2>3 DEF IInv, FoundAreSeen, CodesAreFresh
    <2>9. QED
      BY <2>4, <2>5, <2>7, <2>8 DEF IInv
  <1>5. QED
    BY <1>3, <1>4

-----------------------------------------------------------------------------
(* Codes *)

\* A step about codes leaves the tokens alone.
LEMMA CodesFrame ==
  ASSUME IInv, UNCHANGED <<user, tokens, jar>>,
         hist'.ended = hist.ended, hist'.missed = hist.missed,
         Types', \A b \in Actors : call'[b] = NoCall \/
           (/\ call'[b].found = call[b].found /\ call'[b].kind = call[b].kind
            /\ call'[b].step = "rotate" => call'[b] = call[b]
            /\ call'[b].step = "commit" /\ call'[b] # call[b] /\ call[b].kind \in {"logout", "reset"}
                 => \A k \in call[b].found : k \in call'[b].seen \/ tokens[k].state = "deleted"
                                             \/ k \in hist.missed),
         CodesAreFresh'
  PROVE  IInv'
  <1>1. Numbered' /\ Exchanged' /\ EndedAreDeleted'
    BY DEF IInv, Numbered, Used, Exchanged, EndedAreDeleted
  <1>2. Unexchanged'
    BY NoCallType DEF IInv, Unexchanged
  <1>3. FoundAreSeen'
    <2> SUFFICES ASSUME NEW b \in Actors, NEW k \in call'[b].found
                 PROVE  /\ tokens[k].state # "none"
                        /\ call'[b].step = "commit" /\ call'[b].kind \in {"logout", "reset"} =>
                             \/ k \in call'[b].seen \/ tokens[k].state = "deleted"
                             \/ k \in hist.missed
      BY DEF FoundAreSeen
    <2>1. CASE call'[b] = call[b]
      BY <2>1 DEF IInv, FoundAreSeen
    <2>2. CASE call'[b] # call[b]
      BY <2>2, NoCallType DEF IInv, FoundAreSeen
    <2>3. QED
      BY <2>1, <2>2
  <1>4. QED
    BY <1>1, <1>2, <1>3 DEF IInv

LEMMA CheckOtpInv ==
  ASSUME IInv, NEW a \in Actors, CheckOtp(a)
  PROVE  IInv'
  <1>1. Types /\ UNCHANGED <<user, otp, sent, tokens, jar, hist>>
    BY DEF IInv, CheckOtp
  <1>2. CASE Unauthorized(a)
    <2>1. user' \in AccountRow /\ jar' \in Nat
      BY <1>1 DEF Types
    <2>2. QED
      BY <1>1, <1>2, <2>1, UnauthorizedGoesOn, Frame
  <1>3. CASE ~Unauthorized(a)
    <2>1. Read(a, "spend") /\ call[a].n \in otp[Purpose(call[a].kind)]
      BY <1>3 DEF CheckOtp
    <2>2. /\ call' \in [Actors -> Call]
          /\ \A b \in Actors \ {a} : call'[b] = call[b]
          /\ call'[a].step = "spend" /\ call'[a].kind = call[a].kind /\ call'[a].n = call[a].n
          /\ call'[a].found = call[a].found /\ call'[a].row \in AccountRow
      BY <1>1, <2>1, ReadFacts DEF Steps
    <2>3. Types'
      <3>1. RowsRead'
        BY <2>2 DEF IInv, Types, RowsRead
      <3>2. QED
        BY <1>1, <2>2, <3>1 DEF Types
    <2>4. Purpose(call[a].kind) \in {"verify", "fp"}
      BY DEF Purpose
    <2>5. call[a].n = sent[Purpose(call[a].kind)] /\ sent[Purpose(call[a].kind)] \in Nat
      BY <1>1, <2>1, <2>4 DEF IInv, CodesAreFresh, Types
    <2>6. CodesAreFresh'
      BY <1>1, <2>2, <2>5 DEF IInv, CodesAreFresh
    <2>7. QED
      BY <1>1, <2>2, <2>3, <2>6, CodesFrame
  <1>4. QED
    BY <1>2, <1>3

LEMMA IssueOtpFacts ==
  ASSUME IInv, NEW p \in {"verify", "fp"}, IssueOtp(p), UNCHANGED hist
  PROVE  /\ sent' \in [{"verify", "fp"} -> Nat] /\ otp' \in [{"verify", "fp"} -> SUBSET Nat]
         /\ \A q \in {"verify", "fp"} : sent[q] <= sent'[q] /\ otp'[q] \subseteq {sent'[q]}
         /\ \A q \in {"verify", "fp"}, n \in Nat :
              <<q, n>> \in hist'.spent => n <= sent'[q] /\ n \notin otp'[q]
  <1>1. sent \in [{"verify", "fp"} -> Nat] /\ otp \in [{"verify", "fp"} -> SUBSET Nat]
    BY DEF IInv, Types
  <1>2. sent' = [sent EXCEPT ![p] = sent[p] + 1] /\ otp' = [otp EXCEPT ![p] = {sent[p] + 1}]
    BY DEF IssueOtp
  <1>3. sent' \in [{"verify", "fp"} -> Nat] /\ otp' \in [{"verify", "fp"} -> SUBSET Nat]
    BY <1>1, <1>2
  <1>4. \A q \in {"verify", "fp"} :
          \/ sent'[q] = sent[q] /\ otp'[q] = otp[q]
          \/ sent'[q] = sent[q] + 1 /\ otp'[q] = {sent[q] + 1}
    BY <1>1, <1>2
  <1>5. \A q \in {"verify", "fp"}, n \in Nat :
          <<q, n>> \in hist.spent => n <= sent[q] /\ n \notin otp[q]
    BY DEF IInv, CodesAreFresh
  <1>6. \A q \in {"verify", "fp"} : otp[q] \subseteq {sent[q]} /\ sent[q] \in Nat
    BY <1>1 DEF IInv, CodesAreFresh
  <1>7. QED
    BY <1>3, <1>4, <1>5, <1>6

\* forgotPassword(), resendVerification(): a code takes the place of the one before.
LEMMA SendCodeInv ==
  ASSUME IInv, NEW a \in Actors, ForgotPassword(a) \/ ResendVerification(a)
  PROVE  IInv'
  <1>1. Types /\ UNCHANGED <<user, tokens, jar, hist>>
    BY DEF IInv, ForgotPassword, ResendVerification
  <1>2. \/ UNCHANGED <<otp, sent>>
        \/ \E p \in {"verify", "fp"} : IssueOtp(p)
    BY DEF ForgotPassword, ResendVerification
  <1>3. Answer(a) \/ Unauthorized(a)
    BY DEF ForgotPassword, ResendVerification
  <1>4. call' \in [Actors -> Call] /\ \A b \in Actors : GoesOn(b)
    BY <1>3, AnswerGoesOn, UnauthorizedGoesOn
  <1>5. /\ sent' \in [{"verify", "fp"} -> Nat] /\ otp' \in [{"verify", "fp"} -> SUBSET Nat]
        /\ \A q \in {"verify", "fp"} : sent[q] <= sent'[q] /\ otp'[q] \subseteq {sent'[q]}
        /\ \A q \in {"verify", "fp"}, n \in Nat :
             <<q, n>> \in hist'.spent => n <= sent'[q] /\ n \notin otp'[q]
    <2>1. CASE UNCHANGED <<otp, sent>>
      <3>1. \A q \in {"verify", "fp"} : sent[q] \in Nat
        BY <1>1 DEF Types
      <3>2. QED
        BY <1>1, <2>1, <3>1 DEF IInv, CodesAreFresh, Types
    <2>2. CASE \E p \in {"verify", "fp"} : IssueOtp(p)
      BY <1>1, <2>2, IssueOtpFacts
    <2>3. QED
      BY <1>2, <2>1, <2>2
  <1>6. Types'
    <2>1. RowsRead'
      BY <1>4, NoCallType DEF RowsRead, GoesOn, Keeps, Moves
    <2>2. QED
      BY <1>1, <1>4, <1>5, <2>1 DEF Types
  <1>7. Numbered' /\ Exchanged' /\ EndedAreDeleted'
    BY <1>1 DEF IInv, Numbered, Used, Exchanged, EndedAreDeleted
  <1>8. Unexchanged' /\ FoundAreSeen'
    BY <1>1, <1>4, NoCallType DEF IInv, Unexchanged, FoundAreSeen, GoesOn, Keeps, Moves
  <1>9. CodesAreFresh'
    <2>1. \A b \in Actors : call'[b].step = "spend" => call'[b].n <= sent'[Purpose(call'[b].kind)]
      <3> SUFFICES ASSUME NEW b \in Actors, call'[b].step = "spend"
                   PROVE  call'[b].n <= sent'[Purpose(call'[b].kind)]
        OBVIOUS
      <3>1. call'[b].n = call[b].n /\ call'[b].kind = call[b].kind /\ call[b].step = "spend"
        BY <1>4, NoCallType DEF GoesOn, Keeps, Moves
      <3> DEFINE p == Purpose(call[b].kind)
      <3>2. p \in {"verify", "fp"}
        BY DEF Purpose
      <3>3. call[b].n <= sent[p]
        BY <3>1 DEF IInv, CodesAreFresh
      <3>4. call[b].n \in Nat /\ sent[p] \in Nat /\ sent'[p] \in Nat /\ sent[p] <= sent'[p]
        BY <1>1, <1>5, <3>2 DEF Types, Call
      <3> HIDE DEF p
      <3>5. call[b].n <= sent'[p]
        BY <3>3, <3>4
      <3> USE DEF p
      <3>6. QED
        BY <3>1, <3>5
    <2>2. QED
      BY <1>5, <2>1 DEF CodesAreFresh
  <1>10. QED
    BY <1>6, <1>7, <1>8, <1>9 DEF IInv

\* The code is deleted before the transaction commits; a reset has read the tokens.
LEMMA SpendCodeInv ==
  ASSUME IInv, NEW a \in Actors, SpendCode(a)
  PROVE  IInv'
  <1> DEFINE p == Purpose(call[a].kind)
             seen == IF call[a].kind = "reset" THEN Rows ELSE {}
             r == [call[a] EXCEPT !.step = "commit", !.seen = seen]
  <1>1. Types /\ UNCHANGED <<user, sent, tokens, jar>>
    BY DEF IInv, SpendCode
  <1>2. /\ p \in {"verify", "fp"} /\ call[a] \in Call /\ call[a].step = "spend"
        /\ call[a].row \in AccountRow /\ call[a].kind \in {"verify", "reset"}
    BY <1>1 DEF Purpose, Types, RowsRead, SpendCode, Is
  <1>3. /\ r \in Call /\ r.step = "commit" /\ r.seen = seen /\ r.found = call[a].found
        /\ r.kind = call[a].kind /\ r.row \in AccountRow
    <2>1. seen \in SUBSET Ids
      BY DEF Rows
    <2> HIDE DEF seen
    <2>2. QED
      BY <1>2, <2>1 DEF Call, Steps
  <1>4. Goto(a, r)
    BY DEF SpendCode
  <1>5. call[a].kind = "reset" => \A k \in call[a].found : k \in seen \/ tokens[k].state = "deleted"
    BY <1>1, <1>2 DEF IInv, FoundAreSeen, Types, Call, Rows
  <1> HIDE DEF r, seen
  <1>6. /\ call' \in [Actors -> Call] /\ call'[a] = r
        /\ \A b \in Actors \ {a} : call'[b] = call[b]
    BY <1>1, <1>3, <1>4, GotoFacts
  <1>7. /\ otp' = [otp EXCEPT ![p] = {}]
        /\ hist' = [hist EXCEPT !.spent = @ \cup {<<p, call[a].n>>}]
    BY DEF SpendCode, Deleted
  <1>8. /\ call[a].n \in Nat /\ call[a].n <= sent[p]
    BY <1>2 DEF IInv, CodesAreFresh, Call
  <1>9. /\ hist' \in History
        /\ hist'.ended = hist.ended /\ hist'.missed = hist.missed
        /\ hist'.spent = hist.spent \cup {<<p, call[a].n>>}
    <2> HIDE DEF p
    <2>1. hist \in History
      BY <1>1 DEF Types
    <2>2. <<p, call[a].n>> \in {"verify", "fp"} \X Nat
      BY <1>2, <1>8
    <2>3. QED
      BY <1>7, <2>1, <2>2 DEF History
  <1>10. otp' \in [{"verify", "fp"} -> SUBSET Nat]
    BY <1>1, <1>2, <1>7 DEF Types
  <1>11. Types'
    <2>1. RowsRead'
      BY <1>3, <1>6 DEF IInv, Types, RowsRead
    <2>2. QED
      BY <1>1, <1>6, <1>9, <1>10, <2>1 DEF Types
  <1>12. CodesAreFresh'
    <2> HIDE DEF p
    <2>1. \A q \in {"verify", "fp"} : otp'[q] \subseteq otp[q] /\ (q = p => otp'[q] = {})
      BY <1>1, <1>2, <1>7 DEF Types
    <2>2. \A q \in {"verify", "fp"}, n \in Nat :
            <<q, n>> \in hist'.spent => <<q, n>> \in hist.spent \/ (q = p /\ n = call[a].n)
      BY <1>9
    <2>3. \A q \in {"verify", "fp"}, n \in Nat :
            <<q, n>> \in hist'.spent => n <= sent[q] /\ n \notin otp'[q]
      BY <1>8, <2>1, <2>2 DEF IInv, CodesAreFresh
    <2>4. \A b \in Actors : call'[b].step = "spend" => call[b].step = "spend" /\ call'[b] = call[b]
      BY <1>3, <1>6
    <2>5. QED
      BY <1>1, <2>1, <2>3, <2>4 DEF IInv, CodesAreFresh
  <1>13. QED
    BY <1>1, <1>2, <1>3, <1>5, <1>6, <1>9, <1>11, <1>12, CodesFrame

LEMMA BlacklistInv ==
  ASSUME IInv, NEW a \in Actors, Blacklist(a)
  PROVE  IInv'
  <1> DEFINE r == [call[a] EXCEPT !.step = "commit", !.seen = Rows]
  <1>1. Types /\ UNCHANGED <<user, otp, sent, tokens, jar, hist>>
    BY DEF IInv, Blacklist
  <1>2. call[a] \in Call /\ call[a].kind = "logout" /\ Rows \in SUBSET Ids
    BY <1>1 DEF Types, Blacklist, Admitted, Is, Rows
  <1>3. /\ r \in Call /\ r.step = "commit" /\ r.seen = Rows /\ r.found = call[a].found
        /\ r.kind = call[a].kind
    BY <1>2 DEF Call, Steps
  <1>4. Goto(a, r)
    BY DEF Blacklist
  <1>5. \A k \in call[a].found : k \in Rows \/ tokens[k].state = "deleted"
    BY <1>1, <1>2 DEF IInv, FoundAreSeen, Types, Call, Rows
  <1> HIDE DEF r
  <1>6. /\ call' \in [Actors -> Call] /\ call'[a] = r
        /\ \A b \in Actors \ {a} : call'[b] = call[b]
    BY <1>1, <1>3, <1>4, GotoFacts
  <1>7. Types'
    <2>1. RowsRead'
      BY <1>2, <1>3, <1>6 DEF IInv, Types, RowsRead
    <2>2. QED
      BY <1>1, <1>6, <2>1 DEF Types
  <1>8. CodesAreFresh'
    BY <1>1, <1>3, <1>6 DEF IInv, CodesAreFresh
  <1>9. QED
    BY <1>1, <1>3, <1>5, <1>6, <1>7, <1>8, CodesFrame

-----------------------------------------------------------------------------
(* Commits *)

LEMMA NewType ==
  ASSUME IInv, NEW a \in Actors, call[a].step = "commit", call[a].kind \in Kinds,
         call[a].kind \notin {"logout", "resend", "forgot"}
  PROVE  New(a) \in AccountRow
  <1> DEFINE row == call[a].row
  <1>1. row \in AccountRow /\ call[a].pw \in Password
    BY DEF IInv, Types, RowsRead, Call
  <1>2. Other(call[a].pw) \in Password
    BY DEF Other, Password
  <1>3. CASE call[a].kind \in {"login", "verify", "reset"}
    BY <1>1, <1>3 DEF New, AccountRow
  <1>4. CASE call[a].kind = "change"
    BY <1>1, <1>2, <1>4 DEF New, AccountRow
  <1>5. CASE call[a].kind \in {"profile", "suspend", "activate"}
    BY <1>1, <1>5 DEF New, AccountRow
  <1>6. QED
    BY <1>3, <1>4, <1>5 DEF Kinds

\* The requests that come late.
LEMMA LateGoesOn ==
  ASSUME IInv, NEW b \in Actors,
         \/ call'[b] = call[b] \/ call'[b] = [call[b] EXCEPT !.late = TRUE]
  PROVE  GoesOn(b) /\ call'[b] \in Call
  <1>1. call'[b] = call[b] => GoesOn(b)
    BY SameGoesOn
  <1>2. call[b] \in Call
    BY DEF IInv, Types
  <1>3. CASE call'[b] = [call[b] EXCEPT !.late = TRUE]
    <2>1. /\ call'[b] \in Call /\ call'[b].step = call[b].step /\ call'[b].kind = call[b].kind
          /\ call'[b].n = call[b].n /\ call'[b].found = call[b].found /\ call'[b].tok = call[b].tok
          /\ call'[b].seen = call[b].seen /\ call'[b].row = call[b].row /\ call'[b].late
      BY <1>2, <1>3 DEF Call
    <2>2. QED
      BY <2>1 DEF IInv, Types, RowsRead, GoesOn, Keeps, Moves
  <1>4. QED
    BY <1>1, <1>2, <1>3

\* What a logout or a reset leaves in the history.
LEMMA EndsFacts ==
  ASSUME IInv, NEW a \in Actors, hist' = Ends(a)
  PROVE  /\ hist' \in History /\ hist'.spent = hist.spent
         /\ hist'.ended = hist.ended \cup call[a].found
         /\ hist'.missed = hist.missed \ call[a].seen
  <1>1. hist \in History /\ call[a] \in Call
    BY DEF IInv, Types
  <1> DEFINE ended == hist.ended \cup call[a].found
             missed == hist.missed \ call[a].seen
  <1>2. ended \in SUBSET Ids /\ missed \in SUBSET Ids
    BY <1>1 DEF History, Call
  <1>3. hist' = [hist EXCEPT !.ended = ended, !.missed = missed]
    BY DEF Ends
  <1> HIDE DEF ended, missed
  <1>4. hist' \in History /\ hist'.spent = hist.spent /\ hist'.ended = ended /\ hist'.missed = missed
    BY <1>1, <1>2, <1>3 DEF History
  <1>5. QED
    BY <1>4 DEF ended, missed

LEMMA WriteFacts ==
  ASSUME IInv, NEW a \in Actors, NEW new \in AccountRow, WriteUser(a, new, NoCall)
  PROVE  /\ user' \in AccountRow /\ call' \in [Actors -> Call] /\ \A b \in Actors : GoesOn(b)
         /\ hist' = IF call[a].kind = "reset" THEN Ends(a) ELSE hist
  <1>1. /\ call' = [b \in Actors |-> IF b = a THEN NoCall
                      ELSE IF call[b].row # <<>> THEN [call[b] EXCEPT !.late = TRUE] ELSE call[b]]
        /\ user' = new
    BY DEF WriteUser
  <1>2. \A b \in Actors : GoesOn(b) /\ call'[b] \in Call
    BY <1>1, LateGoesOn, NoCallType DEF GoesOn
  <1>3. call' \in [Actors -> Call]
    BY <1>1, <1>2
  <1>4. QED
    BY <1>1, <1>2, <1>3 DEF WriteUser

LEMMA CommitInv ==
  ASSUME IInv, NEW a \in Actors, Commit(a)
  PROVE  IInv'
  <1>1. Types /\ UNCHANGED <<otp, sent, tokens, jar>>
    BY DEF IInv, Commit
  <1>2. call[a].step = "commit" /\ call[a].kind \in {"verify", "change", "profile"} \cup Admins
    BY DEF Commit, Is
  <1>3. CASE WriteUser(a, New(a), NoCall)
    <2>1. New(a) \in AccountRow
      BY <1>2, NewType DEF Admins, Kinds
    <2>2. /\ user' \in AccountRow /\ call' \in [Actors -> Call] /\ \A b \in Actors : GoesOn(b)
          /\ hist' = hist
      BY <1>2, <1>3, <2>1, WriteFacts DEF Admins
    <2>3. QED
      BY <1>1, <2>2, Frame DEF Types
  <1>4. CASE Answer(a) /\ UNCHANGED <<user, hist>>
    BY <1>1, <1>4, AnswerGoesOn, Frame DEF Types
  <1>5. QED
    BY <1>3, <1>4 DEF Commit

LEMMA RecordInv ==
  ASSUME IInv, NEW a \in Actors, RecordFailedAttempt(a)
  PROVE  IInv'
  <1> DEFINE again == [call[a] EXCEPT !.step = "renew", !.row = <<>>]
             goes == call[a].row.failed + 1 < MaxFailed /\ call[a].retry
  <1>1. Types /\ UNCHANGED <<otp, sent, tokens, jar, hist>>
    BY DEF IInv, RecordFailedAttempt
  <1>2. call[a] \in Call /\ call[a].row \in AccountRow
    BY <1>1 DEF Types, RowsRead, RecordFailedAttempt, Is
  <1>3. user' \in AccountRow
    <2>1. user' = Recorded(call[a].row)
      BY DEF RecordFailedAttempt
    <2> DEFINE row == call[a].row
               locked == IF row.failed + 1 >= MaxFailed THEN "now" ELSE row.locked
    <2>2. row.failed + 1 \in Nat /\ locked \in {"never", "now", "before"}
      BY <1>2 DEF AccountRow
    <2>3. Recorded(row) = [row EXCEPT !.failed = row.failed + 1, !.locked = locked]
      BY <1>2 DEF Recorded, AccountRow
    <2> HIDE DEF locked
    <2>4. \A n \in Nat : [row EXCEPT !.failed = n, !.locked = locked] \in AccountRow
      BY <1>2, <2>2 DEF AccountRow
    <2>5. QED
      BY <2>1, <2>2, <2>3, <2>4
  <1>4. again \in Call /\ again.step = "renew" /\ again.kind = call[a].kind
        /\ again.n = call[a].n /\ again.found = call[a].found
    BY <1>2 DEF Call, Steps
  <1>5. call' = [b \in Actors |->
                  IF b = a THEN IF goes THEN again ELSE NoCall
                  ELSE IF call[b].row # <<>> THEN [call[b] EXCEPT !.late = TRUE] ELSE call[b]]
    BY DEF RecordFailedAttempt
  <1> HIDE DEF again, goes
  <1>6. call'[a] = again \/ call'[a] = NoCall
    BY <1>5
  <1>7. GoesOn(a) /\ call'[a] \in Call
    BY <1>4, <1>6, NoCallType DEF GoesOn, Keeps, Moves
  <1>8. \A b \in Actors \ {a} : GoesOn(b) /\ call'[b] \in Call
    BY <1>5, LateGoesOn
  <1>9. call' \in [Actors -> Call]
    BY <1>5, <1>7, <1>8
  <1>10. QED
    BY <1>1, <1>3, <1>7, <1>8, <1>9, Frame DEF Types

-----------------------------------------------------------------------------
(* Tokens *)

TokenRow == [state : {"none", "live", "revoked", "deleted"}, of : Nat]

\* Whoever is about to change the tokens.
LEMMA TokensFrame ==
  ASSUME IInv, UNCHANGED <<otp, sent>>, user' \in AccountRow, jar' \in Nat,
         call' \in [Actors -> Call], \A b \in Actors : MovesOn(b),
         tokens' \in [Ids -> TokenRow],
         hist' \in History,
         hist'.spent = hist.spent,
         Numbered', Exchanged', Unexchanged', EndedAreDeleted', FoundAreSeen'
  PROVE  IInv'
  <1>1. Types'
    <2>1. RowsRead'
      BY NoCallType DEF RowsRead, MovesOn, Moves
    <2>2. QED
      BY <2>1 DEF IInv, Types, TokenRow
  <1>2. CodesAreFresh'
    BY NoCallType DEF IInv, CodesAreFresh, MovesOn, Moves
  <1>3. QED
    BY <1>1, <1>2 DEF IInv

LEMMA GoesOnMoves ==
  ASSUME NEW b \in Actors, GoesOn(b)
  PROVE  MovesOn(b)
  BY DEF GoesOn, Keeps, MovesOn

\* The sessions the requests came for are as they were, and no token is back.
LEMMA FoundStays ==
  ASSUME IInv, \A b \in Actors : GoesOn(b),
         \A k \in Ids : /\ tokens[k].state # "none" => tokens'[k].state # "none"
                        /\ tokens[k].state = "deleted" => tokens'[k].state = "deleted"
                        /\ k \in hist.missed => k \in hist'.missed \/ tokens'[k].state = "deleted"
  PROVE  FoundAreSeen'
  <1> SUFFICES ASSUME NEW b \in Actors, NEW k \in call'[b].found
               PROVE  /\ tokens'[k].state # "none"
                      /\ call'[b].step = "commit" /\ call'[b].kind \in {"logout", "reset"} =>
                           \/ k \in call'[b].seen \/ tokens'[k].state = "deleted"
                           \/ k \in hist'.missed
    BY DEF FoundAreSeen
  <1>1. Keeps(b) /\ k \in call[b].found /\ k \in Ids
    BY NoCallType DEF GoesOn, Keeps, Moves, IInv, Types, Call
  <1>2. QED
    BY <1>1 DEF Keeps, Moves, IInv, FoundAreSeen

LEMMA NextTokenIsNew ==
  ASSUME IInv
  PROVE  Next1 \in Nat \ {0} /\ Next1 \notin Used /\ (Next1 \in Ids => Used \cup {Next1} = 1..Next1)
  <1>1. PICK n \in Nat : Used = 1..n
    BY DEF IInv, Numbered
  <1>2. Cardinality(1..n) = n
    <2>1. 1 \in Int /\ n \in Int
      OBVIOUS
    <2>2. QED
      BY <2>1, FS_Interval
  <1>3. Next1 = n + 1
    BY <1>1, <1>2 DEF Next1
  <1>4. QED
    BY <1>1, <1>3

LEMMA IssueFacts ==
  ASSUME IInv, NEW of \in Nat
  PROVE  /\ Issue(of) \in [Ids -> TokenRow]
         /\ \A k \in Ids : k # Next1 => Issue(of)[k] = tokens[k]
         /\ Next1 \in Ids => Issue(of)[Next1] = [state |-> "live", of |-> of]
         /\ Next1 \in Ids => tokens[Next1].state = "none"
  <1>1. tokens \in [Ids -> TokenRow] /\ [state |-> "live", of |-> of] \in TokenRow
    BY DEF IInv, Types, TokenRow
  <1>2. Issue(of) = [tokens EXCEPT ![Next1] = [state |-> "live", of |-> of]]
    BY DEF Issue
  <1>3. Next1 \in Ids => tokens[Next1].state = "none"
    BY NextTokenIsNew DEF Used
  <1> HIDE DEF Next1
  <1>4. QED
    BY <1>1, <1>2, <1>3

LEMMA CommitLoginInv ==
  ASSUME IInv, NEW a \in Actors, NEW arrives \in BOOLEAN, CommitLogin(a, arrives)
  PROVE  IInv'
  <1> DEFINE n == Next1
  <1>1. Types /\ UNCHANGED <<otp, sent>> /\ call[a].step = "commit" /\ call[a].kind = "login"
    BY DEF IInv, CommitLogin, Is
  <1>2. WriteUser(a, New(a), NoCall) /\ tokens' = Issue(0)
    BY DEF CommitLogin
  <1>3. New(a) \in AccountRow
    BY <1>1, NewType DEF Kinds
  <1>4. /\ user' \in AccountRow /\ call' \in [Actors -> Call] /\ \A b \in Actors : GoesOn(b)
        /\ hist' = hist
    BY <1>1, <1>2, <1>3, WriteFacts
  <1>5. /\ tokens' \in [Ids -> TokenRow]
        /\ \A k \in Ids : k # n => tokens'[k] = tokens[k]
        /\ n \in Ids => tokens'[n].state = "live" /\ tokens'[n].of = 0 /\ tokens[n].state = "none"
    <2>1. /\ Issue(0) \in [Ids -> TokenRow]
          /\ \A k \in Ids : k # n => Issue(0)[k] = tokens[k]
          /\ n \in Ids => Issue(0)[n] = [state |-> "live", of |-> 0]
          /\ n \in Ids => tokens[n].state = "none"
      <3>1. 0 \in Nat
        OBVIOUS
      <3>2. QED
        BY <3>1, IssueFacts
    <2> HIDE DEF n
    <2>2. QED
      BY <1>2, <2>1
  <1>6. n \in Nat /\ (n \in Ids => Used \cup {n} = 1..n)
    BY NextTokenIsNew
  <1>7. jar' \in Nat
    BY <1>1, <1>6 DEF CommitLogin, SetCookies, Types
  <1> HIDE DEF n
  <1>8. Numbered'
    <2>1. Used' = IF n \in Ids THEN Used \cup {n} ELSE Used
      BY <1>5 DEF Used
    <2>2. QED
      BY <1>6, <2>1 DEF IInv, Numbered
  <1>9. Exchanged' /\ Unexchanged'
    <2>1. \A h, k \in Ids : tokens'[h].of = k => tokens[h].of = k /\ k # n
      BY <1>5 DEF IInv, Exchanged, Ids
    <2>2. Exchanged'
      BY <1>5, <2>1 DEF IInv, Exchanged
    <2>3. Unexchanged'
      BY <1>4, <2>1, NoCallType DEF IInv, Unexchanged, GoesOn, Keeps, Moves
    <2>4. QED
      BY <2>2, <2>3
  <1>10. EndedAreDeleted'
    BY <1>1, <1>4, <1>5 DEF IInv, EndedAreDeleted, Types, History
  <1>11. \A k \in Ids : /\ tokens[k].state # "none" => tokens'[k].state # "none"
                        /\ tokens[k].state = "deleted" => tokens'[k].state = "deleted"
    BY <1>5
  <1>12. FoundAreSeen'
    BY <1>4, <1>11, FoundStays
  <1>13. QED
    BY <1>1, <1>4, <1>5, <1>7, <1>8, <1>9, <1>10, <1>12, GoesOnMoves, TokensFrame DEF Types

LEMMA RotateInv ==
  ASSUME IInv, NEW a \in Actors, NEW arrives \in BOOLEAN, Rotate(a, arrives)
  PROVE  IInv'
  <1>1. Types /\ UNCHANGED <<user, otp, sent>> /\ call[a].step = "rotate" /\ call[a] \in Call
    BY DEF IInv, Types, Rotate
  <1>2. CASE ~RowsThere({call[a].tok})
    <2>1. Answer(a) /\ UNCHANGED <<tokens, jar, hist>>
      BY <1>2 DEF Rotate
    <2>2. QED
      BY <1>1, <2>1, AnswerGoesOn, Frame DEF Types
  <1>3. CASE RowsThere({call[a].tok})
    <2> DEFINE n == Next1
    <2>1. PICK t \in Ids : t = call[a].tok
      BY <1>3 DEF RowsThere, Rows
    <2>2. t \in Ids /\ tokens[t].state \in {"live", "revoked"} /\ t \in Nat
      BY <1>3, <2>1 DEF RowsThere, Rows, Ids
    <2>3. /\ Issue(t) \in [Ids -> TokenRow]
          /\ \A k \in Ids : k # n => Issue(t)[k] = tokens[k]
          /\ n \in Ids => Issue(t)[n] = [state |-> "live", of |-> t]
          /\ n \in Ids => tokens[n].state = "none"
      BY <2>2, IssueFacts
    <2>4. n \in Nat /\ (n \in Ids => Used \cup {n} = 1..n)
      BY NextTokenIsNew
    <2>5. tokens' = [Issue(t) EXCEPT ![t].state = "revoked"]
      BY <1>3, <2>1 DEF Rotate
    <2>6. jar' \in Nat
      BY <1>1, <1>3, <2>4 DEF Rotate, SetCookies, Types
    <2> DEFINE fs(b) == With(call[b].found, t)
               r == [call[a] EXCEPT !.step = "sent", !.retry = FALSE, !.tok = n, !.late = FALSE,
                                    !.found = fs(a)]
               o(b) == [call[b] EXCEPT !.found = fs(b), !.late = @ \/ call[b].step = "rotate"]
    <2>7. n \in Ids
      BY <1>3 DEF Rotate
    <2>8. call' = [b \in Actors |-> IF b # a THEN o(b) ELSE IF arrives THEN r ELSE NoCall]
      BY <1>3, <2>1 DEF Rotate
    <2>9. /\ hist' = [hist EXCEPT !.ended = With(@, t),
                                  !.missed = IF Ending(t) THEN @ \cup {n} ELSE With(@, t)]
          /\ \A ks : With(ks, t) = IF t \in ks THEN ks \cup {n} ELSE ks
      BY <1>3, <2>1 DEF Rotate, With
    <2>10. \A b \in Actors : fs(b) = IF t \in call[b].found THEN call[b].found \cup {n}
                                     ELSE call[b].found
      BY DEF With
    <2> HIDE DEF n, fs
    <2>11. \A b \in Actors : call[b] \in Call /\ fs(b) \in SUBSET Ids
      BY <1>1, <2>7, <2>10 DEF Types, Call
    <2>12. /\ r \in Call /\ r.step = "sent" /\ r.kind = call[a].kind
           /\ r.n = call[a].n /\ r.found = fs(a)
      BY <1>1, <2>4, <2>11 DEF Call, Steps
    <2>13. \A b \in Actors : /\ o(b) \in Call /\ o(b).step = call[b].step /\ o(b).kind = call[b].kind
                             /\ o(b).n = call[b].n /\ o(b).tok = call[b].tok
                             /\ o(b).seen = call[b].seen /\ o(b).row = call[b].row
                             /\ o(b).found = fs(b)
                             /\ (o(b).late <=> call[b].late \/ call[b].step = "rotate")
      BY <2>11 DEF Call
    <2> HIDE DEF r, o
    <2>14. /\ hist' \in History /\ hist'.spent = hist.spent
           /\ hist'.ended = IF t \in hist.ended THEN hist.ended \cup {n} ELSE hist.ended
           /\ hist.missed \subseteq hist'.missed
           /\ Ending(t) \/ t \in hist.missed => n \in hist'.missed
      <3> DEFINE ended == With(hist.ended, t)
                 missed == IF Ending(t) THEN hist.missed \cup {n} ELSE With(hist.missed, t)
      <3>1. hist \in History
        BY <1>1 DEF Types
      <3>2. /\ ended = IF t \in hist.ended THEN hist.ended \cup {n} ELSE hist.ended
            /\ hist.missed \subseteq missed
            /\ Ending(t) \/ t \in hist.missed => n \in missed
            /\ missed \subseteq hist.missed \cup {n}
        BY <2>9
      <3>3. ended \in SUBSET Ids /\ missed \in SUBSET Ids
        BY <2>7, <3>1, <3>2 DEF History
      <3>4. hist' = [hist EXCEPT !.ended = ended, !.missed = missed]
        BY <2>9
      <3> HIDE DEF ended, missed
      <3>5. hist' \in History /\ hist'.spent = hist.spent /\ hist'.ended = ended /\ hist'.missed = missed
        BY <3>1, <3>3, <3>4 DEF History
      <3>6. QED
        BY <3>2, <3>5
    <2>15. /\ tokens' \in [Ids -> TokenRow]
           /\ \A k \in Ids : k \notin {n, t} => tokens'[k] = tokens[k]
           /\ tokens'[t].state = "revoked" /\ tokens'[t].of = tokens[t].of
           /\ n # t
           /\ n \in Ids => tokens'[n].state = "live" /\ tokens'[n].of = t
      <3>1. n # t
        BY <2>2, <2>3
      <3>2. Issue(t)[t] = tokens[t] /\ tokens[t] \in TokenRow
        BY <1>1, <2>2, <2>3, <3>1 DEF Types, TokenRow
      <3>3. [tokens[t] EXCEPT !.state = "revoked"] \in TokenRow
        BY <3>2 DEF TokenRow
      <3>4. tokens' = [Issue(t) EXCEPT ![t] = [tokens[t] EXCEPT !.state = "revoked"]]
        BY <2>5, <3>2
      <3>5. [tokens[t] EXCEPT !.state = "revoked"].state = "revoked"
            /\ [tokens[t] EXCEPT !.state = "revoked"].of = tokens[t].of
        BY <3>2 DEF TokenRow
      <3>6. QED
        BY <2>2, <2>3, <3>1, <3>3, <3>4, <3>5
    <2>16. MovesOn(a) /\ call'[a] \in Call /\ call'[a].step # "rotate"
      BY <2>8, <2>12, NoCallType DEF MovesOn, Moves
    <2>17. \A b \in Actors \ {a} : MovesOn(b) /\ call'[b] \in Call
      BY <1>1, <2>8, <2>13 DEF MovesOn, Moves, Types, RowsRead
    <2>18. call' \in [Actors -> Call]
      BY <2>8, <2>16, <2>17
    <2>19. Numbered'
      <3>1. Used' = IF n \in Ids THEN Used \cup {n} ELSE Used
        BY <2>2, <2>15 DEF Used
      <3>2. QED
        BY <2>4, <3>1 DEF IInv, Numbered
    <2>20. Exchanged'
      <3>1. \A h, k \in Ids : tokens'[h].of = k => k = t \/ (tokens[h].of = k /\ k # n)
        BY <2>3, <2>15 DEF IInv, Exchanged
      <3>2. QED
        BY <2>15, <3>1 DEF IInv, Exchanged
    <2>21. Unexchanged'
      <3>1. \A b \in Actors : call'[b].step = "rotate" => call'[b].late
        <4> SUFFICES ASSUME NEW b \in Actors, call'[b].step = "rotate"
                     PROVE  call'[b].late
          OBVIOUS
        <4>1. b # a /\ call'[b] = o(b)
          BY <2>8, <2>16
        <4>2. QED
          BY <2>13, <4>1
      <3>2. QED
        BY <3>1 DEF Unexchanged
    <2>22. EndedAreDeleted'
      <3> SUFFICES ASSUME NEW k \in hist'.ended \ hist'.missed
                   PROVE  tokens'[k].state = "deleted"
        BY DEF EndedAreDeleted
      <3>1. t \in hist.ended => t \in hist.missed
        BY <2>2 DEF IInv, EndedAreDeleted
      <3>2. k \in hist.ended \ hist.missed
        BY <2>14, <3>1
      <3>3. k \in Ids /\ tokens[k].state = "deleted"
        BY <1>1, <3>2 DEF Types, History, IInv, EndedAreDeleted
      <3>4. QED
        BY <2>2, <2>3, <2>15, <3>3
    <2>23. FoundAreSeen'
      <3> SUFFICES ASSUME NEW b \in Actors, NEW k \in call'[b].found
                   PROVE  /\ tokens'[k].state # "none"
                          /\ call'[b].step = "commit" /\ call'[b].kind \in {"logout", "reset"} =>
                               \/ k \in call'[b].seen \/ tokens'[k].state = "deleted"
                               \/ k \in hist'.missed
        BY DEF FoundAreSeen
      <3>1. k \in fs(b) /\ (call'[b].step = "commit" => b # a /\ call'[b] = o(b))
        BY <2>8, <2>12, <2>13, NoCallType
      <3>2. CASE k \in call[b].found
        <4>1. k \in Ids /\ tokens[k].state # "none"
          BY <2>11, <3>2 DEF IInv, FoundAreSeen, Call
        <4>2. tokens'[k].state # "none" /\ (tokens[k].state = "deleted" => tokens'[k].state = "deleted")
          BY <2>2, <2>3, <2>15, <4>1
        <4>3. QED
          BY <2>13, <2>14, <3>1, <3>2, <4>2 DEF IInv, FoundAreSeen
      <3>3. CASE k = n /\ t \in call[b].found
        <4>1. tokens'[k].state = "live"
          BY <2>7, <2>15, <3>3
        <4>2. call'[b].step = "commit" /\ call'[b].kind \in {"logout", "reset"} => Ending(t)
          BY <2>13, <3>1, <3>3 DEF Ending, Is
        <4>3. QED
          BY <2>14, <3>3, <4>1, <4>2
      <3>4. QED
        BY <2>10, <3>1, <3>2, <3>3
    <2>24. QED
      BY <1>1, <2>6, <2>14, <2>15, <2>16, <2>17, <2>18, <2>19, <2>20, <2>21, <2>22, <2>23,
         TokensFrame DEF Types
  <1>4. QED
    BY <1>2, <1>3

\* Rows that are there are deleted.
LEMMA DeleteFacts ==
  ASSUME IInv, NEW seen \in SUBSET Ids, RowsThere(seen), tokens' = DeleteAllByUserId(seen)
  PROVE  /\ tokens' \in [Ids -> TokenRow]
         /\ \A k \in Ids : tokens'[k].of = tokens[k].of
         /\ \A k \in Ids : tokens'[k].state = IF k \in seen THEN "deleted" ELSE tokens[k].state
         /\ Numbered' /\ Exchanged'
         /\ \A k \in Ids : /\ tokens[k].state # "none" => tokens'[k].state # "none"
                           /\ tokens[k].state = "deleted" => tokens'[k].state = "deleted"
  <1>1. tokens \in [Ids -> TokenRow]
    BY DEF IInv, Types, TokenRow
  <1>2. tokens' = [k \in Ids |-> IF k \in seen THEN [tokens[k] EXCEPT !.state = "deleted"]
                                 ELSE tokens[k]]
    BY DEF DeleteAllByUserId
  <1>3. \A k \in Ids : /\ [tokens[k] EXCEPT !.state = "deleted"] \in TokenRow
                       /\ [tokens[k] EXCEPT !.state = "deleted"].state = "deleted"
                       /\ [tokens[k] EXCEPT !.state = "deleted"].of = tokens[k].of
    BY <1>1 DEF TokenRow
  <1>4. /\ tokens' \in [Ids -> TokenRow]
        /\ \A k \in Ids : tokens'[k].of = tokens[k].of
        /\ \A k \in Ids : tokens'[k].state = IF k \in seen THEN "deleted" ELSE tokens[k].state
    BY <1>1, <1>2, <1>3
  <1>5. \A k \in seen : tokens[k].state # "none"
    BY DEF RowsThere, Rows
  <1>6. Used' = Used
    BY <1>4, <1>5 DEF Used
  <1>7. Numbered' /\ Exchanged'
    BY <1>4, <1>6 DEF IInv, Numbered, Exchanged
  <1>8. QED
    BY <1>4, <1>5, <1>7

LEMMA CommitResetInv ==
  ASSUME IInv, NEW a \in Actors, CommitReset(a)
  PROVE  IInv'
  <1>1. /\ Types /\ UNCHANGED <<otp, sent, jar>> /\ call[a] \in Call
        /\ call[a].step = "commit" /\ call[a].kind = "reset"
    BY DEF IInv, Types, CommitReset, Is
  <1>2. CASE Answer(a) /\ UNCHANGED <<user, tokens, hist>>
    BY <1>1, <1>2, AnswerGoesOn, Frame DEF Types
  <1>3. CASE /\ RowsThere(call[a].seen) /\ WriteUser(a, New(a), NoCall)
             /\ tokens' = DeleteAllByUserId(call[a].seen)
    <2>1. New(a) \in AccountRow
      BY <1>1, NewType DEF Kinds
    <2>2. /\ user' \in AccountRow /\ call' \in [Actors -> Call] /\ \A b \in Actors : GoesOn(b)
          /\ hist' \in History /\ hist'.spent = hist.spent
          /\ hist'.ended = hist.ended \cup call[a].found
          /\ hist'.missed = hist.missed \ call[a].seen
      BY <1>1, <1>3, <2>1, WriteFacts, EndsFacts
    <2>3. PICK seen \in SUBSET Ids : seen = call[a].seen
      BY <1>1 DEF Call
    <2>4. /\ tokens' \in [Ids -> TokenRow]
          /\ \A k \in Ids : tokens'[k].of = tokens[k].of
          /\ \A k \in Ids : tokens'[k].state = IF k \in seen THEN "deleted" ELSE tokens[k].state
          /\ Numbered' /\ Exchanged'
          /\ \A k \in Ids : /\ tokens[k].state # "none" => tokens'[k].state # "none"
                            /\ tokens[k].state = "deleted" => tokens'[k].state = "deleted"
      BY <1>3, <2>3, DeleteFacts
    <2>5. Unexchanged'
      BY <2>2, <2>4, NoCallType DEF IInv, Unexchanged, GoesOn, Keeps, Moves
    <2>6. EndedAreDeleted'
      BY <1>1, <2>2, <2>3, <2>4 DEF IInv, EndedAreDeleted, FoundAreSeen, Types, Call, History
    <2>7. FoundAreSeen'
      BY <2>2, <2>3, <2>4, FoundStays
    <2>8. jar' \in Nat
      BY <1>1 DEF Types
    <2>9. QED
      BY <1>1, <2>2, <2>4, <2>5, <2>6, <2>7, <2>8, GoesOnMoves, TokensFrame
  <1>4. QED
    BY <1>2, <1>3 DEF CommitReset

LEMMA CommitLogoutInv ==
  ASSUME IInv, NEW a \in Actors, CommitLogout(a)
  PROVE  IInv'
  <1>1. /\ Types /\ UNCHANGED <<user, otp, sent>> /\ call[a] \in Call
        /\ call[a].step = "commit" /\ call[a].kind = "logout"
    BY DEF IInv, Types, CommitLogout, Is
  <1>2. Answer(a) /\ call' \in [Actors -> Call] /\ \A b \in Actors : GoesOn(b)
    BY AnswerGoesOn DEF CommitLogout
  <1>3. CASE UNCHANGED <<tokens, hist, jar>>
    BY <1>1, <1>2, <1>3, Frame DEF Types
  <1>4. CASE /\ RowsThere(call[a].seen) /\ tokens' = DeleteAllByUserId(call[a].seen)
             /\ hist' = Ends(a) /\ jar' = 0
    <2>1. PICK seen, found \in SUBSET Ids : seen = call[a].seen /\ found = call[a].found
      BY <1>1 DEF Call
    <2>2. /\ hist' \in History /\ hist'.spent = hist.spent
          /\ hist'.ended = hist.ended \cup found /\ hist'.missed = hist.missed \ seen
      BY <1>4, <2>1, EndsFacts
    <2>3. /\ tokens' \in [Ids -> TokenRow]
          /\ \A k \in Ids : tokens'[k].of = tokens[k].of
          /\ \A k \in Ids : tokens'[k].state = IF k \in seen THEN "deleted" ELSE tokens[k].state
          /\ Numbered' /\ Exchanged'
          /\ \A k \in Ids : /\ tokens[k].state # "none" => tokens'[k].state # "none"
                            /\ tokens[k].state = "deleted" => tokens'[k].state = "deleted"
      BY <1>4, <2>1, DeleteFacts
    <2>4. Unexchanged'
      BY <1>2, <2>3, NoCallType DEF IInv, Unexchanged, GoesOn, Keeps, Moves
    <2>5. EndedAreDeleted'
      BY <1>1, <2>1, <2>2, <2>3 DEF IInv, EndedAreDeleted, FoundAreSeen, Types, Call, History
    <2>6. FoundAreSeen'
      BY <1>2, <2>2, <2>3, FoundStays
    <2>7. user' \in AccountRow /\ jar' \in Nat
      BY <1>1, <1>4 DEF Types
    <2>8. QED
      BY <1>1, <1>2, <2>2, <2>3, <2>4, <2>5, <2>6, <2>7, GoesOnMoves, TokensFrame
  <1>5. QED
    BY <1>3, <1>4 DEF CommitLogout

-----------------------------------------------------------------------------
(* Time, and the whole *)

LEMMA LockEndsInv ==
  ASSUME IInv, LockEnds
  PROVE  IInv'
  <1>1. Types /\ UNCHANGED <<otp, sent, tokens, jar, hist>>
    BY DEF IInv, LockEnds
  <1>2. user' \in AccountRow
    BY <1>1 DEF LockEnds, Types, AccountRow
  <1>3. \A b \in Actors : GoesOn(b) /\ call'[b] \in Call
    <2> SUFFICES ASSUME NEW b \in Actors
                 PROVE  GoesOn(b) /\ call'[b] \in Call
      OBVIOUS
    <2>1. call[b] \in Call
      BY <1>1 DEF Types
    <2>2. CASE call[b].row = <<>>
      BY <2>1, <2>2, SameGoesOn DEF LockEnds
    <2>3. CASE call[b].row # <<>>
      <3> DEFINE locked == IF call[b].row.locked = "now" THEN "before" ELSE call[b].row.locked
                 row == [call[b].row EXCEPT !.locked = locked]
                 r == [call[b] EXCEPT !.row = row]
      <3>1. call[b].row \in AccountRow
        BY <2>1, <2>3 DEF Call
      <3>2. locked \in {"never", "now", "before"}
        BY <3>1 DEF AccountRow
      <3>3. call'[b] = r
        BY <2>3 DEF LockEnds
      <3> HIDE DEF locked
      <3>4. row \in AccountRow
        BY <3>1, <3>2 DEF AccountRow
      <3> HIDE DEF row
      <3>5. /\ r \in Call /\ r.step = call[b].step /\ r.kind = call[b].kind /\ r.n = call[b].n
            /\ r.found = call[b].found /\ r.tok = call[b].tok /\ r.late = call[b].late
            /\ r.seen = call[b].seen /\ r.row = row
        BY <2>1, <3>4 DEF Call
      <3> HIDE DEF r
      <3>6. Keeps(b)
        BY <3>3, <3>4, <3>5 DEF Keeps, Moves
      <3>7. QED
        BY <3>3, <3>5, <3>6 DEF GoesOn
    <2>4. QED
      BY <2>2, <2>3
  <1>4. call' \in [Actors -> Call]
    BY <1>3 DEF LockEnds
  <1>5. QED
    BY <1>1, <1>2, <1>3, <1>4, Frame DEF Types

LEMMA CodeExpiresInv ==
  ASSUME IInv, CodeExpires
  PROVE  IInv'
  <1>1. Types /\ UNCHANGED <<user, sent, tokens, jar, call, hist>>
    BY DEF IInv, CodeExpires
  <1>2. PICK p \in {"verify", "fp"} : otp' = [otp EXCEPT ![p] = {}]
    BY DEF CodeExpires
  <1>3. otp' \in [{"verify", "fp"} -> SUBSET Nat] /\ \A q \in {"verify", "fp"} : otp'[q] \subseteq otp[q]
    BY <1>1, <1>2 DEF Types
  <1>4. Types'
    BY <1>1, <1>3 DEF Types, RowsRead
  <1>5. CodesAreFresh'
    BY <1>1, <1>3 DEF IInv, CodesAreFresh
  <1>6. QED
    BY <1>1, <1>4, <1>5 DEF IInv, Numbered, Used, Exchanged, Unexchanged, EndedAreDeleted,
       FoundAreSeen

LEMMA TimeInv ==
  ASSUME IInv, AccessExpires \/ CodeExpires \/ MinutePasses \/ LockEnds
  PROVE  IInv'
  <1>1. CASE AccessExpires \/ MinutePasses
    <2>1. UNCHANGED <<user, otp, sent, tokens, jar, call, hist>>
      BY <1>1 DEF AccessExpires, MinutePasses
    <2>2. QED
      BY <2>1, SameGoesOn, Frame DEF IInv, Types
  <1>2. QED
    BY <1>1, CodeExpiresInv, LockEndsInv

LEMMA Stutters ==
  ASSUME IInv, UNCHANGED vars
  PROVE  IInv'
  BY SameGoesOn, Frame DEF IInv, Types, vars

LEMMA Stepwise ==
  ASSUME IInv, Next
  PROVE  IInv'
  <1>1. CASE \E a \in Actors : Ask(a)
    BY <1>1, AskInv, AccountsAssumption DEF Ask
  <1>2. ASSUME NEW a \in Actors, Serve(a)
        PROVE  IInv'
    <2>1. CASE \/ Refuse(a) \/ Login(a) \/ ReadAttempts(a)
               \/ ChangePassword(a) \/ UpdateMyProfile(a) \/ UpdateUserStatus(a)
      BY <2>1, ServedInv
    <2>2. CASE \E arrives \in BOOLEAN : Rotate(a, arrives) \/ CommitLogin(a, arrives)
      BY <2>2, RotateInv, CommitLoginInv
    <2>3. CASE Renew(a) \/ RecordFailedAttempt(a) \/ Commit(a)
      BY <2>3, RenewInv, RecordInv, CommitInv
    <2>4. CASE CheckOtp(a) \/ SpendCode(a) \/ ForgotPassword(a) \/ ResendVerification(a)
      BY <2>4, CheckOtpInv, SpendCodeInv, SendCodeInv
    <2>5. CASE CommitReset(a) \/ Blacklist(a) \/ CommitLogout(a)
      BY <2>5, CommitResetInv, BlacklistInv, CommitLogoutInv
    <2>6. QED
      BY <1>2, <2>1, <2>2, <2>3, <2>4, <2>5 DEF Serve
  <1>3. QED
    BY <1>1, <1>2, TimeInv DEF Next

LEMMA Initially ==
  ASSUME Init
  PROVE  IInv
  <1>1. jar \in {0, 1} /\ call = [a \in Actors |-> NoCall]
    BY DEF Init
  <1>2. /\ tokens = [k \in Ids |-> [state |-> IF k = jar THEN "live" ELSE "none", of |-> 0]]
        /\ hist = [spent |-> {}, ended |-> {}, missed |-> {}]
    BY DEF Init
  <1>3. \A a \in Actors : call[a] = NoCall
    BY <1>1
  <1>4. /\ user \in AccountRow
        /\ sent \in [{"verify", "fp"} -> Nat]
        /\ otp = [verify |-> 1..sent.verify, fp |-> {}]
        /\ sent.verify \in {0, 1} /\ sent.fp = 0
    <2>1. PICK as \in {"registered", "provisioned", "signed in"} :
            /\ user = [status |-> IF as = "registered" THEN "PENDING_VERIFICATION" ELSE "ACTIVE",
                       verified |-> as # "registered", password |-> "old", failed |-> 0,
                       locked |-> "never"]
            /\ sent = [verify |-> IF as = "registered" THEN 1 ELSE 0, fp |-> 0]
            /\ otp = [verify |-> 1..sent.verify, fp |-> {}]
      BY DEF Init
    <2>2. (as # "registered") \in BOOLEAN
      OBVIOUS
    <2>3. user \in AccountRow
      <3> DEFINE st == IF as = "registered" THEN "PENDING_VERIFICATION" ELSE "ACTIVE"
                 ve == as # "registered"
      <3>1. st \in {"PENDING_VERIFICATION", "ACTIVE", "SUSPENDED"} /\ ve \in BOOLEAN
        OBVIOUS
      <3>2. user = [status |-> st, verified |-> ve, password |-> "old", failed |-> 0,
                    locked |-> "never"]
        BY <2>1
      <3> HIDE DEF st, ve
      <3>3. QED
        BY <3>1, <3>2 DEF AccountRow, Password
    <2>4. sent \in [verify : Nat, fp : Nat] /\ sent.verify \in {0, 1} /\ sent.fp = 0
      BY <2>1
    <2>5. sent \in [{"verify", "fp"} -> Nat]
      BY <2>4
    <2>6. QED
      BY <2>1, <2>3, <2>4, <2>5
  <1>5. Types
    <2>1. otp \in [{"verify", "fp"} -> SUBSET Nat]
      BY <1>4
    <2>2. \A k \in Ids : [state |-> IF k = jar THEN "live" ELSE "none", of |-> 0] \in
             [state : {"none", "live", "revoked", "deleted"}, of : Nat]
      OBVIOUS
    <2>3. tokens \in [Ids -> [state : {"none", "live", "revoked", "deleted"}, of : Nat]]
      BY <1>2, <2>2
    <2>4. call \in [Actors -> Call] /\ RowsRead
      BY <1>1, <1>3, NoCallType DEF RowsRead
    <2>5. QED
      BY <1>1, <1>2, <1>4, <2>1, <2>3, <2>4 DEF Types, History
  <1>6. \A k \in Ids : /\ tokens[k].state = (IF k = jar THEN "live" ELSE "none")
                       /\ tokens[k].of = 0
    BY <1>2
  <1>7. Numbered
    <2>1. CASE 1 \in Ids /\ jar = 1
      <3>1. \A k : k \in Used <=> k = 1
        BY <1>6, <2>1 DEF Used, Ids
      <3>2. Used = 1..1
        BY <3>1
      <3>3. QED
        BY <3>2 DEF Numbered
    <2>2. CASE ~(1 \in Ids /\ jar = 1)
      <3>1. \A k \in Ids : tokens[k].state = "none"
        BY <1>1, <1>6, <2>2 DEF Ids
      <3>2. Used = {} /\ 1..0 = {}
        BY <3>1 DEF Used
      <3>3. QED
        BY <3>2 DEF Numbered
    <2>3. QED
      BY <2>1, <2>2
  <1>8. Exchanged
    BY <1>6 DEF Exchanged, Ids
  <1>9. Unexchanged /\ FoundAreSeen
    BY <1>3, NoCallType DEF Unexchanged, FoundAreSeen
  <1>10. EndedAreDeleted
    BY <1>2 DEF EndedAreDeleted
  <1>11. CodesAreFresh
    <2>1. 1..0 \subseteq {0} /\ 1..1 \subseteq {1}
      OBVIOUS
    <2>2. QED
      BY <1>2, <1>3, <1>4, <2>1, NoCallType DEF CodesAreFresh
  <1>12. QED
    BY <1>5, <1>7, <1>8, <1>9, <1>10, <1>11 DEF IInv

\* The invariant holds in every reachable state.
THEOREM Inductive == Spec => []IInv
  <1>1. Init => IInv
    BY Initially
  <1>2. IInv /\ [Next]_vars => IInv'
    BY Stepwise, Stutters
  <1>3. QED
    BY <1>1, <1>2, PTL DEF Spec

-----------------------------------------------------------------------------
(* What follows *)

\* After logout() or resetPassword() has committed, the sessions there were when it came are
\* over, through every later exchange of their tokens, unless a refresh() commits between its
\* read of the tokens and its delete: then the new token of that session stays good.
THEOREM EndedStaysEnded == Spec => []EndedForGood
  <1>1. IInv => EndedForGood
    BY DEF IInv, EndedAreDeleted, EndedForGood
  <1>2. QED
    BY <1>1, Inductive, PTL

\* An exchange of a token leaves the others where they are.
LEMMA RotateOthers ==
  ASSUME IInv, NEW a \in Actors, NEW arrives \in BOOLEAN, Rotate(a, arrives),
         NEW b \in Actors, b # a
  PROVE  /\ call'[b].step = call[b].step /\ call'[b].kind = call[b].kind
         /\ call'[b].pw = call[b].pw /\ call'[b].row = call[b].row
         /\ call[b].late => call'[b].late
  <1>1. Types /\ call[b] \in Call
    BY DEF IInv, Types
  <1>2. CASE Answer(a)
    BY <1>1, <1>2, AnswerFacts
  <1>3. CASE ~Answer(a)
    <2> DEFINE fs == With(call[b].found, call[a].tok)
               late == call[b].late \/ call[b].step = "rotate"
               r == [call[b] EXCEPT !.found = fs, !.late = late]
    <2>1. call'[b] = r
      BY <1>1, <1>3 DEF Rotate
    <2> HIDE DEF fs
    <2>2. /\ r.step = call[b].step /\ r.kind = call[b].kind /\ r.pw = call[b].pw
          /\ r.row = call[b].row /\ (r.late <=> late)
      BY <1>1 DEF Call
    <2> HIDE DEF r
    <2>3. QED
      BY <2>1, <2>2
  <1>4. QED
    BY <1>2, <1>3

\* The requests of the others stay at their step.
LEMMA OthersStay ==
  ASSUME IInv, NEW a \in Actors, NEW b \in Actors, a # b, Ask(b) \/ Serve(b)
  PROVE  call'[a].step = call[a].step
  <1>1. Types /\ call[a] \in Call
    BY DEF IInv, Types
  <1>2. \/ call'[a] = call[a] \/ call'[a] = [call[a] EXCEPT !.late = TRUE]
        \/ \E arrives \in BOOLEAN : Rotate(b, arrives)
    <2>1. CASE \E arrives \in BOOLEAN : CommitLogin(b, arrives)
      BY <1>1, <2>1 DEF CommitLogin, WriteUser
    <2>2. CASE Commit(b) \/ CommitReset(b) \/ RecordFailedAttempt(b)
      BY <1>1, <2>2 DEF Commit, CommitReset, RecordFailedAttempt, WriteUser, Answer, Goto, Types
    <2>3. CASE Refuse(b) \/ Renew(b) \/ Login(b) \/ ReadAttempts(b) \/ CheckOtp(b)
      BY <1>1, <2>3 DEF Refuse, Renew, Login, ReadAttempts, CheckOtp, Unauthorized, Step, Read,
                        Answer, Goto, Types
    <2>4. CASE Ask(b)
      BY <1>1, <2>4 DEF Ask, AskFor, Goto, Types
    <2>5. CASE SpendCode(b) \/ Blacklist(b) \/ CommitLogout(b) \/ ForgotPassword(b)
               \/ ResendVerification(b)
      BY <1>1, <2>5 DEF SpendCode, Blacklist, CommitLogout, ForgotPassword, ResendVerification,
                        Unauthorized, Step, Answer, Goto, Types
    <2>6. CASE ChangePassword(b) \/ UpdateMyProfile(b) \/ UpdateUserStatus(b)
      BY <1>1, <2>6 DEF ChangePassword, UpdateMyProfile, UpdateUserStatus, Read, Answer, Goto, Types
    <2>7. QED
      BY <2>1, <2>2, <2>3, <2>4, <2>5, <2>6 DEF Serve
  <1>3. [call[a] EXCEPT !.late = TRUE].step = call[a].step
    BY <1>1 DEF Call
  <1>4. QED
    BY <1>2, <1>3, RotateOthers

\* Nor does time move them.
LEMMA TimeStays ==
  ASSUME IInv, NEW a \in Actors,
         AccessExpires \/ CodeExpires \/ MinutePasses \/ LockEnds \/ UNCHANGED vars
  PROVE  call'[a].step = call[a].step
  <1>1. CASE LockEnds
    <2>1. call[a] \in Call
      BY DEF IInv, Types
    <2>2. \E r : call'[a] = call[a] \/ call'[a] = [call[a] EXCEPT !.row = r]
      BY <1>1 DEF LockEnds
    <2>3. \A r : [call[a] EXCEPT !.row = r].step = call[a].step
      BY <2>1 DEF Call
    <2>4. QED
      BY <2>2, <2>3
  <1>2. QED
    BY <1>1 DEF AccessExpires, CodeExpires, MinutePasses, vars

\* A request that is about to exchange a token exchanges it or is answered.
LEMMA OnlyRotates ==
  ASSUME IInv, [Next]_vars, NEW a \in Actors, call[a].step = "rotate", call'[a].step # "rotate"
  PROVE  \E arrives \in BOOLEAN : Rotate(a, arrives)
  <1>1. Ask(a) \/ Serve(a)
    BY OthersStay, TimeStays DEF Next
  <1>2. QED
    BY <1>1 DEF Ask, AskFor, Serve, Refuse, Renew, Login, ReadAttempts, RecordFailedAttempt,
       CheckOtp, SpendCode, CommitReset, ForgotPassword, ResendVerification, ChangePassword,
       UpdateMyProfile, UpdateUserStatus, Commit, Blacklist, CommitLogout, CommitLogin,
       Admitted, Is

\* refresh() exchanges a token that has been exchanged only for a request that
\* had read it before the other one committed.
THEOREM ExchangedOnce == Spec => OneHeir
  <1>1. ASSUME IInv, [Next]_vars, NEW a \in Tabs,
               call[a].step = "rotate", call'[a].step # "rotate", tokens' # tokens
        PROVE  call[a].late \/ \A k \in Used : tokens[k].of # call[a].tok
    <2>1. a \in Actors
      BY DEF Actors
    <2>2. PICK arrives \in BOOLEAN : Rotate(a, arrives)
      BY <1>1, <2>1, OnlyRotates
    <2>3. call[a].tok \in Ids
      BY <1>1, <2>2 DEF Rotate, RowsThere, Rows
    <2>4. QED
      BY <1>1, <2>1, <2>3 DEF IInv, Unexchanged, Used
  <1>2. IInv /\ [Next]_vars =>
          [\A a \in Tabs : call[a].step = "rotate" /\ call'[a].step # "rotate" /\ tokens' # tokens =>
             call[a].late \/ \A k \in Used : tokens[k].of # call[a].tok]_vars
    BY <1>1
  <1>3. QED
    BY <1>2, Inductive, PTL DEF Spec, OneHeir

\* Only checkOtp() lets a code pass.
LEMMA OnlyChecks ==
  ASSUME IInv, [Next]_vars, NEW a \in Actors, call[a].step = "sent", call'[a].step = "spend"
  PROVE  CheckOtp(a)
  <1>1. Types /\ call[a].step # "spend"
    BY DEF IInv
  <1>2. Ask(a) \/ Serve(a)
    BY <1>1, OthersStay, TimeStays DEF Next
  <1>3. ~Answer(a) /\ ~Unauthorized(a)
    <2>1. ~Answer(a)
      BY <1>1, AnswerFacts, NoCallType
    <2>2. ~Step(a, "renew")
      BY <1>1, StepFacts DEF Steps
    <2>3. QED
      BY <2>1, <2>2 DEF Unauthorized
  <1>4. ~Read(a, "commit") /\ ~Step(a, "wrong")
    BY <1>1, ReadFacts, StepFacts DEF Steps
  <1>5. CASE Blacklist(a)
    <2> DEFINE r == [call[a] EXCEPT !.step = "commit", !.seen = Rows]
    <2>1. call[a] \in Call /\ call'[a] = r
      BY <1>1, <1>5 DEF Types, Blacklist, Goto
    <2>2. r.step = "commit"
      BY <2>1 DEF Call
    <2>3. QED
      BY <2>1, <2>2
  <1>6. QED
    BY <1>2, <1>3, <1>4, <1>5 DEF Ask, AskFor, Serve, Refuse, Renew, Rotate, Login, ReadAttempts,
       RecordFailedAttempt, SpendCode, CommitReset, ForgotPassword, ResendVerification,
       ChangePassword, UpdateMyProfile, UpdateUserStatus, Commit, CommitLogout, CommitLogin,
       Admitted, Is

\* checkOtp() passes the latest code that was sent for its purpose, and no code
\* that verifyEmail() or resetPassword() has deleted.
THEOREM LatestCodeOnce == Spec => OnlyLatestCode
  <1>1. ASSUME IInv, [Next]_vars, NEW a \in Tabs, call[a].step = "sent", call'[a].step = "spend"
        PROVE  LET p == Purpose(call[a].kind) IN
               call[a].n = sent[p] /\ <<p, call[a].n>> \notin hist.spent
    <2>1. a \in Actors /\ Types
      BY <1>1 DEF Actors, IInv
    <2>2. CheckOtp(a)
      BY <1>1, <2>1, OnlyChecks
    <2>3. call[a].n \in otp[Purpose(call[a].kind)]
      <3>1. ~Unauthorized(a)
        BY <1>1, <2>1, AnswerFacts, NoCallType, StepFacts DEF Unauthorized, Steps
      <3>2. QED
        BY <2>2, <3>1 DEF CheckOtp
    <2>4. Purpose(call[a].kind) \in {"verify", "fp"} /\ call[a].n \in Nat
      BY <2>1 DEF Purpose, Types, Call
    <2>5. QED
      BY <1>1, <2>3, <2>4 DEF IInv, CodesAreFresh
  <1>2. IInv /\ [Next]_vars =>
          [\A a \in Tabs : call[a].step = "sent" /\ call'[a].step = "spend" =>
             LET p == Purpose(call[a].kind) IN
             call[a].n = sent[p] /\ <<p, call[a].n>> \notin hist.spent]_vars
    BY <1>1
  <1>3. QED
    BY <1>2, Inductive, PTL DEF Spec, OnlyLatestCode

-----------------------------------------------------------------------------
(* The pages *)

\* A request holds the row it read while it is about to write it, and the row is
\* as it was unless it is late.
RowsCurrent ==
  \A a \in Actors : call[a].row # <<>> =>
    /\ call[a].step \in {"count", "spend", "commit"}
    /\ ~call[a].late => call[a].row = user

\* What an answer promised.
Done(kind, pw) ==
  CASE kind = "verify" -> user.verified
    [] kind = "reset"  -> user.password = "new"
    [] kind = "change" -> user.password # pw
    [] OTHER           -> TRUE

Promise == CASE page.told = "verified" -> "verify"
             [] page.told = "reset"    -> "reset"
             [] page.told = "changed"  -> "change"
             [] OTHER                  -> "none"

\* The page waits for one request of its own, which is what it takes it for.  Unless
\* it was overtaken the row that request read says of the address what the account does.
TabInv ==
  /\ page \in Page /\ over \in [page : BOOLEAN, console : BOOLEAN]
  /\ page.by # {} => page.told = "nothing"
  /\ page.answer # "none" => page.by # {}
  /\ page.by = {} \/ \E t \in Tabs : page.by = {t}
  /\ \A t \in page.by :
       /\ page.kind \in Kinds \ Admins /\ (page.kind = "reset" => page.pw = "new")
       /\ page.answer = "none" =>
            /\ call[t].step # "idle" /\ call[t].kind = page.kind /\ call[t].pw = page.pw
            /\ ~over.page /\ call[t].row # <<>> => call[t].row.verified = user.verified
       /\ page.answer # "none" => call[t].step = "idle"
  /\ ~over.page /\ page.answer = "ok" => Done(page.kind, page.pw)
  /\ ~over.page => Done(Promise, page.pw)

\* The same of the administrator's page.
ConsoleInv ==
  /\ console = <<>> \/ console \in [status : {"PENDING_VERIFICATION", "ACTIVE", "SUSPENDED"},
                                    busy : BOOLEAN,
                                    told : {"nothing", "suspended", "activated"}]
  /\ desk \in {"requests", "pages"} /\ (desk = "requests" =>
       console = <<>> /\ page.by = {} /\ page.told = "nothing")
  /\ desk = "pages" /\ (console # <<>> => ~console.busy) => call[Admin].step = "idle"
  /\ console # <<>> /\ console.busy =>
       /\ console.told = "nothing"
       /\ call[Admin].kind \in Admins
       /\ call[Admin].step \in {"sent", "commit"}
       /\ ~over.console /\ call[Admin].row # <<>> => call[Admin].row.status = user.status
  /\ console # <<>> /\ ~over.console =>
       CASE console.told = "suspended" -> user.status = "SUSPENDED"
         [] console.told = "activated" -> user.status = "ACTIVE"
         [] OTHER                      -> TRUE

-----------------------------------------------------------------------------
(* The pages are among the users *)

LEMMA PageStepIs ==
  ASSUME (desk = "requests" /\ Next /\ UNCHANGED pageVars) \/ PagesNext
  PROVE  Next \/ UNCHANGED vars
  <1>1. \A t \in Tabs : t # Admin /\ t \in Actors
    BY AccountsAssumption DEF Actors
  <1>2. Admin \in Actors
    BY DEF Actors
  <1>3. ASSUME NEW t \in Tabs, NEW kind \in Kinds \ Admins, Submit(t, kind)
        PROVE  Next
    <2>1. kind \in Asked /\ AskFor(t, kind)
      BY <1>3 DEF Submit
    <2>2. Ask(t)
      BY <1>1, <2>1 DEF Ask
    <2>3. QED
      BY <1>1, <2>2 DEF Next
  <1>4. {"login", "forgot", "reset", "verify", "resend", "profile", "change", "logout"}
          \subseteq Kinds \ Admins
    BY DEF Kinds, Admins
  <1>5. ASSUME NEW t \in Tabs,
               \/ LoginPage(t) \/ ForgotPage(t) \/ ResetPage(t) \/ VerifyPage(t)
               \/ ProfileTab(t) \/ AccountTab(t) \/ Logout(t)
        PROVE  Next
    BY <1>3, <1>4, <1>5 DEF LoginPage, ForgotPage, ResetPage, VerifyPage, ProfileTab,
       AccountTab, Logout
  <1>6. ASSUME NEW t \in Tabs, Served(t)
        PROVE  Next
    BY <1>1, <1>6 DEF Served, Next
  <1>7. ASSUME ToggleStatus
        PROVE  Next
    <2>1. PICK kind \in Admins : kind \in Asked /\ AskFor(Admin, kind)
      BY <1>7 DEF ToggleStatus, Admins
    <2>2. Ask(Admin)
      BY <2>1 DEF Ask
    <2>3. QED
      BY <1>2, <2>2 DEF Next
  <1>8. ASSUME ServedAdmin
        PROVE  Next
    BY <1>2, <1>8 DEF ServedAdmin, Next
  <1>9. ASSUME Times
        PROVE  Next
    BY <1>9 DEF Times, Next
  <1>10. ASSUME \/ \E p \in Places, reloads \in BOOLEAN : Visit(p, reloads)
                \/ Answered \/ Cooled \/ OpenStudent
         PROVE  UNCHANGED vars
    BY <1>10 DEF Visit, Answered, Cooled, OpenStudent
  <1>11. QED
    BY <1>5, <1>6, <1>7, <1>8, <1>9, <1>10 DEF PagesNext

\* The pages send nothing that anyone may not send: what is proved of auth-service
\* whatever requests it is sent holds when they come from the pages.
THEOREM PagesAreUsers == PagesSpec => Spec
  <1>1. PagesInit => Init
    BY DEF PagesInit
  <1>2. [(desk = "requests" /\ Next /\ UNCHANGED pageVars) \/ PagesNext]_siteVars => [Next]_vars
    BY PageStepIs DEF siteVars
  <1>3. QED
    BY <1>1, <1>2, PTL DEF PagesSpec, Spec

-----------------------------------------------------------------------------
(* What a step of a request does to the rows that requests hold *)

\* The request itself goes on with the row it has, or reads the account, or holds none.
Held(a) ==
  /\ call'[a].kind = call[a].kind /\ call'[a].pw = call[a].pw /\ call'[a].step # "idle"
  /\ \/ call'[a].row = <<>>
     \/ /\ call'[a].step \in {"count", "spend", "commit"}
        /\ \/ call'[a].row = user'
           \/ call'[a].row = call[a].row /\ call'[a].late = call[a].late /\ user' = user

\* The others keep theirs, and those who have one are late when the account was written.
Aside(b) ==
  /\ call'[b].step = call[b].step /\ call'[b].kind = call[b].kind /\ call'[b].pw = call[b].pw
  /\ call'[b].row = call[b].row
  /\ call[b].late => call'[b].late
  /\ user' # user => call[b].row = <<>> \/ call'[b].late

\* The account is written by a request that commits, or counts a wrong password.
Wrote(a) ==
  /\ call'[a].step # call[a].step
  /\ \/ call[a].step = "commit" /\ call[a].kind \in Kinds \ {"logout", "resend", "forgot"}
        /\ user' = New(a) /\ call'[a] = NoCall
     \/ call[a].step = "count" /\ user' = Recorded(call[a].row)

Served1(a) ==
  /\ call'[a] = NoCall \/ Held(a)
  /\ \A b \in Actors \ {a} : Aside(b)
  /\ user' = user \/ Wrote(a)

LEMMA QuietStep ==
  ASSUME IInv, RowsCurrent, NEW a \in Actors, user' = user,
         \/ Answer(a)
         \/ Unauthorized(a) /\ call[a].step = "sent"
         \/ Step(a, "wrong") /\ call[a].step = "sent"
         \/ \E s \in {"count", "spend", "commit"} : Read(a, s)
  PROVE  Served1(a)
  <1>1. Types /\ call[a].step = "sent" => call[a].row = <<>>
    BY DEF IInv, RowsCurrent
  <1>2. CASE Answer(a)
    BY <1>1, <1>2, AnswerFacts DEF IInv, Served1, Aside
  <1>3. CASE call[a].step = "sent" /\ (Step(a, "renew") \/ Step(a, "wrong"))
    BY <1>1, <1>3, StepFacts DEF IInv, Served1, Aside, Held, Steps
  <1>4. CASE \E s \in {"count", "spend", "commit"} : Read(a, s)
    BY <1>1, <1>4, ReadFacts DEF IInv, Served1, Aside, Held, Steps
  <1>5. QED
    BY <1>2, <1>3, <1>4 DEF Unauthorized

\* A request that goes on with the row it has.
LEMMA GoOnStep ==
  ASSUME IInv, RowsCurrent, NEW a \in Actors, user' = user, NEW r \in Call, Goto(a, r),
         r.kind = call[a].kind, r.pw = call[a].pw, r.row = call[a].row,
         \/ call[a].step \in {"sent", "renew"} /\ r.step # "idle"
         \/ r.step = "commit" /\ r.late = call[a].late
  PROVE  Served1(a)
  <1>1. Types
    BY DEF IInv
  <1>2. call'[a] = r /\ \A b \in Actors \ {a} : call'[b] = call[b]
    BY <1>1, GotoFacts
  <1>3. Held(a)
    BY <1>2 DEF Held, RowsCurrent
  <1>4. QED
    BY <1>2, <1>3 DEF Served1, Aside

LEMMA QuietServes ==
  ASSUME IInv, RowsCurrent, NEW a \in Actors,
         \/ Refuse(a) \/ Login(a) \/ ReadAttempts(a) \/ CheckOtp(a) \/ ChangePassword(a)
         \/ UpdateMyProfile(a) \/ UpdateUserStatus(a) \/ ForgotPassword(a)
         \/ ResendVerification(a) \/ CommitLogout(a)
  PROVE  Served1(a) /\ user' = user
  <1>1. user' = user
    BY DEF Refuse, Login, ReadAttempts, CheckOtp, ChangePassword, UpdateMyProfile,
           UpdateUserStatus, ForgotPassword, ResendVerification, CommitLogout
  <1>2. \/ Answer(a)
        \/ Unauthorized(a) /\ call[a].step = "sent"
        \/ Step(a, "wrong") /\ call[a].step = "sent"
        \/ \E s \in {"count", "spend", "commit"} : Read(a, s)
    BY DEF Refuse, Login, ReadAttempts, CheckOtp, ChangePassword, UpdateMyProfile,
           UpdateUserStatus, ForgotPassword, ResendVerification, CommitLogout, Admitted, Is
  <1>3. QED
    BY <1>1, <1>2, QuietStep

LEMMA GoingOnServes ==
  ASSUME IInv, RowsCurrent, NEW a \in Actors, Renew(a) \/ SpendCode(a) \/ Blacklist(a)
  PROVE  Served1(a) /\ user' = user
  <1>1. Types /\ call[a] \in Call /\ user' = user /\ jar \in Nat /\ Rows \in SUBSET Ids
    BY DEF IInv, Types, Renew, SpendCode, Blacklist, Rows
  <1>2. CASE Renew(a) /\ ~Answer(a)
    <2> DEFINE r == [call[a] EXCEPT !.step = "rotate", !.tok = jar, !.late = FALSE]
    <2>1. /\ r \in Call /\ r.step = "rotate" /\ r.kind = call[a].kind /\ r.pw = call[a].pw
          /\ r.row = call[a].row
      BY <1>1 DEF Call, Steps
    <2>2. Goto(a, r) /\ call[a].step = "renew"
      BY <1>2 DEF Renew
    <2> HIDE DEF r
    <2>3. QED
      BY <1>1, <2>1, <2>2, GoOnStep
  <1>3. CASE SpendCode(a)
    <2> DEFINE seen == IF call[a].kind = "reset" THEN Rows ELSE {}
               r == [call[a] EXCEPT !.step = "commit", !.seen = seen]
    <2>1. seen \in SUBSET Ids /\ Goto(a, r)
      BY <1>1, <1>3 DEF SpendCode
    <2> HIDE DEF seen
    <2>2. /\ r \in Call /\ r.step = "commit" /\ r.kind = call[a].kind /\ r.pw = call[a].pw
          /\ r.row = call[a].row /\ r.late = call[a].late
      BY <1>1, <2>1 DEF Call, Steps
    <2> HIDE DEF r
    <2>3. QED
      BY <1>1, <2>1, <2>2, GoOnStep
  <1>4. CASE Blacklist(a)
    <2> DEFINE r == [call[a] EXCEPT !.step = "commit", !.seen = Rows]
    <2>1. /\ r \in Call /\ r.step = "commit" /\ r.kind = call[a].kind /\ r.pw = call[a].pw
          /\ r.row = call[a].row /\ r.late = call[a].late
      BY <1>1 DEF Call, Steps
    <2>2. Goto(a, r)
      BY <1>4 DEF Blacklist
    <2> HIDE DEF r
    <2>3. QED
      BY <1>1, <2>1, <2>2, GoOnStep
  <1>5. QED
    BY <1>1, <1>2, <1>3, <1>4, QuietStep

\* The others when the account is written, and when a token is exchanged.
LEMMA AsideLate ==
  ASSUME IInv, NEW b \in Actors,
         call'[b] = IF call[b].row # <<>> THEN [call[b] EXCEPT !.late = TRUE] ELSE call[b]
  PROVE  Aside(b)
  <1> DEFINE r == [call[b] EXCEPT !.late = TRUE]
  <1>1. call[b] \in Call
    BY DEF IInv, Types
  <1>2. /\ r.step = call[b].step /\ r.kind = call[b].kind /\ r.pw = call[b].pw
        /\ r.row = call[b].row /\ r.late
    BY <1>1 DEF Call
  <1>3. QED
    BY <1>2 DEF Aside

LEMMA WriteServes ==
  ASSUME IInv, RowsCurrent, NEW a \in Actors, WriteUser(a, New(a), NoCall),
         call[a].step = "commit", call[a].kind \in Kinds \ {"logout", "resend", "forgot"}
  PROVE  Served1(a)
  <1>1. call'[a] = NoCall /\ user' = New(a)
    BY DEF WriteUser
  <1>2. \A b \in Actors \ {a} : Aside(b)
    BY AsideLate DEF WriteUser
  <1>3. QED
    BY <1>1, <1>2, NoCallType DEF Served1, Wrote

LEMMA CommitServes ==
  ASSUME IInv, RowsCurrent, NEW a \in Actors,
         \/ Commit(a) \/ CommitReset(a)
         \/ \E arrives \in BOOLEAN : CommitLogin(a, arrives)
  PROVE  Served1(a)
  <1>1. /\ call[a].step = "commit" /\ call[a].kind \in Kinds \ {"logout", "resend", "forgot"}
        /\ WriteUser(a, New(a), NoCall) \/ (Answer(a) /\ user' = user)
    BY DEF Commit, CommitReset, CommitLogin, Is, Kinds, Admins
  <1>2. QED
    BY <1>1, WriteServes, QuietStep

LEMMA RecordServes ==
  ASSUME IInv, RowsCurrent, NEW a \in Actors, RecordFailedAttempt(a)
  PROVE  Served1(a)
  <1> DEFINE r == [call[a] EXCEPT !.step = "renew", !.row = <<>>]
  <1>1. call[a] \in Call /\ call[a].step = "count"
    BY DEF IInv, Types, RecordFailedAttempt, Is
  <1>2. r.step = "renew" /\ r.kind = call[a].kind /\ r.pw = call[a].pw /\ r.row = <<>>
    BY <1>1 DEF Call
  <1>3. user' = Recorded(call[a].row) /\ (call'[a] = r \/ call'[a] = NoCall)
    BY DEF RecordFailedAttempt
  <1> HIDE DEF r
  <1>4. \A b \in Actors \ {a} : Aside(b)
    BY AsideLate DEF RecordFailedAttempt
  <1>5. QED
    BY <1>1, <1>2, <1>3, <1>4, NoCallType DEF Served1, Held, Wrote

LEMMA RotateServes ==
  ASSUME IInv, RowsCurrent, NEW a \in Actors, NEW arrives \in BOOLEAN, Rotate(a, arrives)
  PROVE  Served1(a) /\ user' = user
  <1>1. call[a] \in Call /\ call[a].step = "rotate" /\ user' = user
    BY DEF IInv, Types, Rotate
  <1>2. call[a].row = <<>>
    BY <1>1 DEF RowsCurrent
  <1>3. \A b \in Actors \ {a} : Aside(b)
    BY <1>1, RotateOthers DEF Aside
  <1>4. CASE ~Answer(a)
    <2> DEFINE n == Next1
               fs == With(call[a].found, call[a].tok)
               r == [call[a] EXCEPT !.step = "sent", !.retry = FALSE, !.tok = n, !.late = FALSE,
                                    !.found = fs]
    <2>1. call'[a] = r \/ call'[a] = NoCall
      BY <1>4 DEF Rotate
    <2> HIDE DEF n, fs
    <2>2. r.step = "sent" /\ r.kind = call[a].kind /\ r.pw = call[a].pw /\ r.row = call[a].row
      BY <1>1 DEF Call
    <2> HIDE DEF r
    <2>3. QED
      BY <1>1, <1>2, <1>3, <2>1, <2>2 DEF Served1, Held
  <1>5. QED
    BY <1>1, <1>4, QuietStep

LEMMA ServeServes ==
  ASSUME IInv, RowsCurrent, NEW a \in Actors, Serve(a)
  PROVE  Served1(a)
  <1>1. CASE \/ Refuse(a) \/ Login(a) \/ ReadAttempts(a) \/ CheckOtp(a) \/ ChangePassword(a)
             \/ UpdateMyProfile(a) \/ UpdateUserStatus(a) \/ ForgotPassword(a)
             \/ ResendVerification(a) \/ CommitLogout(a)
    BY <1>1, QuietServes
  <1>2. CASE Renew(a) \/ SpendCode(a) \/ Blacklist(a)
    BY <1>2, GoingOnServes
  <1>3. CASE \/ Commit(a) \/ CommitReset(a)
             \/ \E arrives \in BOOLEAN : CommitLogin(a, arrives)
    BY <1>3, CommitServes
  <1>4. CASE RecordFailedAttempt(a) \/ \E arrives \in BOOLEAN : Rotate(a, arrives)
    BY <1>4, RecordServes, RotateServes
  <1>5. QED
    BY <1>1, <1>2, <1>3, <1>4 DEF Serve

\* The instant at which a lock ends passes for the account and for the rows alike.
LEMMA LockEndsRows ==
  ASSUME IInv, RowsCurrent, LockEnds
  PROVE  /\ user'.verified = user.verified /\ user'.password = user.password
         /\ user'.status = user.status
         /\ \A b \in Actors :
              /\ call'[b].step = call[b].step /\ call'[b].kind = call[b].kind
              /\ call'[b].pw = call[b].pw /\ call'[b].late = call[b].late
              /\ call'[b].row # <<>> =>
                   /\ call[b].row # <<>>
                   /\ call'[b].row.verified = call[b].row.verified
                   /\ call'[b].row.status = call[b].row.status
                   /\ ~call[b].late => call'[b].row = user'
  <1>1. user \in AccountRow /\ user' = [user EXCEPT !.locked = "before"]
    BY DEF IInv, Types, LockEnds
  <1>2. user'.verified = user.verified /\ user'.password = user.password
          /\ user'.status = user.status
    BY <1>1 DEF AccountRow
  <1>3. SUFFICES ASSUME NEW b \in Actors
                 PROVE  /\ call'[b].step = call[b].step /\ call'[b].kind = call[b].kind
                        /\ call'[b].pw = call[b].pw /\ call'[b].late = call[b].late
                        /\ call'[b].row # <<>> =>
                             /\ call[b].row # <<>>
                             /\ call'[b].row.verified = call[b].row.verified
                             /\ call'[b].row.status = call[b].row.status
                             /\ ~call[b].late => call'[b].row = user'
    BY <1>2
  <1>4. call[b] \in Call
    BY <1>3 DEF IInv, Types
  <1>5. CASE call[b].row = <<>>
    <2>1. call'[b] = call[b]
      BY <1>3, <1>5 DEF LockEnds
    <2>2. QED
      BY <1>5, <2>1
  <1>6. CASE call[b].row # <<>>
    <2> DEFINE was == call[b].row
               locked == IF was.locked = "now" THEN "before" ELSE was.locked
               row == [was EXCEPT !.locked = locked]
               r == [call[b] EXCEPT !.row = row]
    <2>1. was \in AccountRow
      BY <1>4, <1>6 DEF Call
    <2>2. call'[b] = r
      BY <1>3, <1>6 DEF LockEnds
    <2>3. row.verified = was.verified /\ row.status = was.status
      BY <2>1 DEF AccountRow
    <2>4. was = user => row = user'
      BY <1>1 DEF LockEnds
    <2> HIDE DEF row
    <2>5. /\ r.step = call[b].step /\ r.kind = call[b].kind /\ r.pw = call[b].pw
          /\ r.late = call[b].late /\ r.row = row
      BY <1>4 DEF Call
    <2>6. ~call[b].late => was = user
      BY <1>3, <1>6 DEF RowsCurrent
    <2> HIDE DEF r, was
    <2>7. QED
      BY <1>6, <2>2, <2>3, <2>4, <2>5, <2>6 DEF was
  <1>7. QED
    BY <1>5, <1>6

\* A new request has read nothing.
LEMMA AskFacts ==
  ASSUME IInv, NEW a \in Actors, NEW kind \in Kinds, AskFor(a, kind)
  PROVE  /\ call[a].step = "idle" /\ UNCHANGED user
         /\ call'[a].step = "sent" /\ call'[a].kind = kind /\ call'[a].row = <<>>
         /\ call'[a].pw \in Passwords(kind)
         /\ \A b \in Actors \ {a} : call'[b] = call[b]
  <1>1. Types
    BY DEF IInv
  <1>2. PICK pw \in Passwords(kind), n \in Codes(kind) :
          Goto(a, [NoCall EXCEPT !.step = "sent", !.kind = kind, !.pw = pw, !.n = n, !.tok = jar,
                                 !.found = IF kind \in {"logout", "reset"} THEN Rows ELSE {}])
    BY DEF AskFor
  <1> DEFINE found == IF kind \in {"logout", "reset"} THEN Rows ELSE {}
             r == [NoCall EXCEPT !.step = "sent", !.kind = kind, !.pw = pw, !.n = n, !.tok = jar,
                                 !.found = found]
  <1>3. r.step = "sent" /\ r.kind = kind /\ r.row = <<>> /\ r.pw = pw
    BY DEF NoCall
  <1>4. Goto(a, r)
    BY <1>2
  <1> HIDE DEF found, r
  <1>5. call'[a] = r /\ \A b \in Actors \ {a} : call'[b] = call[b]
    BY <1>1, <1>4 DEF Goto, Types
  <1>6. QED
    BY <1>2, <1>3, <1>5 DEF AskFor, Is

LEMMA RowsStay ==
  ASSUME IInv, RowsCurrent, Next
  PROVE  RowsCurrent'
  <1>1. CASE \E a \in Actors : Ask(a)
    <2>1. PICK a \in Actors, kind \in Asked : AskFor(a, kind)
      BY <1>1 DEF Ask
    <2>2. kind \in Kinds
      BY AccountsAssumption
    <2>3. QED
      BY <2>1, <2>2, AskFacts DEF RowsCurrent
  <1>2. CASE \E a \in Actors : Serve(a)
    <2>1. PICK a \in Actors : Serve(a)
      BY <1>2
    <2>2. Served1(a)
      BY <2>1, ServeServes
    <2>3. \A b \in Actors \ {a} : Aside(b)
      BY <2>2 DEF Served1
    <2>4. call'[a] = NoCall \/ Held(a)
      BY <2>2 DEF Served1
    <2>5. NoCall.row = <<>>
      BY DEF NoCall
    <2>6. call'[a].row # <<>> =>
            /\ call'[a].step \in {"count", "spend", "commit"}
            /\ ~call'[a].late => call'[a].row = user'
      BY <2>4, <2>5 DEF Held, RowsCurrent
    <2>7. \A b \in Actors \ {a} : call[b].late \in BOOLEAN
      BY DEF IInv, Types, Call
    <2>8. \A b \in Actors \ {a} : call'[b].row # <<>> =>
            /\ call'[b].step \in {"count", "spend", "commit"}
            /\ ~call'[b].late => call'[b].row = user'
      BY <2>3, <2>7 DEF Aside, RowsCurrent
    <2>9. QED
      BY <2>6, <2>8 DEF RowsCurrent
  <1>3. CASE AccessExpires \/ CodeExpires \/ MinutePasses
    BY <1>3 DEF AccessExpires, CodeExpires, MinutePasses, RowsCurrent
  <1>4. CASE LockEnds
    BY <1>4, LockEndsRows DEF RowsCurrent
  <1>5. QED
    BY <1>1, <1>2, <1>3, <1>4 DEF Next

\* A row that is written is the one that was read, but for what its request is about.
LEMMA NewFacts ==
  ASSUME IInv, NEW a \in Actors, call[a].step = "commit",
         call[a].kind \in Kinds \ {"logout", "resend", "forgot"}
  PROVE  LET row == call[a].row IN
         /\ row \in AccountRow
         /\ New(a).verified = IF call[a].kind = "verify" THEN TRUE ELSE row.verified
         /\ New(a).password = CASE call[a].kind = "reset"  -> call[a].pw
                                [] call[a].kind = "change" -> Other(call[a].pw)
                                [] OTHER                   -> row.password
         /\ New(a).status = CASE call[a].kind \in {"verify", "activate"} -> "ACTIVE"
                              [] call[a].kind = "suspend" -> "SUSPENDED"
                              [] OTHER                    -> row.status
         /\ Other(call[a].pw) # call[a].pw
  <1> DEFINE row == call[a].row
  <1>1. row \in AccountRow /\ call[a].pw \in Password
    BY DEF IInv, Types, RowsRead, Call
  <1>2. Other(call[a].pw) # call[a].pw
    BY <1>1 DEF Other, Password
  <1> DEFINE pw == call[a].pw
             other == Other(pw)
  <1>3. CASE call[a].kind = "login"
    BY <1>1, <1>2, <1>3 DEF New, AccountRow
  <1>4. CASE call[a].kind \in {"verify", "reset"}
    BY <1>1, <1>2, <1>4 DEF New, AccountRow
  <1>5. CASE call[a].kind = "change"
    BY <1>1, <1>2, <1>5 DEF New, AccountRow
  <1>6. CASE call[a].kind \in {"profile", "suspend", "activate"}
    BY <1>1, <1>2, <1>6 DEF New, AccountRow
  <1>7. QED
    BY <1>3, <1>4, <1>5, <1>6 DEF Kinds

\* A request in time writes the account it read: no other's address, password or status
\* comes back with it.
LEMMA FreshWrite ==
  ASSUME IInv, RowsCurrent, NEW a \in Actors, Serve(a), ~WritesLate, user' # user
  PROVE  \/ /\ call[a].step = "commit" /\ user' = New(a) /\ call[a].row = user
            /\ call[a].kind \in Kinds \ {"logout", "resend", "forgot"}
         \/ /\ user'.verified = user.verified /\ user'.password = user.password
            /\ user'.status = user.status
  <1>1. Wrote(a)
    BY ServeServes DEF Served1
  <1>2. call[a].late \in BOOLEAN /\ call'[a] # call[a]
    BY <1>1 DEF IInv, Types, Call, Wrote
  <1>3. ~call[a].late
    BY <1>2 DEF WritesLate
  <1>4. call[a].row \in AccountRow
    BY <1>1 DEF Wrote, IInv, Types, RowsRead
  <1>5. call[a].row = user
    <2>1. DOMAIN call[a].row = {"status", "verified", "password", "failed", "locked"}
      BY <1>4 DEF AccountRow
    <2>2. DOMAIN <<>> = {}
      OBVIOUS
    <2>3. call[a].row # <<>>
      BY <2>1, <2>2
    <2>4. QED
      BY <1>3, <2>3 DEF RowsCurrent
  <1>6. CASE call[a].step = "count" /\ user' = Recorded(call[a].row)
    <2>1. /\ Recorded(user).verified = user.verified /\ Recorded(user).password = user.password
          /\ Recorded(user).status = user.status
      BY <1>4, <1>5 DEF Recorded, AccountRow
    <2>2. QED
      BY <1>5, <1>6, <2>1
  <1>7. QED
    BY <1>1, <1>5, <1>6 DEF Wrote

-----------------------------------------------------------------------------
(* What the pages know *)

PagesInv == IInv /\ RowsCurrent /\ TabInv /\ ConsoleInv

\* What a page knows stays so while the account and the requests it knows of do.
LEMMA TabFrame ==
  ASSUME TabInv, page' = page, over' \in [page : BOOLEAN, console : BOOLEAN],
         \A t \in page.by : /\ call'[t].step = call[t].step /\ call'[t].kind = call[t].kind
                            /\ call'[t].pw = call[t].pw,
         ~over'.page =>
           /\ ~over.page
           /\ user'.verified = user.verified /\ user'.password = user.password
           /\ \A t \in page.by : call'[t].row # <<>> =>
                /\ call[t].row # <<>> /\ call'[t].row.verified = call[t].row.verified
  PROVE  TabInv'
  <1>1. /\ (page.by # {} => page.told = "nothing")'
        /\ (page.answer # "none" => page.by # {})'
        /\ (page.by = {} \/ \E t \in Tabs : page.by = {t})'
        /\ (page \in Page)'
    BY DEF TabInv
  <1>2. (\A t \in page.by :
          /\ page.kind \in Kinds \ Admins /\ (page.kind = "reset" => page.pw = "new")
          /\ page.answer = "none" =>
               /\ call[t].step # "idle" /\ call[t].kind = page.kind /\ call[t].pw = page.pw
               /\ ~over.page /\ call[t].row # <<>> => call[t].row.verified = user.verified
          /\ page.answer # "none" => call[t].step = "idle")'
    BY DEF TabInv
  <1>3. (~over.page /\ page.answer = "ok" => Done(page.kind, page.pw))'
    BY DEF TabInv, Done
  <1>4. Promise' = Promise
    BY DEF Promise
  <1>5. (~over.page => Done(Promise, page.pw))'
    BY <1>4 DEF TabInv, Done
  <1>6. QED
    BY <1>1, <1>2, <1>3, <1>5 DEF TabInv

LEMMA ConsoleFrame ==
  ASSUME ConsoleInv, UNCHANGED <<console, desk>>,
         desk = "requests" => page'.by = {} /\ page'.told = "nothing",
         desk = "pages" => call'[Admin].step = call[Admin].step
                           /\ call'[Admin].kind = call[Admin].kind,
         desk \in {"requests", "pages"},
         desk = "pages" /\ ~over'.console =>
           /\ ~over.console /\ user'.status = user.status
           /\ call'[Admin].row # <<>> =>
                call[Admin].row # <<>> /\ call'[Admin].row.status = call[Admin].row.status
  PROVE  ConsoleInv'
  <1>1. CASE desk = "requests"
    BY <1>1 DEF ConsoleInv
  <1>2. CASE desk = "pages"
    <2>1. (console = <<>> \/ console \in [status : {"PENDING_VERIFICATION", "ACTIVE", "SUSPENDED"},
                                          busy : BOOLEAN,
                                          told : {"nothing", "suspended", "activated"}])'
      BY DEF ConsoleInv
    <2>2. (desk = "pages" /\ (console # <<>> => ~console.busy) => call[Admin].step = "idle")'
      BY <1>2 DEF ConsoleInv
    <2>3. (console # <<>> /\ console.busy =>
             /\ console.told = "nothing"
             /\ call[Admin].kind \in Admins
             /\ call[Admin].step \in {"sent", "commit"}
             /\ ~over.console /\ call[Admin].row # <<>> => call[Admin].row.status = user.status)'
      BY <1>2 DEF ConsoleInv
    <2>4. (console # <<>> /\ ~over.console =>
             CASE console.told = "suspended" -> user.status = "SUSPENDED"
               [] console.told = "activated" -> user.status = "ACTIVE"
               [] OTHER                      -> TRUE)'
      BY <1>2 DEF ConsoleInv
    <2>5. QED
      BY <1>2, <2>1, <2>2, <2>3, <2>4 DEF ConsoleInv
  <1>3. QED
    BY <1>1, <1>2

\* A page sends a request.
LEMMA SubmitTold ==
  ASSUME PagesInv, desk = "pages", NEW t \in Tabs, NEW kind \in Kinds \ Admins, Submit(t, kind)
  PROVE  TabInv' /\ ConsoleInv'
  <1>1. t \in Actors /\ t # Admin /\ IInv /\ TabInv /\ ConsoleInv
    BY AccountsAssumption DEF Actors, PagesInv
  <1>2. /\ call[t].step = "idle" /\ UNCHANGED user
        /\ call'[t].step = "sent" /\ call'[t].kind = kind /\ call'[t].row = <<>>
        /\ call'[t].pw \in Passwords(kind)
        /\ \A b \in Actors \ {t} : call'[b] = call[b]
    BY <1>1, AskFacts DEF Submit
  <1> DEFINE pw == call'[t].pw
  <1>3. pw \in Password /\ (kind = "reset" => pw = "new")
    BY <1>2 DEF Passwords, Password
  <1>4. page' = [page EXCEPT !.by = {t}, !.kind = kind, !.told = "nothing", !.pw = pw]
    BY DEF Submit
  <1>5. over' = [over EXCEPT !.page = FALSE] /\ UNCHANGED <<desk, console>>
    BY DEF Submit
  <1>6. over' \in [page : BOOLEAN, console : BOOLEAN] /\ over'.console = over.console
    BY <1>1, <1>5 DEF TabInv
  <1>7. page.answer = "none" /\ page \in Page
    <2>1. page.by = {}
      BY DEF Submit
    <2>2. QED
      BY <1>1, <2>1 DEF TabInv
  <1> HIDE DEF pw
  <1>8. /\ page' \in Page /\ page'.by = {t} /\ page'.kind = kind /\ page'.told = "nothing"
        /\ page'.pw = pw /\ page'.answer = "none"
    BY <1>3, <1>4, <1>7 DEF Page
  <1>9. Promise' = "none"
    BY <1>8 DEF Promise
  <1>10. TabInv'
    BY <1>2, <1>3, <1>6, <1>8, <1>9 DEF TabInv, Done, pw
  <1>11. ConsoleInv'
    <2>1. call'[Admin] = call[Admin]
      BY <1>1, <1>2 DEF Actors
    <2>2. QED
      BY <1>1, <1>2, <1>5, <1>6, <2>1, ConsoleFrame
  <1>12. QED
    BY <1>10, <1>11

-----------------------------------------------------------------------------
(* The service answers *)

LEMMA RowIsThere ==
  ASSUME NEW r \in AccountRow
  PROVE  r # <<>>
  <1>1. DOMAIN r = {"status", "verified", "password", "failed", "locked"}
    BY DEF AccountRow
  <1>2. DOMAIN <<>> = {}
    OBVIOUS
  <1>3. QED
    BY <1>1, <1>2

LEMMA ServesRequest ==
  ASSUME NEW a \in Actors, Serve(a)
  PROVE  call[a].step # "idle"
  BY DEF Serve, Refuse, Renew, Rotate, Login, ReadAttempts, RecordFailedAttempt, CheckOtp,
     SpendCode, CommitReset, ForgotPassword, ResendVerification, ChangePassword,
     UpdateMyProfile, UpdateUserStatus, Commit, CommitLogin, CommitLogout, Blacklist,
     Admitted, Is

\* A request that commits leaves the row it wrote, or found it so.
LEMMA CommitsRow ==
  ASSUME IInv, NEW a \in Actors, Serve(a), call[a].step = "commit",
         call[a].kind \in {"verify", "change", "reset"} \cup Admins,
         call[a].kind = "reset" => RowsThere(call[a].seen)
  PROVE  /\ call'[a].step = "idle"
         /\ \/ user' = New(a)
            \/ user' = user /\ New(a) = call[a].row /\ call[a].kind \in {"verify"} \cup Admins
  <1>1. Types
    BY DEF IInv
  <1>2. Commit(a) \/ CommitReset(a)
    BY DEF Serve, Refuse, Renew, Rotate, Login, ReadAttempts, RecordFailedAttempt, CheckOtp,
       SpendCode, ForgotPassword, ResendVerification, ChangePassword, UpdateMyProfile,
       UpdateUserStatus, CommitLogin, CommitLogout, Blacklist, Admitted, Is, Admins
  <1>3. WriteUser(a, New(a), NoCall) \/ (Answer(a) /\ user' = user /\ ~Dirty(a, New(a)))
    BY <1>2 DEF Commit, CommitReset, Is, Admins
  <1>4. CASE WriteUser(a, New(a), NoCall)
    BY <1>4, NoCallType DEF WriteUser
  <1>5. CASE Answer(a) /\ user' = user /\ ~Dirty(a, New(a))
    BY <1>1, <1>5, AnswerFacts, NoCallType DEF Dirty, Admins
  <1>6. QED
    BY <1>3, <1>4, <1>5

\* What the page's request does to the account is what the page takes it to have done.
LEMMA SucceedsAsTold ==
  ASSUME PagesInv, NEW t \in Tabs, t \in page.by, page.answer = "none",
         Serve(t), call'[t].step = "idle", Succeeds(t), ~over.page
  PROVE  CASE page.kind = "verify" -> user'.verified
           [] page.kind = "reset"  -> user'.password = "new"
           [] page.kind = "change" -> user'.password # page.pw
           [] OTHER                -> TRUE
  <1>1. t \in Actors /\ IInv /\ TabInv
    BY DEF Actors, PagesInv
  <1>2. /\ call[t].kind = page.kind /\ call[t].pw = page.pw
        /\ page.kind \in Kinds \ Admins /\ (page.kind = "reset" => page.pw = "new")
        /\ call[t].row # <<>> => call[t].row.verified = user.verified
    BY <1>1 DEF TabInv
  <1>3. SUFFICES ASSUME page.kind \in {"verify", "reset", "change"}
                 PROVE  CASE page.kind = "verify" -> user'.verified
                          [] page.kind = "reset"  -> user'.password = "new"
                          [] page.kind = "change" -> user'.password # page.pw
    OBVIOUS
  <1>4. call[t].step = "commit" /\ (call[t].kind = "reset" => RowsThere(call[t].seen))
    BY <1>2, <1>3 DEF Succeeds
  <1>5. \/ user' = New(t)
        \/ user' = user /\ New(t) = call[t].row /\ call[t].kind = "verify"
    BY <1>1, <1>2, <1>3, <1>4, CommitsRow DEF Admins
  <1>6. /\ call[t].row # <<>>
        /\ call[t].kind = "verify" => New(t).verified = TRUE
        /\ call[t].kind = "reset" => New(t).password = call[t].pw
        /\ call[t].kind = "change" => New(t).password # call[t].pw
    <2>1. call[t].kind \in Kinds \ {"logout", "resend", "forgot"}
      BY <1>2, <1>3
    <2>2. QED
      BY <1>1, <1>4, <2>1, NewFacts, RowIsThere
  <1>7. QED
    BY <1>2, <1>3, <1>5, <1>6

LEMMA ServedTold ==
  ASSUME PagesInv, NEW t \in Tabs, Served(t)
  PROVE  TabInv' /\ ConsoleInv'
  <1>1. /\ t \in Actors /\ t # Admin /\ Admin \in Actors
        /\ IInv /\ RowsCurrent /\ TabInv /\ ConsoleInv
    BY AccountsAssumption DEF Actors, PagesInv
  <1>2. desk = "pages" /\ Serve(t) /\ UNCHANGED <<desk, console>>
    BY DEF Served
  <1>3. Served1(t) /\ call[t].step # "idle"
    BY <1>1, <1>2, ServeServes, ServesRequest
  <1>4. \A b \in Actors \ {t} : Aside(b)
    BY <1>3 DEF Served1
  <1>5. over' = [page    |-> over.page \/ WritesLate \/ (t \notin page.by /\ user' # user),
                 console |-> over.console \/ WritesLate \/ user'.status # user.status]
    BY DEF Served
  <1>6. over' \in [page : BOOLEAN, console : BOOLEAN]
    <2> DEFINE p == over.page \/ WritesLate \/ (t \notin page.by /\ user' # user)
               c == over.console \/ WritesLate \/ user'.status # user.status
    <2>1. p \in BOOLEAN /\ c \in BOOLEAN
      OBVIOUS
    <2>2. over' = [page |-> p, console |-> c]
      BY <1>5
    <2> HIDE DEF p, c
    <2>3. QED
      BY <2>1, <2>2
  <1>7. /\ ~over'.page => /\ ~over.page /\ ~WritesLate /\ (t \notin page.by => user' = user)
        /\ ~over'.console => ~over.console /\ user'.status = user.status
    BY <1>5
  <1>8. ConsoleInv'
    <2>1. Aside(Admin)
      BY <1>1, <1>4
    <2>2. QED
      BY <1>1, <1>2, <1>7, <2>1, ConsoleFrame DEF Aside
  <1>9. CASE t \notin page.by
    <2>1. page' = page
      BY <1>9 DEF Served
    <2>2. \A b \in page.by : Aside(b)
      BY <1>1, <1>4, <1>9 DEF TabInv, Actors
    <2>3. QED
      BY <1>1, <1>6, <1>7, <1>8, <1>9, <2>1, <2>2, TabFrame DEF Aside
  <1>10. CASE t \in page.by
    <2>1. page.by = {t} /\ page.answer = "none" /\ page.told = "nothing" /\ page \in Page
      BY <1>1, <1>3, <1>10 DEF TabInv
    <2>2. CASE call'[t].step # "idle"
      <3>1. page' = page
        BY <2>2 DEF Served
      <3>2. Held(t)
        BY <1>3, <2>2, NoCallType DEF Served1
      <3>3. ~WritesLate /\ user' # user =>
              /\ user'.verified = user.verified /\ user'.password = user.password
              /\ call'[t].row = <<>> \/ call'[t].row = user'
        <4>1. Wrote(t) \/ user' = user
          BY <1>3 DEF Served1
        <4>2. QED
          BY <1>1, <1>2, <2>2, <3>2, <4>1, FreshWrite, NoCallType DEF Wrote, Held
      <3>4. ASSUME ~over'.page, call'[t].row # <<>>
            PROVE  call'[t].row.verified = user'.verified
        <4>1. CASE call'[t].row = user'
          BY <4>1
        <4>2. CASE call'[t].row = call[t].row /\ user' = user
          BY <1>1, <1>7, <1>10, <2>1, <3>4, <4>2 DEF TabInv
        <4>3. QED
          BY <3>2, <3>4, <4>1, <4>2 DEF Held
      <3>5. ~over'.page => /\ user'.verified = user.verified /\ user'.password = user.password
        BY <1>7, <3>3
      <3>6. Promise' = Promise
        BY <3>1 DEF Promise
      <3>7. (~over.page => Done(Promise, page.pw))'
        BY <1>1, <1>7, <3>1, <3>5, <3>6 DEF TabInv, Done
      <3>8. (\A b \in page.by :
              /\ page.kind \in Kinds \ Admins /\ (page.kind = "reset" => page.pw = "new")
              /\ page.answer = "none" =>
                   /\ call[b].step # "idle" /\ call[b].kind = page.kind /\ call[b].pw = page.pw
                   /\ ~over.page /\ call[b].row # <<>> => call[b].row.verified = user.verified
              /\ page.answer # "none" => call[b].step = "idle")'
        BY <1>1, <2>1, <3>1, <3>2, <3>4 DEF TabInv, Held
      <3>9. QED
        BY <1>1, <1>6, <1>8, <2>1, <3>1, <3>7, <3>8 DEF TabInv
    <2>3. CASE call'[t].step = "idle"
      <3> DEFINE answer == IF Succeeds(t) THEN "ok" ELSE "error"
      <3>1. page' = [page EXCEPT !.answer = answer]
        BY <1>10, <2>3 DEF Served
      <3>2. answer \in {"ok", "error"} /\ (answer = "ok" => Succeeds(t))
        OBVIOUS
      <3> HIDE DEF answer
      <3>3. /\ page' \in Page /\ page'.answer = answer /\ page'.by = {t}
            /\ page'.kind = page.kind /\ page'.pw = page.pw /\ page'.told = "nothing"
        BY <2>1, <3>1, <3>2 DEF Page
      <3>4. ~over'.page /\ answer = "ok" => Done(page.kind, page.pw)'
        BY <1>2, <1>7, <1>10, <2>1, <2>3, <3>2, <3>3, SucceedsAsTold DEF Done
      <3>5. Promise' = "none"
        BY <3>3 DEF Promise
      <3>6. (~over.page => Done(Promise, page.pw))'
        BY <3>5 DEF Done
      <3>7. page.kind \in Kinds \ Admins /\ (page.kind = "reset" => page.pw = "new")
        BY <1>1, <1>10 DEF TabInv
      <3>8. QED
        BY <1>6, <1>8, <2>3, <3>2, <3>3, <3>4, <3>6, <3>7 DEF TabInv
    <2>4. QED
      BY <2>2, <2>3
  <1>11. QED
    BY <1>8, <1>9, <1>10

\* The page takes note of the answer.
LEMMA AnsweredTold ==
  ASSUME PagesInv, Answered
  PROVE  TabInv' /\ ConsoleInv'
  <1>1. TabInv /\ ConsoleInv /\ desk = "pages" /\ UNCHANGED <<vars, desk, console, over>>
    BY DEF PagesInv, Answered
  <1>2. UNCHANGED <<user, call>>
    BY <1>1 DEF vars
  <1>3. /\ page \in Page /\ page.by # {} /\ page.answer # "none" /\ page.told = "nothing"
        /\ page.kind \in Kinds \ Admins
        /\ ~over.page /\ page.answer = "ok" => Done(page.kind, page.pw)
    BY <1>1 DEF TabInv, Answered
  <1>4. \A p \in Places :
          /\ Then(p) \in Page /\ Then(p).by = {} /\ Then(p).answer = "none"
          /\ Then(p).told = "nothing" /\ Then(p).pw = page.pw
    BY <1>3 DEF Then, Page
  <1>5. \A p \in Places, w \in {"out", "in"} :
          LET r == [Then(p) EXCEPT !.who = w] IN
          /\ r \in Page /\ r.by = {} /\ r.answer = "none" /\ r.told = "nothing" /\ r.pw = page.pw
    BY <1>4 DEF Page
  <1>6. \A p \in Places, w \in {"verified", "reset", "changed"} :
          LET r == [Then(p) EXCEPT !.told = w] IN
          /\ r \in Page /\ r.by = {} /\ r.answer = "none" /\ r.told = w /\ r.pw = page.pw
    BY <1>4 DEF Page
  <1>7. \A p \in Places :
          LET r == [Then(p) EXCEPT !.cooling = TRUE] IN
          /\ r \in Page /\ r.by = {} /\ r.answer = "none" /\ r.told = "nothing" /\ r.pw = page.pw
    BY <1>4 DEF Page
  <1>8. /\ {"home", "login", "verify", "reset", "profile"} \subseteq Places
        /\ RefreshUser \in {"out", "in"} /\ page.at \in Places
    BY <1>3 DEF Places, RefreshUser, Page
  <1>9. /\ page' \in Page /\ page'.by = {} /\ page'.answer = "none" /\ page'.pw = page.pw
        /\ \/ page'.told = "nothing"
           \/ page.kind = "verify" /\ page.answer = "ok" /\ page'.told = "verified"
           \/ page.kind = "reset" /\ page.answer = "ok" /\ page'.told = "reset"
           \/ page.kind = "change" /\ page.answer = "ok" /\ page'.told = "changed"
    <2>1. CASE page.kind = "logout"
      BY <1>5, <1>8, <2>1 DEF Answered
    <2>2. CASE page.kind # "logout" /\ page.answer = "error"
      BY <1>4, <1>8, <2>2 DEF Answered
    <2>3. CASE page.kind # "logout" /\ page.answer # "error"
      <3>1. page.answer = "ok"
        BY <1>3, <2>3 DEF Page
      <3>2. CASE page.kind \in {"login", "profile"}
        BY <1>5, <1>8, <2>3, <3>2 DEF Answered
      <3>3. CASE page.kind \in {"verify", "reset", "change"}
        BY <1>6, <1>8, <2>3, <3>1, <3>3 DEF Answered
      <3>4. CASE page.kind = "resend"
        BY <1>7, <1>8, <2>3, <3>4 DEF Answered
      <3>5. CASE page.kind = "forgot"
        BY <1>4, <1>8, <2>3, <3>5 DEF Answered
      <3>6. QED
        BY <1>3, <2>3, <3>2, <3>3, <3>4, <3>5 DEF Kinds, Admins
    <2>4. QED
      BY <2>1, <2>2, <2>3
  <1>10. (~over.page => Done(Promise, page.pw))'
    BY <1>1, <1>2, <1>3, <1>9 DEF Promise, Done
  <1>11. TabInv'
    BY <1>1, <1>9, <1>10 DEF TabInv
  <1>12. ConsoleInv'
    BY <1>1, <1>2, <1>9, ConsoleFrame DEF ConsoleInv
  <1>13. QED
    BY <1>11, <1>12

LEMMA VisitTold ==
  ASSUME PagesInv, NEW p \in Places, NEW reloads \in BOOLEAN, Visit(p, reloads)
  PROVE  TabInv' /\ ConsoleInv'
  <1>1. TabInv /\ ConsoleInv /\ desk = "pages" /\ UNCHANGED <<vars, desk, console, over>>
    BY DEF PagesInv, Visit
  <1>2. UNCHANGED <<user, call>> /\ page \in Page
    BY <1>1 DEF vars, TabInv
  <1> DEFINE at == Redirected(p)
             who == IF reloads THEN RefreshUser ELSE page.who
             told == IF reloads THEN "nothing" ELSE page.told
  <1>3. at \in Places /\ who \in {"out", "in"} /\ told \in {"nothing", page.told}
    BY <1>2 DEF Redirected, RefreshUser, Page, Places
  <1>4. page' = [page EXCEPT !.at = at, !.by = {}, !.kind = "none", !.answer = "none",
                             !.cooling = FALSE, !.who = who, !.told = told]
    BY DEF Visit
  <1> HIDE DEF at, who, told
  <1>5. /\ page' \in Page /\ page'.by = {} /\ page'.answer = "none" /\ page'.pw = page.pw
        /\ page'.told \in {"nothing", page.told}
    BY <1>2, <1>3, <1>4 DEF Page
  <1>6. (~over.page => Done(Promise, page.pw))'
    BY <1>1, <1>2, <1>5 DEF TabInv, Promise, Done
  <1>7. TabInv'
    BY <1>1, <1>5, <1>6 DEF TabInv
  <1>8. ConsoleInv'
    BY <1>1, <1>2, <1>5, ConsoleFrame DEF ConsoleInv
  <1>9. QED
    BY <1>7, <1>8

LEMMA CooledTold ==
  ASSUME PagesInv, Cooled
  PROVE  TabInv' /\ ConsoleInv'
  <1>1. TabInv /\ ConsoleInv /\ UNCHANGED <<vars, desk, console, over>>
    BY DEF PagesInv, Cooled
  <1>2. UNCHANGED <<user, call>> /\ page \in Page
    BY <1>1 DEF vars, TabInv
  <1>3. page' = [page EXCEPT !.cooling = FALSE]
    BY DEF Cooled
  <1>4. /\ page' \in Page /\ page'.by = page.by /\ page'.answer = page.answer
        /\ page'.pw = page.pw /\ page'.told = page.told /\ page'.kind = page.kind
    BY <1>2, <1>3 DEF Page
  <1>5. Promise' = Promise
    BY <1>4 DEF Promise
  <1>6. TabInv'
    BY <1>1, <1>2, <1>4, <1>5 DEF TabInv, Done
  <1>7. ConsoleInv'
    BY <1>1, <1>2, <1>4, ConsoleFrame DEF ConsoleInv
  <1>8. QED
    BY <1>6, <1>7

-----------------------------------------------------------------------------
(* The administrator's page *)

LEMMA OpenStudentTold ==
  ASSUME PagesInv, OpenStudent
  PROVE  TabInv' /\ ConsoleInv'
  <1>1. /\ TabInv /\ ConsoleInv /\ user \in AccountRow
        /\ desk = "pages" /\ UNCHANGED <<vars, desk, page, over>>
    BY DEF PagesInv, IInv, Types, OpenStudent
  <1>2. UNCHANGED <<user, call>>
    BY <1>1 DEF vars
  <1>3. TabInv'
    BY <1>1, <1>2, TabFrame DEF TabInv
  <1>4. call[Admin].step = "idle"
    BY <1>1 DEF ConsoleInv, OpenStudent
  <1>5. console' = [status |-> user.status, busy |-> FALSE, told |-> "nothing"]
    BY DEF OpenStudent, Console
  <1>6. user.status \in {"PENDING_VERIFICATION", "ACTIVE", "SUSPENDED"}
    BY <1>1 DEF AccountRow
  <1>7. /\ console' \in [status : {"PENDING_VERIFICATION", "ACTIVE", "SUSPENDED"},
                         busy : BOOLEAN, told : {"nothing", "suspended", "activated"}]
        /\ console'.busy = FALSE /\ console'.told = "nothing"
    BY <1>5, <1>6
  <1>8. ConsoleInv'
    BY <1>1, <1>2, <1>4, <1>7 DEF ConsoleInv
  <1>9. QED
    BY <1>3, <1>8

LEMMA ToggleStatusTold ==
  ASSUME PagesInv, ToggleStatus
  PROVE  TabInv' /\ ConsoleInv'
  <1>1. /\ IInv /\ TabInv /\ ConsoleInv /\ Admin \in Actors
        /\ UNCHANGED <<desk, page>> /\ console # <<>>
    BY DEF PagesInv, ToggleStatus, Actors
  <1>2. desk = "pages"
    BY <1>1 DEF ConsoleInv
  <1>3. PICK kind \in Admins : AskFor(Admin, kind)
    BY DEF ToggleStatus, Admins
  <1>4. /\ UNCHANGED user
        /\ call'[Admin].step = "sent" /\ call'[Admin].kind = kind /\ call'[Admin].row = <<>>
        /\ \A b \in Actors \ {Admin} : call'[b] = call[b]
    BY <1>1, <1>3, AskFacts DEF Kinds, Admins
  <1>5. over' = [over EXCEPT !.console = FALSE]
    BY DEF ToggleStatus
  <1>6. over' \in [page : BOOLEAN, console : BOOLEAN] /\ over'.page = over.page
    BY <1>1, <1>5 DEF TabInv
  <1>7. TabInv'
    <2>1. \A t \in page.by : call'[t] = call[t]
      BY <1>1, <1>4, AccountsAssumption DEF TabInv, Actors
    <2>2. QED
      BY <1>1, <1>4, <1>6, <2>1, TabFrame
  <1>8. console \in [status : {"PENDING_VERIFICATION", "ACTIVE", "SUSPENDED"},
                     busy : BOOLEAN, told : {"nothing", "suspended", "activated"}]
    BY <1>1 DEF ConsoleInv
  <1>9. console' = [console EXCEPT !.busy = TRUE, !.told = "nothing"]
    BY DEF ToggleStatus
  <1>10. /\ console' \in [status : {"PENDING_VERIFICATION", "ACTIVE", "SUSPENDED"},
                          busy : BOOLEAN, told : {"nothing", "suspended", "activated"}]
         /\ console'.busy = TRUE /\ console'.told = "nothing"
    BY <1>8, <1>9
  <1>11. ConsoleInv'
    BY <1>1, <1>2, <1>4, <1>10 DEF ConsoleInv
  <1>12. QED
    BY <1>7, <1>11

\* The request of the administrator is read, and then committed.
LEMMA AdminServes ==
  ASSUME PagesInv, desk = "pages", Serve(Admin)
  PROVE  /\ console # <<>> /\ console.busy /\ call[Admin].kind \in Admins
         /\ \/ /\ call[Admin].step = "sent" /\ Held(Admin) /\ user' = user
               /\ call'[Admin].step = "commit" /\ call'[Admin].row = user
            \/ /\ call[Admin].step = "commit" /\ call'[Admin].step = "idle"
               /\ \/ user' = New(Admin)
                  \/ user' = user /\ New(Admin) = call[Admin].row
  <1>1. Admin \in Actors /\ IInv /\ RowsCurrent /\ ConsoleInv /\ Types
    BY DEF Actors, PagesInv, IInv
  <1>2. console # <<>> /\ console.busy /\ call[Admin].kind \in Admins
          /\ call[Admin].step \in {"sent", "commit"}
    BY <1>1, ServesRequest DEF ConsoleInv
  <1>3. CASE call[Admin].step = "sent"
    <2>1. UpdateUserStatus(Admin)
      BY <1>2, <1>3 DEF Serve, Refuse, Renew, Rotate, Login, ReadAttempts, RecordFailedAttempt,
         CheckOtp, SpendCode, CommitReset, ForgotPassword, ResendVerification, ChangePassword,
         UpdateMyProfile, Commit, CommitLogin, CommitLogout, Blacklist, Admitted, Is, Admins, Kinds
    <2>2. Read(Admin, "commit") /\ user' = user
      BY <2>1 DEF UpdateUserStatus
    <2>3. /\ call'[Admin].step = "commit" /\ call'[Admin].row = user
          /\ call'[Admin].kind = call[Admin].kind /\ call'[Admin].pw = call[Admin].pw
      BY <1>1, <2>2, ReadFacts DEF Steps
    <2>4. QED
      BY <1>2, <1>3, <2>2, <2>3 DEF Held
  <1>4. CASE call[Admin].step = "commit"
    <2>1. call[Admin].kind # "reset"
      BY <1>2 DEF Admins
    <2>2. QED
      BY <1>1, <1>2, <1>4, <2>1, CommitsRow
  <1>5. QED
    BY <1>2, <1>3, <1>4

LEMMA ServedAdminTold ==
  ASSUME PagesInv, ServedAdmin
  PROVE  TabInv' /\ ConsoleInv'
  <1>1. /\ IInv /\ RowsCurrent /\ TabInv /\ ConsoleInv /\ Admin \in Actors
        /\ desk = "pages" /\ Serve(Admin) /\ UNCHANGED <<desk, page>>
    BY DEF PagesInv, ServedAdmin, Actors
  <1>2. Served1(Admin) /\ user' \in AccountRow
    <2>1. IInv'
      BY <1>1, Stepwise DEF Next
    <2>2. QED
      BY <1>1, <2>1, ServeServes DEF IInv, Types
  <1>3. /\ console # <<>> /\ console.busy /\ call[Admin].kind \in Admins
        /\ \/ /\ call[Admin].step = "sent" /\ Held(Admin) /\ user' = user
              /\ call'[Admin].step = "commit" /\ call'[Admin].row = user
           \/ /\ call[Admin].step = "commit" /\ call'[Admin].step = "idle"
              /\ \/ user' = New(Admin)
                 \/ user' = user /\ New(Admin) = call[Admin].row
    BY <1>1, AdminServes
  <1> DEFINE p == over.page \/ WritesLate
             c == over.console \/ WritesLate
  <1>4. over' = [over EXCEPT !.page = p, !.console = c]
    BY DEF ServedAdmin
  <1>5. p \in BOOLEAN /\ c \in BOOLEAN
    OBVIOUS
  <1>6. /\ ~p => ~over.page /\ ~WritesLate
        /\ ~c => ~over.console /\ ~WritesLate
    OBVIOUS
  <1> HIDE DEF p, c
  <1>7. over' \in [page : BOOLEAN, console : BOOLEAN] /\ over'.page = p /\ over'.console = c
    BY <1>1, <1>4, <1>5 DEF TabInv
  <1>8. ~WritesLate => user'.verified = user.verified /\ user'.password = user.password
    <2>1. call[Admin].kind \notin {"verify", "reset", "change"}
      BY <1>3 DEF Admins
    <2>2. CASE user' # user /\ ~WritesLate
      BY <1>1, <2>1, <2>2, FreshWrite, NewFacts
    <2>3. QED
      BY <2>2
  <1>9. TabInv'
    <2>1. \A b \in page.by : Aside(b)
      BY <1>1, <1>2, AccountsAssumption DEF TabInv, Served1, Actors
    <2>2. QED
      BY <1>1, <1>6, <1>7, <1>8, <2>1, TabFrame DEF Aside
  <1>10. /\ console \in [status : {"PENDING_VERIFICATION", "ACTIVE", "SUSPENDED"},
                         busy : BOOLEAN, told : {"nothing", "suspended", "activated"}]
         /\ console.told = "nothing"
    BY <1>1, <1>3 DEF ConsoleInv
  <1>11. CASE call[Admin].step = "sent"
    <2>1. console' = console
      BY <1>3, <1>11 DEF ServedAdmin
    <2>2. QED
      BY <1>1, <1>3, <1>7, <1>9, <1>10, <1>11, <2>1 DEF ConsoleInv, Held
  <1>12. CASE call[Admin].step = "commit"
    <2> DEFINE told == IF call[Admin].kind = "suspend" THEN "suspended" ELSE "activated"
    <2>1. call'[Admin].step = "idle"
      BY <1>3, <1>12
    <2>2. console' = [status |-> user'.status, busy |-> FALSE, told |-> told]
      BY <2>1 DEF ServedAdmin
    <2>3. user'.status \in {"PENDING_VERIFICATION", "ACTIVE", "SUSPENDED"}
      BY <1>2 DEF AccountRow
    <2>4. /\ call[Admin].row \in AccountRow
          /\ New(Admin).status = IF call[Admin].kind = "suspend" THEN "SUSPENDED" ELSE "ACTIVE"
      BY <1>1, <1>3, <1>12, NewFacts DEF Admins, Kinds
    <2>5. ~c => user'.status = IF call[Admin].kind = "suspend" THEN "SUSPENDED" ELSE "ACTIVE"
      <3>1. CASE user' = New(Admin)
        BY <2>4, <3>1
      <3>2. CASE user' = user /\ New(Admin) = call[Admin].row
        BY <1>1, <1>3, <1>6, <2>4, <3>2, RowIsThere DEF ConsoleInv
      <3>3. QED
        BY <1>3, <1>12, <3>1, <3>2
    <2>6. told = IF call[Admin].kind = "suspend" THEN "suspended" ELSE "activated"
      OBVIOUS
    <2> HIDE DEF told
    <2>7. /\ console' \in [status : {"PENDING_VERIFICATION", "ACTIVE", "SUSPENDED"},
                           busy : BOOLEAN, told : {"nothing", "suspended", "activated"}]
          /\ console'.busy = FALSE /\ console'.told = told
      BY <2>2, <2>3, <2>6
    <2>8. QED
      BY <1>1, <1>7, <1>9, <2>1, <2>5, <2>6, <2>7 DEF ConsoleInv
  <1>13. QED
    BY <1>3, <1>9, <1>11, <1>12

-----------------------------------------------------------------------------
(* Time, and requests that come from no page *)

LEMMA TimesTold ==
  ASSUME PagesInv, Times, UNCHANGED pageVars
  PROVE  TabInv' /\ ConsoleInv'
  <1>1. IInv /\ RowsCurrent /\ TabInv /\ ConsoleInv /\ UNCHANGED <<desk, page, console, over>>
    BY DEF PagesInv, pageVars
  <1>2. CASE LockEnds
    <2>1. \A t \in page.by : t \in Actors
      BY <1>1 DEF TabInv, Actors
    <2>2. Admin \in Actors
      BY DEF Actors
    <2>3. TabInv'
      BY <1>1, <1>2, <2>1, LockEndsRows, TabFrame DEF TabInv
    <2>4. ConsoleInv'
      BY <1>1, <1>2, <2>2, LockEndsRows, ConsoleFrame DEF ConsoleInv
    <2>5. QED
      BY <2>3, <2>4
  <1>3. CASE AccessExpires \/ CodeExpires \/ MinutePasses
    <2>1. UNCHANGED <<user, call>>
      BY <1>3 DEF AccessExpires, CodeExpires, MinutePasses
    <2>2. QED
      BY <1>1, <2>1, TabFrame, ConsoleFrame DEF TabInv, ConsoleInv
  <1>4. QED
    BY <1>2, <1>3 DEF Times

\* No page has been told anything, nor waits for anything, when there is none.
LEMMA RequestsTold ==
  ASSUME PagesInv, desk = "requests", UNCHANGED pageVars
  PROVE  TabInv' /\ ConsoleInv'
  <1>1. /\ TabInv /\ ConsoleInv /\ UNCHANGED <<desk, page, console, over>>
        /\ page.by = {} /\ page.answer = "none" /\ page.told = "nothing"
    BY DEF PagesInv, pageVars, TabInv, ConsoleInv
  <1>2. Promise' = "none"
    BY <1>1 DEF Promise
  <1>3. TabInv'
    BY <1>1, <1>2 DEF TabInv, Done
  <1>4. ConsoleInv'
    BY <1>1 DEF ConsoleInv
  <1>5. QED
    BY <1>3, <1>4

LEMMA PagesStart ==
  ASSUME PagesInit
  PROVE  PagesInv
  <1>1. Init
    BY DEF PagesInit
  <1>2. IInv
    BY <1>1, Initially
  <1>3. \A a \in Actors : call[a] = NoCall
    BY <1>1 DEF Init
  <1>4. RowsCurrent
    BY <1>3 DEF RowsCurrent, NoCall
  <1>5. /\ page = [at |-> IF user.verified THEN "home" ELSE "verify", by |-> {}, kind |-> "none",
                   pw |-> "new", answer |-> "none", cooling |-> FALSE, who |-> RefreshUser,
                   told |-> "nothing"]
        /\ console = <<>> /\ over = [page |-> FALSE, console |-> FALSE] /\ desk \in Desks
    BY DEF PagesInit
  <1> DEFINE at == IF user.verified THEN "home" ELSE "verify"
  <1>6. at \in Places /\ RefreshUser \in {"out", "in"}
    BY DEF Places, RefreshUser
  <1>7. page = [at |-> at, by |-> {}, kind |-> "none", pw |-> "new", answer |-> "none",
                cooling |-> FALSE, who |-> RefreshUser, told |-> "nothing"]
    BY <1>5
  <1> HIDE DEF at
  <1>8. page \in Page /\ page.by = {} /\ page.answer = "none" /\ page.told = "nothing"
    BY <1>6, <1>7 DEF Page, Password
  <1>9. Promise = "none"
    BY <1>8 DEF Promise
  <1>10. TabInv
    BY <1>5, <1>8, <1>9 DEF TabInv, Done
  <1>11. ConsoleInv
    BY <1>3, <1>5, <1>8, AccountPagesAssumption DEF ConsoleInv, NoCall, Actors
  <1>12. QED
    BY <1>2, <1>4, <1>10, <1>11 DEF PagesInv

LEMMA PagesStay ==
  ASSUME PagesInv, (desk = "requests" /\ Next /\ UNCHANGED pageVars) \/ PagesNext
  PROVE  PagesInv'
  <1>1. IInv' /\ RowsCurrent'
    <2>1. CASE Next
      BY <2>1, Stepwise, RowsStay DEF PagesInv
    <2>2. CASE UNCHANGED vars
      BY <2>2, Stutters DEF PagesInv, RowsCurrent, vars
    <2>3. QED
      BY <2>1, <2>2, PageStepIs
  <1>2. {"login", "forgot", "reset", "verify", "resend", "profile", "change", "logout"}
          \subseteq Kinds \ Admins
    BY DEF Kinds, Admins
  <1>3. ASSUME NEW t \in Tabs,
               \/ LoginPage(t) \/ ForgotPage(t) \/ ResetPage(t) \/ VerifyPage(t)
               \/ ProfileTab(t) \/ AccountTab(t) \/ Logout(t)
        PROVE  TabInv' /\ ConsoleInv'
    BY <1>2, <1>3, SubmitTold DEF LoginPage, ForgotPage, ResetPage, VerifyPage, ProfileTab,
       AccountTab, Logout, At
  <1>4. TabInv' /\ ConsoleInv'
    BY <1>3, ServedTold, AnsweredTold, VisitTold, CooledTold, OpenStudentTold, ToggleStatusTold,
       ServedAdminTold, TimesTold, RequestsTold DEF PagesNext
  <1>5. QED
    BY <1>1, <1>4 DEF PagesInv

\* What the pages announce is so: that the address is verified, the password new or changed,
\* and the status the administrator has set, for any number of requests at once, until one
\* overtakes it that writes a row it had read before, or that its page had left, or that
\* activates the account by a code that was sent earlier.
THEOREM SaidIsSo == PagesSpec => []ToldIsTrue
  <1>1. PagesInit => PagesInv
    BY PagesStart
  <1>2. PagesInv /\ [(desk = "requests" /\ Next /\ UNCHANGED pageVars) \/ PagesNext]_siteVars
          => PagesInv'
    <2>1. ASSUME PagesInv, UNCHANGED siteVars
          PROVE  PagesInv'
      <3>1. IInv'
        BY <2>1, Stutters DEF PagesInv, siteVars
      <3>2. RowsCurrent' /\ TabInv' /\ ConsoleInv'
        <4>1. UNCHANGED <<user, call, desk, page, console, over>>
          BY <2>1 DEF siteVars, vars, pageVars
        <4>2. QED
          BY <2>1, <4>1, TabFrame, ConsoleFrame DEF PagesInv, RowsCurrent, TabInv, ConsoleInv
      <3>3. QED
        BY <3>1, <3>2 DEF PagesInv
    <2>2. QED
      BY <2>1, PagesStay
  <1>3. PagesInv => ToldIsTrue
    <2> SUFFICES ASSUME PagesInv PROVE ToldIsTrue
      OBVIOUS
    <2>1. TabInv /\ ConsoleInv
      BY DEF PagesInv
    <2>2. ~over.page => CASE page.told = "verified" -> user.verified
                          [] page.told = "reset"    -> user.password = "new"
                          [] page.told = "changed"  -> user.password # page.pw
                          [] OTHER                  -> TRUE
      BY <2>1 DEF TabInv, Promise, Done
    <2>3. QED
      BY <2>1, <2>2 DEF ConsoleInv, ToldIsTrue
  <1>4. QED
    BY <1>1, <1>2, <1>3, PTL DEF PagesSpec

=============================================================================
