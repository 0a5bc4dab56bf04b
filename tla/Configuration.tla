----------------------------- MODULE Configuration -----------------------------
(***************************************************************************)
(* The users kaufbot answers to: how ALLOWED_USER_IDS, a list separated by *)
(* commas, is read.  A character is a comma, a blank, a tab (or any other  *)
(* white space), a sign, a digit (its value) or anything else.             *)
(***************************************************************************)
EXTENDS Integers, Sequences, SequencesExt

CONSTANTS
  Digits,    \* the digits that occur
  MaxUsers,  \* MAX_ALLOWED_USERS
  BufLen,    \* the size of the buffer the variable is copied to
  MaxNumber  \* LLONG_MAX

ASSUME ConfigurationAssumption ==
  Digits \subseteq 0..9 /\ MaxUsers \in Nat /\ BufLen \in Nat /\ MaxNumber \in Nat

VARIABLES
  raw,     \* the environment variable
  loaded   \* the list in the configuration, in a set that is empty before

configurationVars == <<raw, loaded>>

Comma  == 10
Space  == 11
Tab    == 12
Plus   == 13
Minus  == 14
Letter == 15
White  == {Space, Tab}
Signs  == {Plus, Minus}
Char   == Digits \cup White \cup Signs \cup {Comma, Letter}

-----------------------------------------------------------------------------
\* strtok_r: a piece begins where the commas behind the last one end, and
\* ends before the next comma.
Begin(s, at) == Min({i \in at + 1..Len(s) : s[i] # Comma})

End(s, begin) == LET commas == {i \in begin..Len(s) : s[i] = Comma}
                 IN IF commas = {} THEN Len(s) ELSE Min(commas) - 1

\* White space before a number is skipped: blanks by the loop, any by strtoll.
Trimmed(t) == LET some == {i \in DOMAIN t : t[i] \notin White}
              IN IF some = {} THEN <<>> ELSE SubSeq(t, Min(some), Len(t))

Leading(t) == LET others == {i \in DOMAIN t : t[i] \notin Digits}
              IN IF others = {} THEN t ELSE SubSeq(t, 1, Min(others) - 1)

Unsigned(t) == IF t # <<>> /\ t[1] \in Signs THEN Tail(t) ELSE t

\* strtoll: a sign, if there is one, and the digits behind it ...
Numeral(t) == [minus |-> t # <<>> /\ t[1] = Minus, digits |-> Leading(Unsigned(t))]

\* ... stand for a number, or for the last one that fits 64 bits.
Number(n) == LET size == FoldLeft(LAMBDA m, d : 10 * m + d, 0, n.digits)
             IN IF n.minus THEN Max({0 - size, 0 - MaxNumber - 1}) ELSE Min({size, MaxNumber})

\* Mutant: a piece without a number is skipped.
Round_Skipping(s, r) ==
  LET end == End(s, Begin(s, r.at))
      n   == Numeral(Trimmed(SubSeq(s, Begin(s, r.at), end)))
  IN IF ~r.ok \/ \A i \in r.at + 1..Len(s) : s[i] = Comma THEN r
     ELSE IF n.digits = <<>> THEN [r EXCEPT !.at = end]
     ELSE [at |-> end, users |-> Append(r.users, Number(n)), ok |-> TRUE]

\* One round of the loop: "at" is where the last piece ended.  A piece without
\* a number is an error.
Round(s, r) ==
  LET end == End(s, Begin(s, r.at))
      n   == Numeral(Trimmed(SubSeq(s, Begin(s, r.at), end)))
  IN IF ~r.ok \/ \A i \in r.at + 1..Len(s) : s[i] = Comma THEN r
     ELSE IF n.digits = <<>> THEN [at |-> end, users |-> r.users, ok |-> FALSE]
     ELSE [at |-> end, users |-> Append(r.users, Number(n)), ok |-> TRUE]

\* Nobody is allowed after an error.
parse_user_ids(s) ==
  LET buf == SubSeq(s, 1, Min({Len(s), BufLen - 1}))
      after[k \in 0..MaxUsers] ==
        IF k = 0 THEN [at |-> 0, users |-> <<>>, ok |-> TRUE] ELSE Round(buf, after[k - 1])
  IN IF after[MaxUsers].ok THEN after[MaxUsers].users ELSE <<>>

config_load == /\ loaded = {} /\ loaded' = {parse_user_ids(raw)}
               /\ UNCHANGED raw

\* config_load succeeds only with a user.
Starts(allowed_users) == allowed_users # <<>>

config_is_allowed(allowed_users, user) == \E k \in DOMAIN allowed_users : allowed_users[k] = user

ConfigurationSpec == raw \in Seq(Char) /\ loaded = {} /\ [][config_load]_configurationVars

-----------------------------------------------------------------------------
\* Reference: where the fields of the list begin and end.
Fields(s) == {f \in (DOMAIN s) \X (DOMAIN s) :
                /\ f[1] <= f[2]
                /\ \A i \in f[1]..f[2] : s[i] # Comma
                /\ f[1] = 1 \/ s[f[1] - 1] = Comma
                /\ f[2] = Len(s) \/ s[f[2] + 1] = Comma}

\* The numeral n stands in the field at i, behind white space: its sign, its
\* digits and no more; what follows it is not looked at.
Stands(s, f, n, i) ==
  LET first == IF s[i] \in Signs THEN i + 1 ELSE i
      last  == first + Len(n.digits) - 1
  IN /\ \A k \in f[1]..i - 1 : s[k] \in White
     /\ n.minus <=> s[i] = Minus
     /\ last <= f[2]
     /\ \A k \in DOMAIN n.digits : s[first + k - 1] = n.digits[k]
     /\ last = f[2] \/ s[last + 1] \notin Digits

Names(s, f, n) == \E i \in f[1]..f[2] : Stands(s, f, n, i)

FieldsBefore(s, f) == {g \in Fields(s) : g[1] < f[1]}

\* Whoever is allowed is named by a field of the list, and the bot starts only
\* if each of the first MaxUsers fields names somebody, who is allowed then:
\* no sign and no digit of a list that fits the buffer is read into another's
\* number, and none is left out.  Numbers that do not fit 64 bits name one and
\* the same user, the last.
AllowedAreListed ==
  LET first  == {f \in Fields(raw) : Cardinality(FieldsBefore(raw, f)) < MaxUsers}
      names  == [minus : BOOLEAN, digits : UNION {[1..k -> Digits] : k \in 1..Len(raw)}]
      listed == {Number(n) : n \in {m \in names : \E f \in first : Names(raw, f, m)}}
  IN \A allowed_users \in loaded : Len(raw) < BufLen =>
       /\ Starts(allowed_users) <=>
            first # {} /\ \A f \in first : \E n \in names : Names(raw, f, n)
       /\ Starts(allowed_users) => \A user \in listed \cup ToSet(allowed_users) :
            config_is_allowed(allowed_users, user) <=> user \in listed
=============================================================================
