----------------------------- MODULE ConfigProofs -----------------------------
(***************************************************************************)
(* The relations between the settings, and which layer gives them, for     *)
(* every file, command line and login.defs.  Nothing is assumed of the     *)
(* layers: what the readers let through does not matter, only how          *)
(* apply_layer combines it.                                                *)
(*                                                                         *)
(* And the recovery of the command line, for every line of whatever        *)
(* length: getopts reads what is left of it, and has what was kept.        *)
(***************************************************************************)
EXTENDS Startup, TLAPS, WellFoundedInduction, SequenceTheorems

Needed == Related \cup {"remember", "uid_defaults", "theme"}

(* Settings with all the fields that the relations are about. *)
Whole(s) == Needed \subseteq DOMAIN s

Agree(a, b, names) == \A f \in names : a[f] = b[f]

UidNames == {"min_uid", "max_uid", "uid_defaults"}
IdentityNames == {"issue", "greeting"}

(* What apply_plain passes on: a lower layer's user-session may have lost  *)
(* its remember by then.                                                   *)
Related4(s) ==
  Whole(s) /\ IdentityHolds(s) /\ UidsHold(s) /\ SessionsHold(s) /\ KeysHold(s)

LEMMA IdentityFollows ==
  ASSUME NEW a, NEW b, Agree(a, b, IdentityNames), IdentityHolds(a)
  PROVE  IdentityHolds(b)
BY DEF Agree, IdentityNames, IdentityHolds

LEMMA UidsFollow ==
  ASSUME NEW a, NEW b, Agree(a, b, UidNames), UidsHold(a)
  PROVE  UidsHold(b)
BY DEF Agree, UidNames, UidsHold, EffectiveMin, EffectiveMax

LEMMA SessionsFollow ==
  ASSUME NEW a, NEW b, Agree(a, b, SessionFields), SessionsHold(a)
  PROVE  SessionsHold(b)
BY DEF Agree, SessionsHold

LEMMA KeysFollow ==
  ASSUME NEW a, NEW b, Agree(a, b, KeyFields), KeysHold(a)
  PROVE  KeysHold(b)
BY DEF Agree, KeysHold

LEMMA PlainKeeps ==
  ASSUME NEW s, NEW layer, Related4(s)
  PROVE  Related4(ApplyPlain(s, layer))
<1> DEFINE p == ApplyPlain(s, layer)
<1>1. DOMAIN p = DOMAIN s
  BY DEF ApplyPlain
<1>2. \A f \in Related \cup {"uid_defaults"} : p[f] = s[f]
  BY DEF ApplyPlain, Related4, Whole, Needed, Related
<1>3. /\ Agree(s, p, IdentityNames) /\ Agree(s, p, UidNames)
      /\ Agree(s, p, SessionFields) /\ Agree(s, p, KeyFields)
  BY <1>2 DEF Agree, IdentityNames, UidNames, SessionFields, KeyFields, Related
<1>4. Whole(p)
  BY <1>1 DEF Related4, Whole
<1> HIDE DEF p
<1> QED
  BY <1>3, <1>4, IdentityFollows, UidsFollow, SessionsFollow, KeysFollow DEF Related4, p

LEMMA IdentityKeeps ==
  ASSUME NEW s, NEW fields, Related4(s)
  PROVE  Related4(ApplyIdentity(s, fields))
<1> DEFINE p == ApplyIdentity(s, fields)
<1>1. DOMAIN p = DOMAIN s /\ "issue" \in DOMAIN s /\ "greeting" \in DOMAIN s
  BY DEF ApplyIdentity, Related4, Whole, Needed, Related
<1>2. \A f \in DOMAIN s \ IdentityNames : p[f] = s[f]
  BY DEF ApplyIdentity, IdentityNames
<1>3. /\ p.greeting = IF "greeting" \in DOMAIN fields THEN fields["greeting"]
                      ELSE IF GivesIssue(fields) THEN Cleared ELSE s.greeting
      /\ p.issue = IF GivesGreeting(fields) THEN FALSE ELSE Over(fields, "issue", s)
  BY <1>1 DEF ApplyIdentity
<1>4. Agree(s, p, UidNames) /\ Agree(s, p, SessionFields) /\ Agree(s, p, KeyFields)
  BY <1>2 DEF Agree, IdentityNames, UidNames, SessionFields, KeyFields, Related4, Whole, Needed,
              Related
<1>5. Whole(p)
  BY <1>1 DEF Related4, Whole
<1>6. IdentityHolds(s)
  BY DEF Related4
<1>7. IdentityHolds(p)
  <2> HIDE DEF p
  <2>1. CASE GivesGreeting(fields)
    BY <1>3, <2>1 DEF IdentityHolds
  <2>2. CASE ~GivesGreeting(fields) /\ "greeting" \in DOMAIN fields
    BY <1>3, <2>2 DEF IdentityHolds, GivesGreeting
  <2>3. CASE ~GivesGreeting(fields) /\ "greeting" \notin DOMAIN fields
    BY <1>3, <1>6, <2>3 DEF IdentityHolds, GivesIssue, Over
  <2> QED
    BY <2>1, <2>2, <2>3
<1> HIDE DEF p
<1> QED
  BY <1>4, <1>5, <1>7, UidsFollow, SessionsFollow, KeysFollow DEF Related4, p

(* A relation that accepts or refuses its fields of the layer as a whole.  *)
LEMMA WithFieldsShape ==
  ASSUME NEW s, NEW fields, NEW names
  PROVE  LET p == WithFields(s, fields, names)
         IN /\ DOMAIN p = DOMAIN s
            /\ \A f \in DOMAIN s \ names : p[f] = s[f]
            /\ \A f \in DOMAIN s \cap names : p[f] = Over(fields, f, s)
BY DEF WithFields

LEMMA UidsKeep ==
  ASSUME NEW s, NEW fields, Related4(s)
  PROVE  Related4(ApplyUids(s, fields))
<1>1. CASE UidsConflict(s, fields)
  BY <1>1 DEF ApplyUids
<1>2. CASE ~UidsConflict(s, fields)
  <2> DEFINE p == WithFields(s, fields, UidFields)
  <2>1. /\ DOMAIN p = DOMAIN s
        /\ \A f \in DOMAIN s \ UidFields : p[f] = s[f]
    BY WithFieldsShape
  <2>2. ApplyUids(s, fields) = p /\ UidsHold(p)
    BY <1>2 DEF ApplyUids, UidsConflict, UidsHold
  <2>3. Agree(s, p, IdentityNames) /\ Agree(s, p, SessionFields) /\ Agree(s, p, KeyFields)
    <3> HIDE DEF p
    <3> QED
      BY <2>1 DEF Agree, IdentityNames, UidFields, SessionFields, KeyFields, Related4, Whole, Needed,
                  Related
  <2>4. Whole(p)
    BY <2>1 DEF Related4, Whole
  <2> HIDE DEF p
  <2> QED
    BY <2>2, <2>3, <2>4, IdentityFollows, SessionsFollow, KeysFollow DEF Related4
<1> QED
  BY <1>1, <1>2

LEMMA SessionsKeep ==
  ASSUME NEW s, NEW fields, Related4(s)
  PROVE  Related4(ApplySessions(s, fields))
<1>1. CASE SessionsConflict(s, fields)
  BY <1>1 DEF ApplySessions
<1>2. CASE ~SessionsConflict(s, fields)
  <2> DEFINE p == WithFields(s, fields, SessionFields)
  <2>1. /\ DOMAIN p = DOMAIN s
        /\ \A f \in DOMAIN s \ SessionFields : p[f] = s[f]
        /\ \A f \in DOMAIN s \cap SessionFields : p[f] = Over(fields, f, s)
    BY WithFieldsShape
  <2>2. ApplySessions(s, fields) = p
    BY <1>2 DEF ApplySessions
  <2>3. SessionFields \subseteq DOMAIN s
    BY DEF Related4, Whole, Needed, Related, SessionFields
  <2>4. SessionsHold(p)
    <3> HIDE DEF p
    <3> QED
      BY <1>2, <2>1, <2>3 DEF SessionsHold, SessionsConflict
  <2>5. Agree(s, p, IdentityNames) /\ Agree(s, p, UidNames) /\ Agree(s, p, KeyFields)
    <3> HIDE DEF p
    <3> QED
      BY <2>1 DEF Agree, IdentityNames, UidNames, SessionFields, KeyFields, Related4, Whole, Needed,
                  Related
  <2>6. Whole(p)
    BY <2>1 DEF Related4, Whole
  <2> HIDE DEF p
  <2> QED
    BY <2>2, <2>4, <2>5, <2>6, IdentityFollows, UidsFollow, KeysFollow DEF Related4
<1> QED
  BY <1>1, <1>2

(* With its last field put right, the whole relation holds. *)
LEMMA RememberKeeps ==
  ASSUME NEW s, Related4(s)
  PROVE  Related4(ApplyRemember(s)) /\ RememberHolds(ApplyRemember(s))
<1>1. CASE ~NeedsRemember(s)
  BY <1>1 DEF ApplyRemember, NeedsRemember, RememberHolds
<1>2. CASE NeedsRemember(s)
  <2> DEFINE p == [s EXCEPT !["remember"] = TRUE]
  <2>1. /\ DOMAIN p = DOMAIN s
        /\ \A f \in DOMAIN s \ {"remember"} : p[f] = s[f]
    OBVIOUS
  <2>2. p.remember = TRUE
    BY DEF Related4, Whole, Needed
  <2>3. ApplyRemember(s) = p
    BY <1>2 DEF ApplyRemember
  <2> HIDE DEF p
  <2>4. /\ Agree(s, p, IdentityNames) /\ Agree(s, p, UidNames)
        /\ Agree(s, p, SessionFields) /\ Agree(s, p, KeyFields)
    BY <2>1 DEF Agree, IdentityNames, UidNames, SessionFields, KeyFields, Related4, Whole, Needed,
                Related
  <2>5. Whole(p)
    BY <2>1 DEF Related4, Whole
  <2> QED
    BY <2>2, <2>3, <2>4, <2>5, IdentityFollows, UidsFollow, SessionsFollow, KeysFollow
       DEF Related4, RememberHolds
<1> QED
  BY <1>1, <1>2

LEMMA KeysKeep ==
  ASSUME NEW s, NEW fields, Related4(s), RememberHolds(s)
  PROVE  Related4(ApplyKeys(s, fields)) /\ RememberHolds(ApplyKeys(s, fields))
<1>1. CASE KeysConflict(s, fields)
  BY <1>1 DEF ApplyKeys
<1>2. CASE ~KeysConflict(s, fields)
  <2> DEFINE p == WithFields(s, fields, KeyFields)
  <2>1. /\ DOMAIN p = DOMAIN s
        /\ \A f \in DOMAIN s \ KeyFields : p[f] = s[f]
        /\ \A f \in DOMAIN s \cap KeyFields : p[f] = Over(fields, f, s)
    BY WithFieldsShape
  <2>2. ApplyKeys(s, fields) = p
    BY <1>2 DEF ApplyKeys
  <2>3. KeyFields \subseteq DOMAIN s /\ KeysHold(s)
    BY DEF Related4, Whole, Needed, Related, KeyFields
  <2> HIDE DEF p
  <2>4. KeysHold(p)
    <3>1. CASE KeyFields \cap DOMAIN fields = {}
      BY <2>1, <2>3, <3>1 DEF KeysHold, Over
    <3>2. CASE KeyFields \cap DOMAIN fields # {}
      BY <1>2, <2>1, <2>3, <3>2 DEF KeysHold, KeysConflict
    <3> QED
      BY <3>1, <3>2
  <2>5. /\ Agree(s, p, IdentityNames) /\ Agree(s, p, UidNames) /\ Agree(s, p, SessionFields)
        /\ p.remember = s.remember /\ p.remember_user_session = s.remember_user_session
    BY <2>1 DEF Agree, IdentityNames, UidNames, SessionFields, KeyFields, Related4, Whole, Needed,
                Related
  <2>6. Whole(p)
    BY <2>1 DEF Related4, Whole
  <2> QED
    BY <2>2, <2>4, <2>5, <2>6, IdentityFollows, UidsFollow, SessionsFollow
       DEF Related4, RememberHolds
<1> QED
  BY <1>1, <1>2

-----------------------------------------------------------------------------
Holds(s) == Whole(s) /\ Consistent(s)

(* Whatever a layer says, laying it over consistent settings gives         *)
(* consistent settings (apply_layer).                                      *)
THEOREM LayersKeepRelations ==
  ASSUME NEW s, NEW layer, Holds(s)
  PROVE  Holds(ApplyLayer(s, layer))
<1>1. Related4(s)
  BY DEF Holds, Consistent, Related4
<1> DEFINE plain    == ApplyPlain(s, layer)
           identity == ApplyIdentity(plain, layer.fields)
           uids     == ApplyUids(identity, layer.fields)
           chosen   == ApplySessions(uids, layer.fields)
           sessions == ApplyRemember(chosen)
<1>2. Related4(plain)
  BY <1>1, PlainKeeps
<1> HIDE DEF plain
<1>3. Related4(identity)
  BY <1>2, IdentityKeeps
<1> HIDE DEF identity
<1>4. Related4(uids)
  BY <1>3, UidsKeep
<1> HIDE DEF uids
<1>5. Related4(chosen)
  BY <1>4, SessionsKeep
<1> HIDE DEF chosen
<1>6. Related4(sessions) /\ RememberHolds(sessions)
  BY <1>5, RememberKeeps
<1> HIDE DEF sessions
<1>7. Related4(ApplyKeys(sessions, layer.fields)) /\ RememberHolds(ApplyKeys(sessions, layer.fields))
  BY <1>6, KeysKeep
<1>8. ApplyLayer(s, layer) = ApplyKeys(sessions, layer.fields)
  BY DEF ApplyLayer, sessions, chosen, uids, identity, plain
<1> QED
  BY <1>7, <1>8 DEF Holds, Consistent, Related4

(* login.defs gives a range that is not empty, or the built-in one. *)
LEMMA UidDefaultsHold ==
  ASSUME defs \in LoginDefs
  PROVE  UidDefaults[1] \in Int /\ UidDefaults[2] \in Int /\ UidDefaults[1] <= UidDefaults[2]
<1>1. /\ defs[1] # None => defs[1] \in Nat
      /\ defs[2] # None => defs[2] \in Nat
  BY LoginAssumption
<1> QED
  BY <1>1 DEF UidDefaults

LEMMA DefaultsHold ==
  ASSUME defs \in LoginDefs
  PROVE  Holds(Defaults(UidDefaults))
<1> DEFINE s == Defaults(UidDefaults)
<1>1. /\ s.issue = FALSE /\ s.remember_session = FALSE /\ s.remember_user_session = FALSE
      /\ s.min_uid = None /\ s.max_uid = None /\ s.uid_defaults = UidDefaults
      /\ s.kb_command = 2 /\ s.kb_sessions = 3 /\ s.kb_power = 12
  BY DEF Defaults
<1>2. Whole(s)
  BY DEF Defaults, Whole, Needed, Related
<1> HIDE DEF s
<1>3. IdentityHolds(s) /\ SessionsHold(s) /\ RememberHolds(s)
  BY <1>1 DEF IdentityHolds, SessionsHold, SessionFields, RememberHolds
<1>4. UidsHold(s)
  BY <1>1, UidDefaultsHold DEF UidsHold, EffectiveMin, EffectiveMax
<1>5. KeysHold(s)
  BY <1>1 DEF KeysHold, KeyFields
<1> QED
  BY <1>2, <1>3, <1>4, <1>5 DEF Holds, Consistent, s

-----------------------------------------------------------------------------
(* A load never leaves the settings inconsistent halfway, so that neither  *)
(* a rejected reload nor one that is still at work needs an argument.      *)
IInv ==
  /\ defs \in LoginDefs
  /\ Holds(candidate)
  /\ live # None => Holds(live.settings)

LEMMA LayKeeps ==
  ASSUME NEW name, NEW layer, NEW warnings, IInv, Lay(name, layer, warnings)
  PROVE  Holds(candidate')
BY LayersKeepRelations DEF IInv, Lay

LEMMA LoadKeeps ==
  ASSUME NEW name, NEW file, NEW next, IInv, LoadRequired(name, file, next)
  PROVE  Holds(candidate')
<1>1. CASE FailFile(next)
  BY <1>1 DEF FailFile, IInv
<1>2. CASE Lay(name, TomlLayer(file.toml), TrustWarnings(file))
  BY <1>2, LayKeeps
<1> QED
  BY <1>1, <1>2 DEF LoadRequired

(* The settings that are put together and the settings in force satisfy    *)
(* every relation, for every start, edit and reload.                       *)
THEOREM SettingsStayConsistent == Spec => []RelationsHold
<1>1. Init => IInv
  <2> SUFFICES ASSUME Init PROVE IInv
    OBVIOUS
  <2>1. defs \in LoginDefs
    BY LoginAssumption DEF Init, InitCase
  <2>2. candidate = Defaults(UidDefaults) /\ live = None
    BY DEF Init, Fresh
  <2> QED
    BY <2>1, <2>2, DefaultsHold DEF IInv
<1>2. IInv /\ [Next]_vars => IInv'
  <2> SUFFICES ASSUME IInv, [Next]_vars PROVE IInv'
    OBVIOUS
  <2>1. CASE LoadSystem
    <3>1. defs' = defs /\ live' = live
      BY <2>1 DEF LoadSystem, environment
    <3>2. Holds(candidate')
      <4>1. CASE UNCHANGED candidate
        BY <4>1 DEF IInv
      <4>2. CASE LoadRequired("system", Content("system"), "explicit")
        BY <4>2, LoadKeeps
      <4> QED
        BY <2>1, <4>1, <4>2 DEF LoadSystem
    <3> QED
      BY <3>1, <3>2 DEF IInv
  <2>2. CASE SkipExplicit
    BY <2>2 DEF SkipExplicit, IInv, environment
  <2>3. CASE LoadExplicit
    <3>1. defs' = defs /\ live' = live
      BY <2>3 DEF LoadExplicit, environment
    <3>2. Holds(candidate')
      BY <2>3, LoadKeeps DEF LoadExplicit
    <3> QED
      BY <3>1, <3>2 DEF IInv
  <2>4. CASE ApplyCommandLine
    <3>1. defs' = defs /\ live'.settings = candidate'
      BY <2>4 DEF ApplyCommandLine, environment
    <3>2. Holds(candidate')
      BY <2>4, LayKeeps DEF ApplyCommandLine
    <3> QED
      BY <3>1, <3>2 DEF IInv
  <2>5. CASE Reload
    BY <2>5, DefaultsHold DEF Reload, IInv, environment
  <2>6. CASE EditFile
    BY <2>6 DEF EditFile, IInv
  <2>7. CASE ReadLine \/ Begin \/ FinishCheck \/ UNCHANGED vars
    <3>1. defs' = defs /\ candidate' = candidate /\ live' = live
      BY <2>7 DEF ReadLine, Begin, FinishCheck, vars, configVars
    <3> QED
      BY <3>1 DEF IInv
  <2> QED
    BY <2>1, <2>2, <2>3, <2>4, <2>5, <2>6, <2>7
    DEF Next, LoadSettings, EditAFile, ReloadSettings, Load
<1>3. IInv => RelationsHold
  BY DEF IInv, RelationsHold, Holds
<1> QED
  BY <1>1, <1>2, <1>3, PTL DEF Spec

-----------------------------------------------------------------------------
(* Which layer prevails                                                    *)

(* What layer gives field f where below is what lies under it.             *)
Laid(layer, f, below) == IF Speaks(layer, f) THEN Says(layer, f) ELSE below

(* The relations that a set of warnings is about, and their fields.        *)
Kept(f, warnings) ==
  /\ f \in UidFields => "min_uid/max_uid" \notin warnings
  /\ f \in SessionFields => "session/user-session" \notin warnings
  /\ f = "remember" => "user-session" \notin warnings
  /\ f \in KeyFields => "keybindings" \notin warnings

(* apply_plain and the identity *)
LEMMA IdentityLaid ==
  ASSUME NEW s, NEW layer, Whole(s), NEW p, p = ApplyIdentity(ApplyPlain(s, layer), layer.fields)
  PROVE  /\ DOMAIN p = DOMAIN s
         /\ p.theme = [c \in DOMAIN s.theme |-> Over(layer.theme, c, s.theme)]
         /\ \A f \in UidFields \cup SessionFields \cup KeyFields \cup {"uid_defaults"} : p[f] = s[f]
         /\ \A f \in DOMAIN s \ ({"theme", "uid_defaults"} \cup UidFields \cup SessionFields \cup KeyFields) :
              p[f] = Laid(layer, f, s[f])
         /\ Agree(ApplyPlain(s, layer), p,
                  UidNames \cup SessionFields \cup KeyFields \cup {"remember"})
<1> DEFINE q == ApplyPlain(s, layer)
           fields == layer.fields
<1>1. DOMAIN q = DOMAIN s /\ Needed \subseteq DOMAIN s
  BY DEF ApplyPlain, Whole
<1>2. /\ q.theme = [c \in DOMAIN s.theme |-> Over(layer.theme, c, s.theme)]
      /\ \A f \in Related \cup {"uid_defaults"} : q[f] = s[f]
      /\ \A f \in DOMAIN s \ (Related \cup {"uid_defaults", "theme"}) : q[f] = Over(fields, f, s)
  BY <1>1 DEF ApplyPlain, Needed, Related
<1> HIDE DEF q
<1>3. /\ DOMAIN p = DOMAIN q
      /\ \A f \in DOMAIN q \ IdentityNames : p[f] = q[f]
      /\ p.greeting = IF "greeting" \in DOMAIN fields THEN fields["greeting"]
                      ELSE IF GivesIssue(fields) THEN Cleared ELSE q.greeting
      /\ p.issue = IF GivesGreeting(fields) THEN FALSE ELSE Over(fields, "issue", q)
  BY <1>1 DEF ApplyIdentity, IdentityNames, q, Needed, Related
<1>4. p.theme = q.theme /\ \A f \in UidFields \cup SessionFields \cup KeyFields \cup {"uid_defaults"} : p[f] = s[f]
  BY <1>1, <1>2, <1>3 DEF IdentityNames, UidFields, SessionFields, KeyFields, Needed, Related
<1>5. ASSUME NEW f \in DOMAIN s \ ({"theme", "uid_defaults"} \cup UidFields \cup SessionFields \cup KeyFields)
      PROVE  p[f] = Laid(layer, f, s[f])
  <2>1. CASE f = "issue"
    <3>1. q.issue = s.issue
      BY <1>2 DEF Related
    <3> QED BY <1>3, <2>1, <3>1 DEF Laid, Speaks, Says, Over
  <2>2. CASE f = "greeting"
    <3>1. q.greeting = s.greeting
      BY <1>2 DEF Related
    <3> QED BY <1>3, <2>2, <3>1 DEF Laid, Speaks, Says
  <2>3. CASE f \notin IdentityNames
    <3>1. f \notin Related
      BY <2>3 DEF Related, UidFields, SessionFields, KeyFields, IdentityNames
    <3>2. p[f] = Over(fields, f, s)
      BY <1>1, <1>2, <1>3, <2>3, <3>1
    <3> QED BY <2>3, <3>2 DEF Laid, Speaks, Says, Over, IdentityNames
  <2> QED BY <2>1, <2>2, <2>3 DEF IdentityNames
<1>6. Agree(q, p, UidNames \cup SessionFields \cup KeyFields \cup {"remember"})
  BY <1>1, <1>3 DEF Agree, IdentityNames, UidNames, SessionFields, KeyFields, Needed, Related
<1> QED BY <1>1, <1>2, <1>3, <1>4, <1>5, <1>6 DEF q

(* A relation that takes its fields or refuses them.                       *)
LEMMA UidsLaid ==
  ASSUME NEW s, NEW fields, Whole(s), NEW p, p = ApplyUids(s, fields)
  PROVE  /\ DOMAIN p = DOMAIN s
         /\ \A f \in DOMAIN s \ UidFields : p[f] = s[f]
         /\ ~UidsConflict(s, fields) => \A f \in UidFields : p[f] = Over(fields, f, s)
  BY WithFieldsShape DEF ApplyUids, Whole, Needed, Related, UidFields

(* The same of the remembered sessions.                                    *)
LEMMA SessionsLaid ==
  ASSUME NEW s, NEW fields, Whole(s), NEW p, p = ApplySessions(s, fields)
  PROVE  /\ DOMAIN p = DOMAIN s
         /\ \A f \in DOMAIN s \ SessionFields : p[f] = s[f]
         /\ ~SessionsConflict(s, fields) => \A f \in SessionFields : p[f] = Over(fields, f, s)
  BY WithFieldsShape DEF ApplySessions, Whole, Needed, Related, SessionFields

(* The same of the keys.                                                   *)
LEMMA KeysLaid ==
  ASSUME NEW s, NEW fields, Whole(s), NEW p, p = ApplyKeys(s, fields)
  PROVE  /\ DOMAIN p = DOMAIN s
         /\ \A f \in DOMAIN s \ KeyFields : p[f] = s[f]
         /\ ~KeysConflict(s, fields) => \A f \in KeyFields : p[f] = Over(fields, f, s)
  BY WithFieldsShape DEF ApplyKeys, Whole, Needed, Related, KeyFields

(* The conflicts that are warned of are those that are acted on: each is   *)
(* told from fields that the relations before it leave alone.              *)
LEMMA SameConflicts ==
  ASSUME NEW s, NEW t, NEW fields, Whole(s), Whole(t)
  PROVE  /\ Agree(s, t, UidNames) => UidsConflict(s, fields) <=> UidsConflict(t, fields)
         /\ Agree(s, t, SessionFields) => SessionsConflict(s, fields) <=> SessionsConflict(t, fields)
         /\ Agree(s, t, KeyFields) => KeysConflict(s, fields) <=> KeysConflict(t, fields)
         /\ Agree(s, t, SessionFields \cup {"remember"}) =>
              NeedsRemember(ApplySessions(s, fields)) <=> NeedsRemember(ApplySessions(t, fields))
<1>1. ASSUME Agree(s, t, UidNames) PROVE UidsConflict(s, fields) <=> UidsConflict(t, fields)
  <2> DEFINE a == WithFields(s, fields, UidFields)
             b == WithFields(t, fields, UidFields)
  <2>1. a.min_uid = b.min_uid /\ a.max_uid = b.max_uid /\ a.uid_defaults = b.uid_defaults
    BY <1>1 DEF WithFields, Whole, Needed, Related, Agree, UidNames, UidFields, Over
  <2> HIDE DEF a, b
  <2>2. EffectiveMin(a) = EffectiveMin(b) /\ EffectiveMax(a) = EffectiveMax(b)
    BY <2>1 DEF EffectiveMin, EffectiveMax
  <2> QED BY <2>2 DEF UidsConflict, a, b
<1>2. ASSUME Agree(s, t, SessionFields)
      PROVE  SessionsConflict(s, fields) <=> SessionsConflict(t, fields)
  BY <1>2 DEF SessionsConflict, Agree, Over
<1>3. ASSUME Agree(s, t, KeyFields) PROVE KeysConflict(s, fields) <=> KeysConflict(t, fields)
  BY <1>3 DEF KeysConflict, Agree, Over
<1>4. ASSUME Agree(s, t, SessionFields \cup {"remember"})
      PROVE  NeedsRemember(ApplySessions(s, fields)) <=> NeedsRemember(ApplySessions(t, fields))
  <2> DEFINE a == ApplySessions(s, fields)
             b == ApplySessions(t, fields)
  <2>1. SessionsConflict(s, fields) <=> SessionsConflict(t, fields)
    BY <1>2, <1>4 DEF Agree
  <2>2. /\ a.remember = s.remember /\ b.remember = t.remember
    BY SessionsLaid DEF Whole, Needed, Related, SessionFields
  <2>3. a.remember_user_session = b.remember_user_session
    <3>1. CASE SessionsConflict(s, fields)
      BY <1>4, <2>1, <3>1 DEF ApplySessions, Agree, SessionFields
    <3>2. CASE ~SessionsConflict(s, fields)
      <4>1. /\ a.remember_user_session = Over(fields, "remember_user_session", s)
            /\ b.remember_user_session = Over(fields, "remember_user_session", t)
        BY <2>1, <3>2, SessionsLaid DEF SessionFields
      <4> QED BY <1>4, <4>1 DEF Over, Agree, SessionFields
    <3> QED BY <3>1, <3>2
  <2> HIDE DEF a, b
  <2> QED BY <1>4, <2>2, <2>3 DEF NeedsRemember, Agree, a, b
<1> QED BY <1>1, <1>2, <1>3, <1>4


(* apply_layer, field by field: where no warning says that a relation is   *)
(* broken, a field is what the layer says of it, and otherwise what it was.*)
LEMMA LayerLaid ==
  ASSUME NEW s, NEW layer, Whole(s), NEW p, p = ApplyLayer(s, layer)
  PROVE  /\ DOMAIN p = DOMAIN s
         /\ p.uid_defaults = s.uid_defaults
         /\ p.theme = [c \in DOMAIN s.theme |-> Over(layer.theme, c, s.theme)]
         /\ \A f \in DOMAIN s \ {"theme", "uid_defaults"} :
              Kept(f, LayerWarnings(s, layer)) => p[f] = Laid(layer, f, s[f])
<1> DEFINE fields   == layer.fields
           plain    == ApplyPlain(s, layer)
           identity == ApplyIdentity(plain, fields)
           uids     == ApplyUids(identity, fields)
           chosen   == ApplySessions(uids, fields)
           sessions == ApplyRemember(chosen)
           warnings == LayerWarnings(s, layer)
           Rest     == {"theme", "uid_defaults"} \cup UidFields \cup SessionFields \cup KeyFields
<1>1. p = ApplyKeys(sessions, fields)
  BY DEF ApplyLayer
<1>2. /\ "min_uid/max_uid" \notin warnings => ~UidsConflict(plain, fields)
      /\ "session/user-session" \notin warnings => ~SessionsConflict(plain, fields)
      /\ "user-session" \notin warnings => ~NeedsRemember(ApplySessions(plain, fields))
      /\ "keybindings" \notin warnings => ~KeysConflict(plain, fields)
  BY DEF LayerWarnings
<1>3. /\ DOMAIN identity = DOMAIN s
      /\ identity.theme = [c \in DOMAIN s.theme |-> Over(layer.theme, c, s.theme)]
      /\ \A f \in UidFields \cup SessionFields \cup KeyFields \cup {"uid_defaults"} :
           identity[f] = s[f]
      /\ \A f \in DOMAIN s \ Rest : identity[f] = Laid(layer, f, s[f])
      /\ Agree(plain, identity, UidNames \cup SessionFields \cup KeyFields \cup {"remember"})
  BY IdentityLaid
<1>4. Whole(plain) /\ Whole(identity)
  BY <1>3 DEF ApplyPlain, Whole
<1> HIDE DEF plain, identity, warnings
<1>5. /\ DOMAIN uids = DOMAIN s
      /\ \A f \in DOMAIN s \ UidFields : uids[f] = identity[f]
      /\ ~UidsConflict(identity, fields) => \A f \in UidFields : uids[f] = Over(fields, f, identity)
  BY <1>3, <1>4, UidsLaid
<1>6. Whole(uids)
  BY <1>4, <1>5, <1>3 DEF Whole
<1> HIDE DEF uids
<1>7. /\ DOMAIN chosen = DOMAIN s
      /\ \A f \in DOMAIN s \ SessionFields : chosen[f] = uids[f]
      /\ ~SessionsConflict(uids, fields) => \A f \in SessionFields : chosen[f] = Over(fields, f, uids)
  BY <1>5, <1>6, SessionsLaid
<1>8. /\ DOMAIN sessions = DOMAIN s
      /\ \A f \in DOMAIN s \ {"remember"} : sessions[f] = chosen[f]
      /\ ~NeedsRemember(chosen) => sessions.remember = chosen.remember
  BY <1>7 DEF ApplyRemember
<1>9. Whole(sessions)
  BY <1>6, <1>5, <1>8 DEF Whole
<1>10. /\ DOMAIN p = DOMAIN s
       /\ \A f \in DOMAIN s \ KeyFields : p[f] = sessions[f]
       /\ ~KeysConflict(sessions, fields) => \A f \in KeyFields : p[f] = Over(fields, f, sessions)
  <2> HIDE DEF sessions
  <2> QED BY <1>1, <1>8, <1>9, KeysLaid
<1>11. Agree(plain, uids, SessionFields \cup KeyFields \cup {"remember"})
  BY <1>3, <1>4, <1>5 DEF Agree, SessionFields, KeyFields, UidFields, Whole, Needed, Related
<1>12. Agree(plain, sessions, KeyFields)
  <2> HIDE DEF chosen, sessions
  <2> QED BY <1>5, <1>6, <1>7, <1>8, <1>11 DEF Agree, SessionFields, KeyFields, Whole, Needed, Related
<1>13. /\ "min_uid/max_uid" \notin warnings => ~UidsConflict(identity, fields)
       /\ "session/user-session" \notin warnings => ~SessionsConflict(uids, fields)
       /\ "user-session" \notin warnings => ~NeedsRemember(chosen)
       /\ "keybindings" \notin warnings => ~KeysConflict(sessions, fields)
  <2> HIDE DEF sessions
  <2>1. Agree(plain, identity, UidNames)
    BY <1>3 DEF Agree
  <2>2. Agree(plain, uids, SessionFields)
    BY <1>11 DEF Agree
  <2>3. Agree(plain, uids, SessionFields \cup {"remember"})
    BY <1>11 DEF Agree
  <2>4. UidsConflict(plain, fields) <=> UidsConflict(identity, fields)
    BY <1>4, <2>1, SameConflicts
  <2>5. SessionsConflict(plain, fields) <=> SessionsConflict(uids, fields)
    BY <1>4, <1>6, <2>2, SameConflicts
  <2>6. NeedsRemember(ApplySessions(plain, fields)) <=> NeedsRemember(chosen)
    BY <1>4, <1>6, <2>3, SameConflicts
  <2>7. KeysConflict(plain, fields) <=> KeysConflict(sessions, fields)
    BY <1>4, <1>9, <1>12, SameConflicts
  <2> QED BY <1>2, <2>4, <2>5, <2>6, <2>7
<1> HIDE DEF chosen, sessions
<1>14. /\ UidFields \subseteq DOMAIN s /\ SessionFields \subseteq DOMAIN s
       /\ KeyFields \subseteq DOMAIN s
       /\ "theme" \in DOMAIN s /\ "uid_defaults" \in DOMAIN s /\ "remember" \in DOMAIN s
  BY DEF Whole, Needed, Related, UidFields, SessionFields, KeyFields
<1>15. p.theme = identity.theme /\ p.uid_defaults = s.uid_defaults
  BY <1>3, <1>5, <1>7, <1>8, <1>10, <1>14 DEF UidFields, SessionFields, KeyFields
<1>16. ASSUME NEW f \in DOMAIN s \ {"theme", "uid_defaults"}, Kept(f, warnings)
       PROVE  p[f] = Laid(layer, f, s[f])
  <2>1. CASE f \in UidFields
    <3>1. p[f] = uids[f]
      BY <1>7, <1>8, <1>10, <2>1 DEF UidFields, SessionFields, KeyFields
    <3>2. uids[f] = Over(fields, f, identity) /\ identity[f] = s[f]
      BY <1>3, <1>5, <1>13, <1>16, <2>1 DEF Kept
    <3> QED BY <2>1, <3>1, <3>2 DEF Laid, Speaks, Says, Over, UidFields
  <2>2. CASE f \in SessionFields
    <3>1. p[f] = chosen[f]
      BY <1>8, <1>10, <2>2 DEF SessionFields, KeyFields
    <3>2. chosen[f] = Over(fields, f, uids) /\ uids[f] = s[f]
      BY <1>3, <1>5, <1>7, <1>13, <1>16, <2>2 DEF Kept, UidFields, SessionFields
    <3> QED BY <2>2, <3>1, <3>2 DEF Laid, Speaks, Says, Over, SessionFields
  <2>3. CASE f \in KeyFields
    <3>1. p[f] = Over(fields, f, sessions)
      BY <1>10, <1>13, <1>16, <2>3 DEF Kept
    <3>2. sessions[f] = s[f]
      BY <1>3, <1>5, <1>7, <1>8, <2>3 DEF UidFields, SessionFields, KeyFields
    <3> QED BY <2>3, <3>1, <3>2 DEF Laid, Speaks, Says, Over, KeyFields
  <2>4. CASE f \notin UidFields \cup SessionFields \cup KeyFields
    <3>1. identity[f] = Laid(layer, f, s[f])
      BY <1>3, <2>4
    <3>2. p[f] = sessions[f] /\ uids[f] = identity[f] /\ chosen[f] = uids[f]
      BY <1>5, <1>7, <1>10, <2>4
    <3>3. sessions[f] = chosen[f]
      BY <1>8, <1>13, <1>16 DEF Kept
    <3> QED BY <3>1, <3>2, <3>3
  <2> QED BY <2>1, <2>2, <2>3, <2>4
<1> QED BY <1>3, <1>10, <1>15, <1>16 DEF warnings

(* The same of a color of the theme.                                       *)
LaidColor(layer, c, below) == IF c \in DOMAIN layer.theme THEN layer.theme[c] ELSE below

(* Of up to three layers, the highest first, the first that speaks wins.   *)
LEMMA FirstSpeaks ==
  ASSUME NEW T, T \subseteq 1..3, T # {}
  PROVE  /\ 1 \in T => Min(T) = 1
         /\ 1 \notin T /\ 2 \in T => Min(T) = 2
         /\ 1 \notin T /\ 2 \notin T => Min(T) = 3 /\ 3 \in T
<1>1. \A x \in T : x \in {1, 2, 3}
  OBVIOUS
<1>2. ASSUME NEW m \in T, \A x \in T : m <= x PROVE Min(T) = m
  <2>1. \A x \in T : (\A y \in T : x <= y) => x = m
    BY <1>1, <1>2
  <2> QED BY <1>2, <2>1 DEF Min
<1>3. ASSUME 1 \in T PROVE Min(T) = 1
  <2>1. \A x \in T : 1 <= x
    BY <1>1
  <2> QED BY <1>2, <1>3, <2>1
<1>4. ASSUME 1 \notin T, 2 \in T PROVE Min(T) = 2
  <2>1. \A x \in T : 2 <= x
    BY <1>1, <1>4
  <2> QED BY <1>2, <1>4, <2>1
<1>5. ASSUME 1 \notin T, 2 \notin T PROVE Min(T) = 3 /\ 3 \in T
  <2>1. T = {3}
    BY <1>1, <1>5
  <2>2. 3 \in T /\ \A x \in T : 3 <= x
    BY <2>1
  <2> QED BY <1>2, <2>2
<1> QED BY <1>3, <1>4, <1>5

(* Of up to three layers, the highest first, each field is what the first  *)
(* that speaks of it says.                                                 *)
LEMMA Prevails ==
  ASSUME NEW layers, NEW n \in 1..3, DOMAIN layers = 1..n, NEW f
  PROVE  Prevailing(layers, f) =
           LET base == Defaults(UidDefaults)[f]
           IN Laid(layers[1], f, IF n = 1 THEN base
                                 ELSE Laid(layers[2], f, IF n = 2 THEN base
                                                         ELSE Laid(layers[3], f, base)))
<1> DEFINE T == {i \in DOMAIN layers : Speaks(layers[i], f)}
           base == Defaults(UidDefaults)[f]
<1>1. Prevailing(layers, f) = IF T = {} THEN base ELSE Says(layers[Min(T)], f)
  BY DEF Prevailing
<1>2. /\ T \subseteq 1..3
      /\ 1 \in T <=> Speaks(layers[1], f)
      /\ 2 \in T <=> n # 1 /\ Speaks(layers[2], f)
      /\ 3 \in T <=> n \notin {1, 2} /\ Speaks(layers[3], f)
  OBVIOUS
<1> HIDE DEF T, base
<1> QED BY <1>1, <1>2, FirstSpeaks DEF Laid, base

(* And each color.                                                         *)
LEMMA ColorPrevails ==
  ASSUME NEW layers, NEW n \in 1..3, DOMAIN layers = 1..n, NEW c
  PROVE  PrevailingColor(layers, c) =
           LaidColor(layers[1], c, IF n = 1 THEN <<"unset">>
                                   ELSE LaidColor(layers[2], c,
                                          IF n = 2 THEN <<"unset">>
                                          ELSE LaidColor(layers[3], c, <<"unset">>)))
<1> DEFINE T == {i \in DOMAIN layers : c \in DOMAIN layers[i].theme}
<1>1. PrevailingColor(layers, c) = IF T = {} THEN <<"unset">> ELSE layers[Min(T)].theme[c]
  BY DEF PrevailingColor
<1>2. /\ T \subseteq 1..3
      /\ 1 \in T <=> c \in DOMAIN layers[1].theme
      /\ 2 \in T <=> n # 1 /\ c \in DOMAIN layers[2].theme
      /\ 3 \in T <=> n \notin {1, 2} /\ c \in DOMAIN layers[3].theme
  OBVIOUS
<1> HIDE DEF T
<1> QED BY <1>1, <1>2, FirstSpeaks DEF LaidColor

-----------------------------------------------------------------------------
(* What a load makes of the files as they are                              *)

Explicit == "config" \in DOMAIN matches /\ ~same

(* A file that does not load leaves the settings and is warned of.         *)
WithFile(s, file) == IF file.kind = "toml" THEN ApplyLayer(s, TomlLayer(file.toml)) ELSE s
FileWarnings(s, file) ==
  IF file.kind = "toml" THEN TrustWarnings(file) \cup LayerWarnings(s, TomlLayer(file.toml))
  ELSE IF file.kind = "malformed" THEN TrustWarnings(file) \cup {"file"} ELSE {"file"}

Tagged(name, warnings) == {<<name, w>> : w \in warnings}

Below == Defaults(UidDefaults)
SystemLaid == WithFile(Below, Content("system"))
SystemWarned ==
  IF Content("system").kind = "absent" THEN {}
  ELSE Tagged("system", FileWarnings(Below, Content("system")))
ExplicitLaid == IF Explicit THEN WithFile(SystemLaid, Content("explicit")) ELSE SystemLaid
ExplicitWarned ==
  SystemWarned \cup
    (IF Explicit THEN Tagged("explicit", FileWarnings(SystemLaid, Content("explicit"))) ELSE {})
LineLaid == ApplyLayer(ExplicitLaid, CliLayer(matches))
LineWarned ==
  ExplicitWarned \cup Tagged("command line", {} \cup LayerWarnings(ExplicitLaid, CliLayer(matches)))

Loaded == [settings |-> LineLaid, warned |-> LineWarned]

(* Lenient and strict loads go through the same stages of the same files,  *)
(* and what is in force is the last of them.                               *)
Staged ==
  /\ pc \in {"options", "system"} => candidate = Below /\ warned = {}
  /\ pc = "explicit" => candidate = SystemLaid /\ warned = SystemWarned
  /\ pc = "cli" => candidate = ExplicitLaid /\ warned = ExplicitWarned
  /\ live # None => live = Loaded

LoadInv ==
  /\ mode \in {"start", "check", "reload"}
  /\ pc = "options" => live = None /\ mode = "start"
  /\ pc # "options" => action # None
  /\ mode = "check" => action = "check"
  /\ edits # "made" =>
       /\ Staged
       /\ mode = "reload" \/ (pc = "done" /\ action = "run") => live = Loaded

(* What stands where when up to three layers are joined.                   *)
LEMMA Joined ==
  ASSUME NEW a, NEW upper, NEW lower, NEW b, NEW d,
         upper = <<>> \/ upper = <<b>>, lower = <<>> \/ lower = <<d>>
  PROVE  LET n == 1 + Len(upper) + Len(lower)
             layers == <<a>> \o upper \o lower
         IN /\ n \in 1..3 /\ DOMAIN layers = 1..n
            /\ layers[1] = a
            /\ upper = <<b>> => layers[2] = b
            /\ lower = <<d>> => layers[n] = d
<1> DEFINE S == {a, b, d}
           both == <<a>> \o upper
           layers == both \o lower
<1>1. /\ upper \in Seq(S) /\ lower \in Seq(S) /\ <<a>> \in Seq(S)
      /\ Len(<<a>>) = 1 /\ <<a>>[1] = a
      /\ Len(upper) \in 0..1 /\ (upper = <<b>> => Len(upper) = 1 /\ upper[1] = b)
      /\ Len(lower) \in 0..1 /\ (lower = <<d>> => Len(lower) = 1 /\ lower[1] = d)
  <2>1. /\ <<>> \in Seq(S) /\ <<a>> \in Seq(S) /\ <<b>> \in Seq(S) /\ <<d>> \in Seq(S)
        /\ Len(<<>>) = 0 /\ Len(<<a>>) = 1 /\ Len(<<b>>) = 1 /\ Len(<<d>>) = 1
        /\ <<a>>[1] = a /\ <<b>>[1] = b /\ <<d>>[1] = d
    OBVIOUS
  <2>2. upper \in Seq(S) /\ Len(upper) \in 0..1
    <3>1. CASE upper = <<>>
      BY <2>1, <3>1
    <3>2. CASE upper = <<b>>
      BY <2>1, <3>2
    <3> QED BY <3>1, <3>2
  <2>3. lower \in Seq(S) /\ Len(lower) \in 0..1
    <3>1. CASE lower = <<>>
      BY <2>1, <3>1
    <3>2. CASE lower = <<d>>
      BY <2>1, <3>2
    <3> QED BY <3>1, <3>2
  <2> QED BY <2>1, <2>2, <2>3
<1>2. /\ both \in Seq(S) /\ Len(both) = 1 + Len(upper) /\ both[1] = a
      /\ upper = <<b>> => both[2] = b
  BY <1>1
<1> HIDE DEF both
<1>3. /\ layers \in Seq(S) /\ Len(layers) = Len(both) + Len(lower)
      /\ \A i \in 1..Len(both) : layers[i] = both[i]
      /\ lower = <<d>> => layers[Len(both) + 1] = d
  BY <1>1, <1>2
<1>4. DOMAIN layers = 1..Len(layers)
  BY <1>3
<1> HIDE DEF layers
<1>5. /\ 1 + Len(upper) + Len(lower) \in 1..3
      /\ DOMAIN layers = 1..(1 + Len(upper) + Len(lower))
  <2>1. Len(layers) = 1 + Len(upper) + Len(lower)
    BY <1>2, <1>3
  <2>2. 1 + Len(upper) + Len(lower) \in 1..3
    <3>1. Len(upper) \in 0..1 /\ Len(lower) \in 0..1
      BY <1>1
    <3>2. \A x, y \in 0..1 : 1 + x + y \in 1..3
      OBVIOUS
    <3> QED BY <3>1, <3>2
  <2> QED BY <1>4, <2>1, <2>2
<1>6. layers[1] = a /\ (upper = <<b>> => layers[2] = b)
  BY <1>1, <1>2, <1>3
<1>7. lower = <<d>> => layers[1 + Len(upper) + Len(lower)] = d
  BY <1>1, <1>2, <1>3
<1> QED BY <1>5, <1>6, <1>7 DEF layers, both

(* The settings that a whole load gives, field by field.                   *)
LEMMA LoadedIsHighest ==
  ASSUME edits # "made", live = Loaded
  PROVE  HighestValidWins
<1> DEFINE cli == CliLayer(matches)
           explicit == TomlLayer(Content("explicit").toml)
           system == TomlLayer(Content("system").toml)
           GivesExplicit == Explicit /\ Content("explicit").kind = "toml"
           GivesSystem == Content("system").kind = "toml"
           FromSystem(f) == IF GivesSystem THEN Laid(system, f, Below[f]) ELSE Below[f]
           FromExplicit(f) == IF GivesExplicit THEN Laid(explicit, f, FromSystem(f)) ELSE FromSystem(f)
           ColorSystem(c) == IF GivesSystem THEN LaidColor(system, c, <<"unset">>) ELSE <<"unset">>
           ColorExplicit(c) == IF GivesExplicit THEN LaidColor(explicit, c, ColorSystem(c)) ELSE ColorSystem(c)
<1>1. live.settings = LineLaid /\ live.warned = LineWarned
  BY DEF Loaded
<1>2. /\ Whole(Below) /\ "theme" \in DOMAIN Below /\ Below.uid_defaults = UidDefaults
      /\ Below.theme = [c \in Components |-> <<"unset">>]
  BY DEF Below, Defaults, Whole, Needed, Related
<1> HIDE DEF explicit, system, cli
<1>3. /\ DOMAIN SystemLaid = DOMAIN Below /\ SystemLaid.uid_defaults = UidDefaults
      /\ DOMAIN SystemLaid.theme = Components
      /\ \A c \in Components : SystemLaid.theme[c] = ColorSystem(c)
      /\ \A f \in DOMAIN Below \ {"theme", "uid_defaults"} :
           (\A w \in SystemWarned : Kept(f, {w[2]})) => SystemLaid[f] = FromSystem(f)
  <2>1. CASE GivesSystem
    <3>1. SystemLaid = ApplyLayer(Below, system)
      BY <2>1 DEF SystemLaid, WithFile, system
    <3>2. /\ DOMAIN SystemLaid = DOMAIN Below
          /\ SystemLaid.uid_defaults = Below.uid_defaults
          /\ SystemLaid.theme = [c \in DOMAIN Below.theme |-> Over(system.theme, c, Below.theme)]
          /\ \A f \in DOMAIN Below \ {"theme", "uid_defaults"} :
               Kept(f, LayerWarnings(Below, system)) => SystemLaid[f] = Laid(system, f, Below[f])
      BY <1>2, <3>1, LayerLaid
    <3>3. \A w \in LayerWarnings(Below, system) : <<"system", w>> \in SystemWarned
      BY <2>1 DEF SystemWarned, FileWarnings, Tagged, system
    <3>4. ASSUME NEW f, \A w \in SystemWarned : Kept(f, {w[2]})
          PROVE  Kept(f, LayerWarnings(Below, system))
      <4>1. \A w : <<"system", w>>[2] = w
        OBVIOUS
      <4> QED BY <3>3, <3>4, <4>1 DEF Kept
    <3> QED BY <1>2, <2>1, <3>2, <3>4 DEF Over, LaidColor
  <2>2. CASE ~GivesSystem
    <3>1. SystemLaid = Below
      BY <2>2 DEF SystemLaid, WithFile
    <3> QED BY <1>2, <2>2, <3>1
  <2> QED BY <2>1, <2>2
<1>4. /\ DOMAIN ExplicitLaid = DOMAIN Below /\ ExplicitLaid.uid_defaults = UidDefaults
      /\ DOMAIN ExplicitLaid.theme = Components
      /\ \A c \in Components : ExplicitLaid.theme[c] = ColorExplicit(c)
      /\ \A f \in DOMAIN Below \ {"theme", "uid_defaults"} :
           (\A w \in ExplicitWarned : Kept(f, {w[2]})) => ExplicitLaid[f] = FromExplicit(f)
  <2>1. CASE GivesExplicit
    <3>1. ExplicitLaid = ApplyLayer(SystemLaid, explicit)
      BY <2>1 DEF ExplicitLaid, WithFile, explicit
    <3>2. /\ DOMAIN ExplicitLaid = DOMAIN SystemLaid
          /\ ExplicitLaid.uid_defaults = SystemLaid.uid_defaults
          /\ ExplicitLaid.theme =
               [c \in DOMAIN SystemLaid.theme |-> Over(explicit.theme, c, SystemLaid.theme)]
          /\ \A f \in DOMAIN SystemLaid \ {"theme", "uid_defaults"} :
               Kept(f, LayerWarnings(SystemLaid, explicit)) =>
                 ExplicitLaid[f] = Laid(explicit, f, SystemLaid[f])
      <4>1. Whole(SystemLaid)
        BY <1>2, <1>3 DEF Whole
      <4> QED BY <3>1, <4>1, LayerLaid
    <3>3. /\ \A w \in LayerWarnings(SystemLaid, explicit) : <<"explicit", w>> \in ExplicitWarned
          /\ SystemWarned \subseteq ExplicitWarned
      BY <2>1 DEF ExplicitWarned, FileWarnings, Tagged, explicit
    <3>4. ASSUME NEW f, \A w \in ExplicitWarned : Kept(f, {w[2]})
          PROVE  /\ Kept(f, LayerWarnings(SystemLaid, explicit))
                 /\ \A w \in SystemWarned : Kept(f, {w[2]})
      <4>1. \A w : <<"explicit", w>>[2] = w
        OBVIOUS
      <4> QED BY <3>3, <3>4, <4>1 DEF Kept
    <3> HIDE DEF FromSystem, ColorSystem
    <3> QED BY <1>3, <2>1, <3>2, <3>4 DEF Over, LaidColor
  <2>2. CASE ~GivesExplicit
    <3>1. ExplicitLaid = SystemLaid /\ SystemWarned \subseteq ExplicitWarned
      BY <2>2 DEF ExplicitLaid, WithFile, ExplicitWarned
    <3> HIDE DEF FromSystem, ColorSystem
    <3> QED BY <1>3, <2>2, <3>1
  <2> QED BY <2>1, <2>2
<1> HIDE DEF FromExplicit, ColorExplicit
<1>5. /\ DOMAIN LineLaid = DOMAIN Below /\ LineLaid.uid_defaults = UidDefaults
      /\ \A c \in Components : LineLaid.theme[c] = LaidColor(cli, c, ColorExplicit(c))
      /\ \A f \in DOMAIN Below \ {"theme", "uid_defaults"} :
           (\A w \in LineWarned : Kept(f, {w[2]})) => LineLaid[f] = Laid(cli, f, FromExplicit(f))
  <2>1. LineLaid = ApplyLayer(ExplicitLaid, cli)
    BY DEF LineLaid, cli
  <2>2. /\ DOMAIN LineLaid = DOMAIN ExplicitLaid
        /\ LineLaid.uid_defaults = ExplicitLaid.uid_defaults
        /\ LineLaid.theme =
             [c \in DOMAIN ExplicitLaid.theme |-> Over(cli.theme, c, ExplicitLaid.theme)]
        /\ \A f \in DOMAIN ExplicitLaid \ {"theme", "uid_defaults"} :
             Kept(f, LayerWarnings(ExplicitLaid, cli)) =>
               LineLaid[f] = Laid(cli, f, ExplicitLaid[f])
    <3>1. Whole(ExplicitLaid)
      BY <1>2, <1>4 DEF Whole
    <3> QED BY <2>1, <3>1, LayerLaid
  <2>3. /\ \A w \in LayerWarnings(ExplicitLaid, cli) : <<"command line", w>> \in LineWarned
        /\ ExplicitWarned \subseteq LineWarned
    BY DEF LineWarned, Tagged, cli
  <2>4. ASSUME NEW f, \A w \in LineWarned : Kept(f, {w[2]})
        PROVE  /\ Kept(f, LayerWarnings(ExplicitLaid, cli))
               /\ \A w \in ExplicitWarned : Kept(f, {w[2]})
    <3>1. \A w : <<"command line", w>>[2] = w
      OBVIOUS
    <3> QED BY <2>3, <2>4, <3>1 DEF Kept
  <2> QED BY <1>4, <2>2, <2>4 DEF Over, LaidColor
<1> DEFINE Upper == IF GivesExplicit THEN <<explicit>> ELSE <<>>
           Lower == IF GivesSystem THEN <<system>> ELSE <<>>
<1>6. LayersNow = <<cli>> \o Upper \o Lower
  BY DEF LayersNow, Explicit, cli, explicit, system
<1> DEFINE n == 1 + Len(Upper) + Len(Lower)
<1>a. /\ n \in 1..3 /\ DOMAIN LayersNow = 1..n /\ LayersNow[1] = cli
      /\ GivesExplicit => LayersNow[2] = explicit
      /\ GivesSystem => LayersNow[n] = system
  BY <1>6, Joined
<1>b. n = IF GivesExplicit /\ GivesSystem THEN 3 ELSE IF GivesExplicit \/ GivesSystem THEN 2 ELSE 1
  OBVIOUS
<1> HIDE DEF n
<1>7. \A f : Prevailing(LayersNow, f) = Laid(cli, f, FromExplicit(f))
  <2> TAKE f
  <2> DEFINE base == Defaults(UidDefaults)[f]
  <2>1. Prevailing(LayersNow, f) =
          Laid(cli, f, IF n = 1 THEN base
                       ELSE Laid(LayersNow[2], f, IF n = 2 THEN base
                                                  ELSE Laid(LayersNow[3], f, base)))
    BY <1>a, Prevails
  <2>2. FromExplicit(f) =
          IF GivesExplicit THEN Laid(explicit, f, IF GivesSystem THEN Laid(system, f, base) ELSE base)
          ELSE IF GivesSystem THEN Laid(system, f, base) ELSE base
    BY DEF FromExplicit, Below
  <2> HIDE DEF base
  <2> QED BY <1>a, <1>b, <2>1, <2>2
<1>8. \A c : PrevailingColor(LayersNow, c) = LaidColor(cli, c, ColorExplicit(c))
  <2> TAKE c
  <2> DEFINE base == <<"unset">>
  <2>1. PrevailingColor(LayersNow, c) =
          LaidColor(cli, c, IF n = 1 THEN base
                            ELSE LaidColor(LayersNow[2], c, IF n = 2 THEN base
                                                            ELSE LaidColor(LayersNow[3], c, base)))
    BY <1>a, ColorPrevails
  <2>2. ColorExplicit(c) =
          IF GivesExplicit
          THEN LaidColor(explicit, c, IF GivesSystem THEN LaidColor(system, c, base) ELSE base)
          ELSE IF GivesSystem THEN LaidColor(system, c, base) ELSE base
    BY DEF ColorExplicit
  <2> HIDE DEF base
  <2> QED BY <1>a, <1>b, <2>1, <2>2
<1>9. ASSUME NEW f, f \notin Disputed PROVE \A w \in LineWarned : Kept(f, {w[2]})
  BY <1>1, <1>9 DEF Disputed, Kept, UidFields, SessionFields, KeyFields
<1> QED BY <1>1, <1>5, <1>7, <1>8, <1>9 DEF HighestValidWins

(* How a file comes in, in both ways of loading.                           *)
LEMMA FileLaid ==
  ASSUME NEW name, NEW file, NEW next, LoadRequired(name, file, next)
  PROVE  LET laid == /\ candidate' = WithFile(candidate, file)
                     /\ warned' = warned \cup Tagged(name, FileWarnings(candidate, file))
         IN \/ laid /\ pc' = next
            \/ /\ mode # "start" /\ file.kind # "toml"
               /\ pc' = "done" /\ outcome' = "rejected"
               /\ "file" \in FileWarnings(candidate, file)
<1>1. CASE file.kind \in Unreadable \cup {"absent", "unreachable"}
  BY <1>1 DEF LoadRequired, FailFile, Warn, WithFile, FileWarnings, Tagged, Unreadable
<1>2. CASE file.kind = "malformed"
  BY <1>2 DEF LoadRequired, FailFile, Warn, WithFile, FileWarnings, Tagged, Unreadable
<1>3. CASE file.kind = "toml"
  BY <1>3 DEF LoadRequired, Lay, Warn, WithFile, FileWarnings, Tagged, Unreadable
<1> QED BY <1>1, <1>2, <1>3 DEF LoadRequired

(* The files, the line and login.defs give the same settings as before.    *)
LEMMA SameLoaded ==
  ASSUME files' = files, same' = same, matches' = matches, defs' = defs
  PROVE  /\ Below' = Below /\ SystemLaid' = SystemLaid /\ SystemWarned' = SystemWarned
         /\ ExplicitLaid' = ExplicitLaid /\ ExplicitWarned' = ExplicitWarned
         /\ LineLaid' = LineLaid /\ LineWarned' = LineWarned /\ Loaded' = Loaded
<1>1. Below' = Below
  BY DEF Below, UidDefaults
<1>2. \A path : Content(path)' = Content(path)
  BY DEF Content
<1>3. Explicit' <=> Explicit
  BY DEF Explicit
<1>4. SystemLaid' = SystemLaid /\ SystemWarned' = SystemWarned
  BY <1>1, <1>2 DEF SystemLaid, SystemWarned
<1>5. ExplicitLaid' = ExplicitLaid /\ ExplicitWarned' = ExplicitWarned
  BY <1>2, <1>3, <1>4 DEF ExplicitLaid, ExplicitWarned
<1>6. LineLaid' = LineLaid /\ LineWarned' = LineWarned
  BY <1>5 DEF LineLaid, LineWarned
<1> QED BY <1>1, <1>4, <1>5, <1>6 DEF Loaded


(* A reload that ends has loaded what the start loaded, or says which file *)
(* it was rejected for.                                                    *)
ReloadAgrees ==
  (edits # "made" /\ mode = "reload" /\ pc # "done" /\ pc' = "done") =>
    /\ live' = live
    /\ outcome' = "rejected" => \E w \in live.warned : w[2] = "file"

(* A stage of a load, on top of the one before it.                         *)
LEMMA LoadKeepsStages ==
  ASSUME LoadInv, Load, action' = action
  PROVE  LoadInv' /\ ReloadAgrees
<1>1. /\ files' = files /\ same' = same /\ matches' = matches /\ defs' = defs
      /\ edits' = edits /\ mode' = mode
      /\ pc \in {"system", "explicit", "cli"} /\ pc' \in {"explicit", "cli", "done"}
  BY DEF Load, LoadSystem, SkipExplicit, LoadExplicit, ApplyCommandLine, environment,
         LoadRequired, FailFile
<1>2. /\ Below' = Below /\ SystemLaid' = SystemLaid /\ SystemWarned' = SystemWarned
      /\ ExplicitLaid' = ExplicitLaid /\ ExplicitWarned' = ExplicitWarned
      /\ LineLaid' = LineLaid /\ LineWarned' = LineWarned /\ Loaded' = Loaded
  BY <1>1, SameLoaded
<1>3. /\ mode' \in {"start", "check", "reload"}
      /\ pc' = "options" => live' = None /\ mode' = "start"
      /\ pc' # "options" => action' # None
      /\ mode' = "check" => action' = "check"
  BY <1>1 DEF LoadInv
<1>4. CASE edits = "made"
  BY <1>1, <1>3, <1>4 DEF LoadInv, ReloadAgrees
<1>5. CASE edits # "made"
  <2>1. Staged /\ (mode = "reload" \/ (pc = "done" /\ action = "run") => live = Loaded)
    BY <1>5 DEF LoadInv
  (* A file that a strict load is rejected for. *)
  <2>2. ASSUME mode # "start", pc' = "done", live' = live, \E w \in LineWarned : w[2] = "file"
        PROVE  LoadInv' /\ ReloadAgrees
    <3>1. Staged'
      BY <1>2, <2>1, <2>2 DEF Staged
    <3>2. mode = "reload" => live = Loaded /\ live.warned = LineWarned
      BY <2>1 DEF Loaded
    <3>3. ReloadAgrees
      BY <2>2, <3>2 DEF ReloadAgrees
    <3>4. mode' = "reload" \/ (pc' = "done" /\ action' = "run") => live' = Loaded'
      BY <1>1, <1>2, <2>1, <2>2 DEF LoadInv
    <3> QED BY <1>3, <3>1, <3>3, <3>4 DEF LoadInv
  (* A stage that is not the last one. *)
  <2>3. ASSUME pc' # "done", live' = live, Staged' PROVE LoadInv' /\ ReloadAgrees
    BY <1>1, <1>2, <1>3, <2>1, <2>3 DEF LoadInv, ReloadAgrees
  <2>4. CASE LoadSystem
    <3> DEFINE file == Content("system")
    <3>1. pc = "system" /\ live' = live
      BY <2>4 DEF LoadSystem
    <3>2. candidate = Below /\ warned = {}
      BY <2>1, <3>1 DEF Staged
    <3>3. CASE file.kind = "absent" /\ pc' = "explicit" /\ UNCHANGED <<candidate, warned>>
      <4>1. candidate' = SystemLaid /\ warned' = SystemWarned
        BY <3>2, <3>3 DEF SystemLaid, WithFile, SystemWarned
      <4>2. Staged'
        BY <1>2, <2>1, <3>1, <3>3, <4>1 DEF Staged
      <4> QED BY <2>3, <3>1, <3>3, <4>2
    <3>4. CASE file.kind # "absent" /\ LoadRequired("system", file, "explicit")
      <4>1. CASE /\ candidate' = WithFile(candidate, file)
                 /\ warned' = warned \cup Tagged("system", FileWarnings(candidate, file))
                 /\ pc' = "explicit"
        <5>1. candidate' = SystemLaid /\ warned' = SystemWarned
          BY <3>2, <3>4, <4>1 DEF SystemLaid, SystemWarned
        <5>2. Staged'
          BY <1>2, <2>1, <3>1, <4>1, <5>1 DEF Staged
        <5> QED BY <2>3, <3>1, <4>1, <5>2
      <4>2. CASE /\ mode # "start" /\ pc' = "done"
                 /\ "file" \in FileWarnings(candidate, file)
        <5>1. <<"system", "file">> \in SystemWarned
          BY <3>2, <3>4, <4>2 DEF SystemWarned, Tagged
        <5>2. <<"system", "file">> \in LineWarned /\ <<"system", "file">>[2] = "file"
          BY <5>1 DEF LineWarned, ExplicitWarned
        <5> QED BY <2>2, <3>1, <4>2, <5>2
      <4> QED BY <3>4, <4>1, <4>2, FileLaid
    <3> QED BY <2>4, <3>3, <3>4 DEF LoadSystem
  <2>5. CASE SkipExplicit
    <3>1. /\ pc = "explicit" /\ live' = live /\ pc' = "cli" /\ ~Explicit
          /\ candidate' = candidate /\ warned' = warned
      BY <2>5 DEF SkipExplicit, Explicit
    <3>2. candidate' = ExplicitLaid /\ warned' = ExplicitWarned
      BY <2>1, <3>1 DEF Staged, ExplicitLaid, ExplicitWarned
    <3>3. Staged'
      BY <1>2, <2>1, <3>1, <3>2 DEF Staged
    <3> QED BY <2>3, <3>1, <3>3
  <2>6. CASE LoadExplicit
    <3> DEFINE file == Content("explicit")
    <3>1. pc = "explicit" /\ live' = live /\ Explicit /\ LoadRequired("explicit", file, "cli")
      BY <2>6 DEF LoadExplicit, Explicit
    <3>2. candidate = SystemLaid /\ warned = SystemWarned
      BY <2>1, <3>1 DEF Staged
    <3>3. CASE /\ candidate' = WithFile(candidate, file)
               /\ warned' = warned \cup Tagged("explicit", FileWarnings(candidate, file))
               /\ pc' = "cli"
      <4>1. candidate' = ExplicitLaid /\ warned' = ExplicitWarned
        BY <3>1, <3>2, <3>3 DEF ExplicitLaid, ExplicitWarned
      <4>2. Staged'
        BY <1>2, <2>1, <3>1, <3>3, <4>1 DEF Staged
      <4> QED BY <2>3, <3>1, <3>3, <4>2
    <3>4. CASE /\ mode # "start" /\ pc' = "done"
               /\ "file" \in FileWarnings(candidate, file)
      <4>1. <<"explicit", "file">> \in ExplicitWarned
        BY <3>1, <3>2, <3>4 DEF ExplicitWarned, Tagged
      <4>2. <<"explicit", "file">> \in LineWarned /\ <<"explicit", "file">>[2] = "file"
        BY <4>1 DEF LineWarned
      <4> QED BY <2>2, <3>1, <3>4, <4>2
    <3> QED BY <3>1, <3>3, <3>4, FileLaid
  <2>7. CASE ApplyCommandLine
    <3>1. /\ pc = "cli" /\ pc' = "done" /\ outcome' = "taken"
          /\ candidate' = ApplyLayer(candidate, CliLayer(matches))
          /\ warned' = warned \cup
               Tagged("command line", {} \cup LayerWarnings(candidate, CliLayer(matches)))
          /\ live' = [settings |-> candidate', warned |-> warned']
      BY <2>7 DEF ApplyCommandLine, Lay, Warn, Tagged
    <3>2. candidate' = LineLaid /\ warned' = LineWarned
      BY <2>1, <3>1 DEF Staged, LineLaid, LineWarned
    <3>3. live' = Loaded
      BY <3>1, <3>2 DEF Loaded
    <3>4. Staged'
      BY <1>2, <3>1, <3>3 DEF Staged
    <3>5. ReloadAgrees
      BY <2>1, <3>1, <3>3 DEF ReloadAgrees
    <3> QED BY <1>2, <1>3, <3>3, <3>4, <3>5 DEF LoadInv
  <2> QED BY <2>4, <2>5, <2>6, <2>7 DEF Load
<1> QED BY <1>4, <1>5

(* Every step of the process keeps the stages.                             *)
LEMMA StepLoads == LoadInv /\ [Next]_vars => LoadInv' /\ ReloadAgrees
<1> SUFFICES ASSUME LoadInv, [Next]_vars PROVE LoadInv' /\ ReloadAgrees
  OBVIOUS
(* What is in force and what it is made of stay the same. *)
<1>1. ASSUME files' = files, same' = same, matches' = matches, defs' = defs, edits' = edits,
             live' = live
      PROVE  /\ Loaded' = Loaded /\ Below' = Below
             /\ pc' = pc /\ candidate' = candidate /\ warned' = warned => Staged' = Staged
  <2>1. /\ Below' = Below /\ SystemLaid' = SystemLaid /\ SystemWarned' = SystemWarned
        /\ ExplicitLaid' = ExplicitLaid /\ ExplicitWarned' = ExplicitWarned
        /\ LineLaid' = LineLaid /\ LineWarned' = LineWarned /\ Loaded' = Loaded
    BY <1>1, SameLoaded
  <2> QED BY <1>1, <2>1 DEF Staged
<1>2. CASE ReadLine
  <2>1. action = None /\ UNCHANGED configVars
    BY <1>2 DEF ReadLine, Line!OptionsNext, Line!IgnoreArgument, Line!EndOptions, Line!LongOption,
                Line!EnterCluster, Line!LeaveCluster, Line!ClusterLetter, Line!Decide,
                Line!AtArgument, Line!AtLetter
  <2>2. /\ files' = files /\ same' = same /\ matches' = matches /\ defs' = defs
        /\ edits' = edits /\ live' = live /\ pc' = pc /\ mode' = mode
        /\ candidate' = candidate /\ warned' = warned
    BY <2>1 DEF configVars
  <2>3. pc = "options" /\ mode = "start"
    BY <2>1 DEF LoadInv
  <2>4. Staged' <=> Staged
    BY <1>1, <2>2
  <2> QED BY <2>2, <2>3, <2>4 DEF LoadInv, ReloadAgrees
<1>3. CASE Begin
  <2>1. /\ pc = "options" /\ action # None /\ action' = action /\ edits' = edits
        /\ candidate' = candidate /\ warned' = warned /\ live' = live /\ defs' = defs
        /\ pc' \in {"left", "system"}
        /\ mode' = mode \/ mode' = IF action = "check" THEN "check" ELSE "start"
    BY <1>3 DEF Begin, lineVars
  <2>2. live' = None /\ mode = "start"
    BY <2>1 DEF LoadInv
  <2>3. Below' = Below
    BY <2>1 DEF Below, UidDefaults
  <2>4. edits # "made" => Staged'
    BY <2>1, <2>2, <2>3 DEF LoadInv, Staged
  <2>5. mode' \in {"start", "check"} /\ (mode' = "check" => action' = "check")
    BY <2>1, <2>2
  <2> QED BY <2>1, <2>2, <2>4, <2>5 DEF LoadInv, ReloadAgrees
<1>4. CASE LoadSettings
  <2>1. Load /\ action' = action
    BY <1>4 DEF LoadSettings, lineVars
  <2> QED BY <2>1, LoadKeepsStages
<1>5. CASE EditAFile
  <2>1. /\ edits' = "made" /\ edits # "made" /\ pc' = pc /\ mode' = mode /\ action' = action
        /\ live' = live
    BY <1>5 DEF EditAFile, EditFile, lineVars
  <2> QED BY <2>1 DEF LoadInv, ReloadAgrees
<1>6. CASE ReloadSettings
  <2>1. /\ files' = files /\ same' = same /\ matches' = matches /\ defs' = defs
        /\ edits' = edits /\ live' = live /\ action' = action /\ action = "run"
        /\ pc = "done" /\ pc' = "system" /\ mode' = "reload"
        /\ candidate' = Below /\ warned' = {}
    BY <1>6 DEF ReloadSettings, Reload, environment, lineVars, Below
  <2>2. edits # "made" => live = Loaded
    BY <2>1 DEF LoadInv
  <2>3. Loaded' = Loaded /\ Below' = Below
    BY <1>1, <2>1
  <2>4. edits # "made" => Staged'
    BY <2>1, <2>2, <2>3 DEF Staged
  <2>5. action # None
    BY <2>1 DEF LoadInv
  <2> QED BY <2>1, <2>2, <2>3, <2>4, <2>5 DEF LoadInv, ReloadAgrees
<1>7. CASE FinishCheck
  <2>1. /\ files' = files /\ same' = same /\ matches' = matches /\ defs' = defs
        /\ edits' = edits /\ live' = live /\ action' = action /\ action = "check"
        /\ pc = "done" /\ pc' = "left" /\ mode' = mode
    BY <1>7 DEF FinishCheck, lineVars
  <2>2. Loaded' = Loaded
    BY <1>1, <2>1
  <2>3. edits # "made" => Staged'
    BY <2>1, <2>2 DEF Staged, LoadInv
  <2> QED BY <2>1, <2>2, <2>3 DEF LoadInv, ReloadAgrees
<1>8. CASE UNCHANGED vars
  <2>1. /\ files' = files /\ same' = same /\ matches' = matches /\ defs' = defs
        /\ edits' = edits /\ live' = live /\ pc' = pc /\ mode' = mode
        /\ candidate' = candidate /\ warned' = warned /\ action' = action
    BY <1>8 DEF vars, configVars, lineVars
  <2>2. (Staged' <=> Staged) /\ Loaded' = Loaded
    BY <1>1, <2>1
  <2> QED BY <2>1, <2>2 DEF LoadInv, ReloadAgrees
<1> QED
  BY <1>2, <1>3, <1>4, <1>5, <1>6, <1>7, <1>8 DEF Next

(* Nothing is loaded before the line is read.                              *)
LEMMA InitLoads == Init => LoadInv
<1> SUFFICES ASSUME Init PROVE LoadInv
  OBVIOUS
<1>1. /\ candidate = Below /\ warned = {} /\ pc = "options" /\ mode = "start" /\ live = None
  BY DEF Init, Fresh, Below
<1>2. Staged
  BY <1>1 DEF Staged
<1> QED BY <1>1, <1>2 DEF LoadInv

(* As long as nobody edits the files, every setting in force is that of    *)
(* the highest layer that gives a valid value, for all files, lines and    *)
(* login.defs (load_paths_core, reload_paths_core).                        *)
THEOREM HighestLayerWins == Spec => []HighestValidWins
<1>1. LoadInv => HighestValidWins
  <2> SUFFICES ASSUME LoadInv PROVE HighestValidWins
    OBVIOUS
  <2>1. CASE edits # "made" /\ live # None
    BY <2>1, LoadedIsHighest DEF LoadInv, Staged
  <2>2. CASE ~(edits # "made" /\ live # None)
    BY <2>2 DEF HighestValidWins
  <2> QED BY <2>1, <2>2
<1>2. LoadInv /\ [Next]_vars => LoadInv'
  BY StepLoads
<1> QED BY <1>1, <1>2, InitLoads, PTL DEF Spec

(* A reload of files that nobody edited changes nothing, or is rejected    *)
(* for a file that the start warned of, for all files and lines.           *)
THEOREM ReloadsAgree == Spec => ReloadAgreesWithStart
<1>1. LoadInv /\ [Next]_vars => LoadInv'
  BY StepLoads
<1>2. LoadInv /\ [Next]_vars => [ReloadAgrees]_configVars
  BY StepLoads
<1>3. Spec => [][ReloadAgrees]_configVars
  BY <1>1, <1>2, InitLoads, PTL DEF Spec
<1> QED BY <1>3 DEF ReloadAgreesWithStart, ReloadAgrees

-----------------------------------------------------------------------------
(* Who can put another entry in the place of one: the owner of its         *)
(* directory, whoever may write the directory unless the sticky bit        *)
(* reserves that to the owners, and the owner of the entry if it does.     *)
OthersReplace(parent, entry) ==
  ~parent.root \/ (parent.open /\ (parent.sticky => ~entry.link_root))

(* A file without a warning about its paths is one that only root can      *)
(* replace, at every component of every way to it: the sticky directories  *)
(* that the check lets pass are exactly those whose entries it has looked  *)
(* at (warn_config_path_trust, directory_trust_message).                   *)
THEOREM UnwarnedPathsAreRoots ==
  ASSUME NEW file, "path" \notin TrustWarnings(file),
         NEW way \in file.ways, NEW i \in 1..(Len(way) - 1)
  PROVE  ~OthersReplace(way[i], way[i + 1])
<1>1. ~WayProblem(way)
  BY DEF TrustWarnings
<1>2. ~DirectoryProblem(way[i]) /\ ~EntryProblem(way[i], way[i + 1])
  BY <1>1 DEF WayProblem
<1> QED
  BY <1>2 DEF DirectoryProblem, EntryProblem, RootOwnedSticky, OthersReplace

-----------------------------------------------------------------------------
(* A set of natural numbers that has 0 and every successor is all of them: *)
(* the least number that is missing would have a predecessor.              *)
LEMMA Induction ==
  ASSUME NEW T, T \subseteq Nat, 0 \in T, \A n \in T : n + 1 \in T
  PROVE  T = Nat
<1> SUFFICES ASSUME Nat \ T # {} PROVE FALSE
  OBVIOUS
<1>1. PICK x \in Nat \ T : \A y \in Nat \ T : ~(<<y, x>> \in OpToRel(<, Nat))
  BY WFMin, NatLessThanWellFounded
<1>2. \A y \in Nat \ T : ~(y < x)
  BY <1>1 DEF OpToRel
<1>3. x - 1 \in T
  BY <1>2
<1> QED BY <1>3

(* A non-empty set of numbers up to n has a greatest one.                  *)
LEMMA MaxIs ==
  ASSUME NEW n \in Nat, NEW s \in SUBSET (1..n), s # {}
  PROVE  Max(s) \in s /\ \A x \in s : Max(s) >= x
<1> DEFINE T == {n - x : x \in s}
<1>1. T \subseteq Nat /\ T # {}
  <2>1. \A x \in s : n - x \in Nat
    OBVIOUS
  <2> QED BY <2>1
<1>2. PICK m \in T : \A y \in T : ~(<<y, m>> \in OpToRel(<, Nat))
  BY <1>1, WFMin, NatLessThanWellFounded
<1>3. \A y \in T : ~(y < m)
  BY <1>1, <1>2 DEF OpToRel
<1>4. PICK x \in s : m = n - x
  OBVIOUS
<1>5. \A y \in s : x >= y
  <2> TAKE y \in s
  <2>1. n - y \in T /\ ~(n - y < n - x)
    BY <1>3, <1>4
  <2> QED BY <2>1
<1> QED BY <1>5 DEF Max

(* What MapThenFoldSet asks of its recursive function, over 1..n.          *)
Iterates(g, n, base, step) ==
  \A s \in SUBSET (1..n) :
    g[s] = IF s = {} THEN base ELSE step[<<Max(s), g[s \ {Max(s)}]>>]

(* There is such a function: the CHOOSE under a fold finds one.            *)
LEMMA FoldExists ==
  ASSUME NEW n \in Nat, NEW V, NEW base \in V, NEW step \in [(1..n) \X V -> V]
  PROVE  \E g \in [SUBSET (1..n) -> V] : Iterates(g, n, base, step)
<1> DEFINE Folds(g, k) ==
             \A s \in SUBSET (1..k) :
               g[s] = IF s = {} THEN base ELSE step[<<Max(s), g[s \ {Max(s)}]>>]
           Good(k) == \E g \in [SUBSET (1..k) -> V] : Folds(g, k)
           T == {k \in Nat : k <= n => Good(k)}
<1>1. 0 \in T
  <2> DEFINE g == [s \in SUBSET (1..0) |-> base]
  <2>1. g \in [SUBSET (1..0) -> V] /\ Folds(g, 0)
    BY DEF Folds
  <2> QED BY <2>1
<1>2. ASSUME NEW k \in T PROVE k + 1 \in T
  <2> SUFFICES ASSUME k + 1 <= n PROVE Good(k + 1)
    <3> HIDE DEF Good
    <3> QED BY <1>2
  <2>0. k \in Nat /\ Good(k)
    <3> HIDE DEF Good
    <3> QED BY <1>2
  <2>1. PICK g \in [SUBSET (1..k) -> V] : Folds(g, k)
    BY <2>0
  <2> DEFINE h == [s \in SUBSET (1..(k + 1)) |->
                     IF k + 1 \in s THEN step[<<k + 1, g[s \ {k + 1}]>>] ELSE g[s]]
  <2>2. \A s \in SUBSET (1..(k + 1)) :
          s \ {k + 1} \in SUBSET (1..k) /\ (k + 1 \notin s => s \in SUBSET (1..k))
    BY <2>0
  <2>3. h \in [SUBSET (1..(k + 1)) -> V]
    <3>1. \A s \in SUBSET (1..(k + 1)) : g[s \ {k + 1}] \in V
      BY <2>1, <2>2
    <3>2. k + 1 \in 1..n
      BY <2>0
    <3>3. \A v \in V : step[<<k + 1, v>>] \in V
      BY <3>2
    <3> QED BY <2>1, <2>2, <3>1, <3>3
  <2>4. ASSUME NEW s \in SUBSET (1..(k + 1))
        PROVE  h[s] = IF s = {} THEN base ELSE step[<<Max(s), h[s \ {Max(s)}]>>]
    <3>1. CASE k + 1 \in s
      <4>1. Max(s) = k + 1
        <5>1. \A x \in s : k + 1 >= x
          BY <2>0
        <5>2. \A x \in s : (\A y \in s : x >= y) => x = k + 1
          BY <2>0, <3>1
        <5> QED BY <3>1, <5>1, <5>2 DEF Max
      <4>2. h[s \ {k + 1}] = g[s \ {k + 1}]
        BY <2>2
      <4> QED BY <3>1, <4>1, <4>2
    <3>2. CASE k + 1 \notin s
      <4>1. s \in SUBSET (1..k) /\ h[s] = g[s] /\ s \ {Max(s)} \in SUBSET (1..k)
        BY <3>2, <2>2
      <4>2. h[s \ {Max(s)}] = g[s \ {Max(s)}]
        BY <3>2, <2>2
      <4>3. g[s] = IF s = {} THEN base ELSE step[<<Max(s), g[s \ {Max(s)}]>>]
        BY <2>1, <4>1
      <4> QED BY <4>1, <4>2, <4>3
    <3> QED BY <3>1, <3>2
  <2> QED BY <2>3, <2>4
<1>3. T = Nat
  <2> HIDE DEF T
  <2>1. T \subseteq Nat
    BY DEF T
  <2> QED BY <1>1, <1>2, <2>1, Induction
<1> QED
  <2>1. n \in Nat /\ n <= n
    OBVIOUS
  <2>2. Good(n)
    <3> HIDE DEF Good
    <3> QED BY <1>3, <2>1
  <2> QED BY <2>2 DEF Iterates

(* The greatest of 1..k, and what is left without it.                      *)
LEMMA Interval ==
  ASSUME NEW k \in Nat, k # 0
  PROVE  Max(1..k) = k /\ (1..k) \ {k} = 1..(k - 1) /\ 1..k # {}
<1>1. \A x \in 1..k : (\A y \in 1..k : x >= y) => x = k
  OBVIOUS
<1> QED BY <1>1 DEF Max

(* What step does with a state of V and an element of C. *)
Automaton(step, V, C) == step \in [V \X C -> V]

(* The states that step goes through from base, one for every element.     *)
IsRun(p, step, base, seq) ==
  p[0] = base /\ \A k \in 1..Len(seq) : p[k] = step[<<p[k - 1], seq[k]>>]

(* The state it ends in. *)
Run(step, base, seq) == (CHOOSE p : IsRun(p, step, base, seq))[Len(seq)]

(* There is one run. *)
LEMMA RunIs ==
  ASSUME NEW C, NEW seq \in Seq(C), NEW step, NEW base, NEW p, IsRun(p, step, base, seq)
  PROVE  Run(step, base, seq) = p[Len(seq)]
<1> DEFINE q == CHOOSE r : IsRun(r, step, base, seq)
           T == {k \in Nat : k <= Len(seq) => q[k] = p[k]}
<1>1. IsRun(q, step, base, seq)
  OBVIOUS
<1> HIDE DEF q
<1>2. 0 \in T
  BY <1>1 DEF IsRun
<1>3. ASSUME NEW k \in T PROVE k + 1 \in T
  <2> SUFFICES ASSUME k + 1 <= Len(seq) PROVE q[k + 1] = p[k + 1]
    OBVIOUS
  <2>1. k + 1 \in 1..Len(seq) /\ (k + 1) - 1 = k /\ q[k] = p[k]
    OBVIOUS
  <2>2. q[k + 1] = step[<<q[k], seq[k + 1]>>]
    BY <1>1, <2>1 DEF IsRun
  <2>3. p[k + 1] = step[<<p[k], seq[k + 1]>>]
    BY <2>1 DEF IsRun
  <2> QED BY <2>1, <2>2, <2>3
<1>4. T = Nat
  <2> HIDE DEF T
  <2>1. T \subseteq Nat
    BY DEF T
  <2> QED BY <1>2, <1>3, <2>1, Induction
<1>5. Len(seq) \in T
  <2> HIDE DEF T
  <2> QED BY <1>4
<1>6. q[Len(seq)] = p[Len(seq)]
  BY <1>5
<1> QED BY <1>6 DEF Run, q

(* What a fold asks of its recursive function, if step is all it does.     *)
Unfolds(g, step, base, seq) ==
  \A s \in SUBSET (1..Len(seq)) :
    g[s] = IF s = {} THEN base ELSE step[<<g[s \ {Max(s)}], seq[Max(s)]>>]

LEMMA UnfoldExists ==
  ASSUME NEW V, NEW C, NEW step, Automaton(step, V, C), NEW base \in V, NEW seq \in Seq(C)
  PROVE  \E g \in [SUBSET (1..Len(seq)) -> V] : Unfolds(g, step, base, seq)
<1> DEFINE n == Len(seq)
           at == [q \in (1..n) \X V |-> step[<<q[2], seq[q[1]]>>]]
<1>1. n \in Nat /\ \A k \in 1..n : seq[k] \in C
  OBVIOUS
<1>2. at \in [(1..n) \X V -> V]
  BY <1>1 DEF Automaton
<1>3. \A k \in 1..n, v \in V : at[<<k, v>>] = step[<<v, seq[k]>>]
  OBVIOUS
<1> HIDE DEF at
<1>4. PICK g \in [SUBSET (1..n) -> V] : Iterates(g, n, base, at)
  BY <1>1, <1>2, FoldExists
<1>5. ASSUME NEW s \in SUBSET (1..n)
      PROVE  g[s] = IF s = {} THEN base ELSE step[<<g[s \ {Max(s)}], seq[Max(s)]>>]
  <2>1. CASE s # {}
    <3>1. Max(s) \in 1..n /\ g[s \ {Max(s)}] \in V
      BY <1>1, <2>1, MaxIs
    <3> QED BY <1>3, <1>4, <2>1, <3>1 DEF Iterates
  <2> QED BY <1>4, <2>1 DEF Iterates
<1> QED BY <1>5 DEF Unfolds

(* A function gives the run, prefix by prefix, if it does what step does   *)
(* as long as it has a value in V.                                         *)
Follows(h, V, step, base, seq) ==
  /\ h[{}] = base
  /\ \A s \in SUBSET (1..Len(seq)) :
       (s # {} /\ h[s \ {Max(s)}] \in V) => h[s] = step[<<h[s \ {Max(s)}], seq[Max(s)]>>]

LEMMA UnfoldRuns ==
  ASSUME NEW V, NEW C, NEW step, Automaton(step, V, C), NEW base \in V, NEW seq \in Seq(C),
         NEW h, Follows(h, V, step, base, seq)
  PROVE  h[1..Len(seq)] = Run(step, base, seq) /\ Run(step, base, seq) \in V
<1> DEFINE n == Len(seq)
           p == [k \in 0..n |-> h[1..k]]
           T == {k \in Nat : k <= n =>
                   h[1..k] \in V /\ (k # 0 => p[k] = step[<<p[k - 1], seq[k]>>])}
<1>1. n \in Nat /\ \A k \in 1..n : seq[k] \in C
  OBVIOUS
<1>2. h[1..0] = base
  <2>1. 1..0 = {}
    OBVIOUS
  <2> QED BY <2>1 DEF Follows
<1>3. 0 \in T
  BY <1>2
<1>4. ASSUME NEW k \in T PROVE k + 1 \in T
  <2> SUFFICES ASSUME k + 1 <= n
               PROVE  h[1..(k + 1)] \in V /\ p[k + 1] = step[<<p[k], seq[k + 1]>>]
    <3>1. (k + 1) - 1 = k /\ k + 1 \in Nat
      OBVIOUS
    <3> HIDE DEF p
    <3> QED BY <3>1
  <2>1. k \in Nat /\ k + 1 \in 1..n /\ (k + 1) - 1 = k /\ h[1..k] \in V /\ k + 1 # 0
    BY <1>1
  <2>2. /\ 1..(k + 1) \in SUBSET (1..n) /\ 1..(k + 1) # {}
        /\ Max(1..(k + 1)) = k + 1 /\ 1..(k + 1) \ {k + 1} = 1..k
    <3>1. k + 1 \in Nat /\ k + 1 # 0
      BY <2>1
    <3>2. 1..(k + 1) \in SUBSET (1..n)
      BY <1>1, <2>1
    <3> QED BY <2>1, <3>1, <3>2, Interval
  <2>3. h[1..(k + 1)] = step[<<h[1..k], seq[k + 1]>>]
    BY <2>1, <2>2 DEF Follows
  <2>4. h[1..(k + 1)] \in V
    BY <1>1, <2>1, <2>3 DEF Automaton
  <2>5. p[k + 1] = h[1..(k + 1)] /\ p[k] = h[1..k]
    BY <1>1, <2>1
  <2> QED BY <2>1, <2>3, <2>4, <2>5
<1>5. T = Nat
  <2>1. T \subseteq Nat
    OBVIOUS
  <2> HIDE DEF T
  <2> QED BY <1>3, <1>4, <2>1, Induction
<1>6. ASSUME NEW k \in 0..n PROVE h[1..k] \in V /\ (k # 0 => p[k] = step[<<p[k - 1], seq[k]>>])
  <2>1. k \in T /\ k <= n
    <3> HIDE DEF T
    <3> QED BY <1>1, <1>5
  <2> QED BY <2>1
<1>7. p[0] = base /\ p[n] = h[1..n]
  BY <1>1, <1>2
<1> HIDE DEF p, T
<1>8. IsRun(p, step, base, seq)
  <2>1. ASSUME NEW k \in 1..n PROVE p[k] = step[<<p[k - 1], seq[k]>>]
    <3>1. k \in 0..n /\ k # 0
      OBVIOUS
    <3> QED BY <1>6, <3>1
  <2> QED BY <1>7, <2>1 DEF IsRun
<1>9. h[1..n] \in V
  <2>1. n \in 0..n
    BY <1>1
  <2> QED BY <1>6, <2>1
<1>10. Run(step, base, seq) = p[n]
  BY <1>8, RunIs
<1> QED BY <1>7, <1>9, <1>10

LEMMA RunExists ==
  ASSUME NEW V, NEW C, NEW step, Automaton(step, V, C), NEW base \in V, NEW seq \in Seq(C)
  PROVE  \E p \in [0..Len(seq) -> V] : IsRun(p, step, base, seq)
<1> DEFINE n == Len(seq)
<1>1. PICK g \in [SUBSET (1..n) -> V] : Unfolds(g, step, base, seq)
  BY UnfoldExists
<1> DEFINE p == [k \in 0..n |-> g[1..k]]
<1>2. n \in Nat
  OBVIOUS
<1>3. p \in [0..n -> V]
  <2>1. \A k \in 0..n : 1..k \in SUBSET (1..n)
    BY <1>2
  <2> QED BY <2>1
<1>4. p[0] = base
  <2>1. 1..0 = {} /\ 1..0 \in SUBSET (1..n) /\ 0 \in 0..n
    BY <1>2
  <2> QED BY <1>1, <2>1 DEF Unfolds
<1>5. ASSUME NEW k \in 1..n PROVE p[k] = step[<<p[k - 1], seq[k]>>]
  <2>1. /\ 1..k \in SUBSET (1..n) /\ 1..k # {}
        /\ Max(1..k) = k /\ 1..k \ {k} = 1..(k - 1) /\ k \in 0..n /\ k - 1 \in 0..n
    <3>1. k \in Nat /\ k # 0 /\ k \in 0..n /\ k - 1 \in 0..n /\ 1..k \in SUBSET (1..n)
      BY <1>2
    <3> QED BY <3>1, Interval
  <2>2. p[k] = g[1..k] /\ p[k - 1] = g[1..(k - 1)]
    BY <2>1
  <2> HIDE DEF p
  <2> QED BY <1>1, <2>1, <2>2 DEF Unfolds
<1> HIDE DEF p
<1> QED BY <1>3, <1>4, <1>5 DEF IsRun

(* Where a run ends, and where it ends if it goes on. *)
LEMMA RunStays ==
  ASSUME NEW V, NEW C, NEW step, Automaton(step, V, C), NEW base \in V, NEW seq \in Seq(C)
  PROVE  Run(step, base, seq) \in V
<1>1. PICK p \in [0..Len(seq) -> V] : IsRun(p, step, base, seq)
  BY RunExists
<1>2. Len(seq) \in 0..Len(seq)
  OBVIOUS
<1> QED BY <1>1, <1>2, RunIs

LEMMA RunOfNothing ==
  ASSUME NEW V, NEW C, NEW step, Automaton(step, V, C), NEW base \in V
  PROVE  Run(step, base, <<>>) = base
<1> DEFINE empty == <<>>
<1>1. empty \in Seq(C) /\ Len(empty) = 0
  OBVIOUS
<1> HIDE DEF empty
<1>2. PICK p \in [0..Len(empty) -> V] : IsRun(p, step, base, empty)
  BY <1>1, RunExists
<1>3. Run(step, base, empty) = p[0]
  BY <1>1, <1>2, RunIs
<1> QED BY <1>2, <1>3 DEF IsRun, empty

LEMMA RunOfOne ==
  ASSUME NEW V, NEW C, NEW step, Automaton(step, V, C), NEW base \in V, NEW c \in C
  PROVE  Run(step, base, <<c>>) = step[<<base, c>>]
<1> DEFINE one == <<c>>
<1>1. one \in Seq(C) /\ Len(one) = 1 /\ one[1] = c
  OBVIOUS
<1> HIDE DEF one
<1>2. PICK p \in [0..Len(one) -> V] : IsRun(p, step, base, one)
  BY <1>1, RunExists
<1>3. Run(step, base, one) = p[1]
  BY <1>1, <1>2, RunIs
<1>4. p[0] = base /\ p[1] = step[<<p[0], one[1]>>]
  <2>1. 1 \in 1..Len(one) /\ 1 - 1 = 0
    BY <1>1
  <2> QED BY <1>2, <2>1 DEF IsRun
<1> QED BY <1>1, <1>3, <1>4 DEF one

LEMMA RunJoins ==
  ASSUME NEW V, NEW C, NEW step, Automaton(step, V, C), NEW base \in V, NEW a \in Seq(C), NEW b \in Seq(C)
  PROVE  Run(step, base, a \o b) = Run(step, Run(step, base, a), b)
<1> DEFINE n == Len(a)
           m == Len(b)
           c == a \o b
<1>1. PICK p \in [0..n -> V] : IsRun(p, step, base, a)
  BY RunExists
<1>2. n \in Nat /\ m \in Nat /\ p[n] \in V
  OBVIOUS
<1>3. PICK q \in [0..m -> V] : IsRun(q, step, p[n], b)
  BY <1>2, RunExists
<1>4. /\ c \in Seq(C) /\ Len(c) = n + m
      /\ \A k \in 1..n : c[k] = a[k]
      /\ \A k \in 1..m : c[n + k] = b[k]
  OBVIOUS
<1> DEFINE r == [k \in 0..(n + m) |-> IF k <= n THEN p[k] ELSE q[k - n]]
<1> HIDE DEF n, m, c
<1>5. /\ \A k \in 0..n : r[k] = p[k]
      /\ \A k \in 1..m : r[n + k] = q[k]
  <2>1. ASSUME NEW k \in 0..n PROVE r[k] = p[k]
    BY <1>2
  <2>2. ASSUME NEW k \in 1..m PROVE r[n + k] = q[k]
    <3>1. n + k \in 0..(n + m) /\ ~(n + k <= n) /\ (n + k) - n = k
      BY <1>2
    <3> QED BY <3>1
  <2> QED BY <2>1, <2>2
<1>6. q[0] = p[n] /\ r[n] = q[0]
  <2>1. n \in 0..n
    BY <1>2
  <2> QED BY <1>3, <1>5, <2>1 DEF IsRun
<1> HIDE DEF r
<1>7. IsRun(r, step, base, c)
  <2>1. r[0] = base
    <3>1. 0 \in 0..n
      BY <1>2
    <3> QED BY <1>1, <1>5, <3>1 DEF IsRun
  <2>2. ASSUME NEW k \in 1..Len(c) PROVE r[k] = step[<<r[k - 1], c[k]>>]
    <3>1. CASE k <= n
      <4>1. k \in 1..n /\ k \in 0..n /\ k - 1 \in 0..n
        BY <1>2, <3>1
      <4>2. p[k] = step[<<p[k - 1], a[k]>>]
        BY <1>1, <4>1 DEF IsRun, n
      <4> QED BY <1>4, <1>5, <4>1, <4>2
    <3>2. CASE ~(k <= n)
      <4> DEFINE j == k - n
      <4>1. j \in 1..m /\ k = n + j /\ k - 1 = n + (j - 1)
        BY <1>2, <1>4, <3>2
      <4> HIDE DEF j
      <4>2. q[j] = step[<<q[j - 1], b[j]>>]
        BY <1>3, <4>1 DEF IsRun, m
      <4>3. r[n + (j - 1)] = q[j - 1]
        <5>1. CASE j = 1
          <6>1. n + (j - 1) = n /\ j - 1 = 0
            BY <1>2, <5>1
          <6> QED BY <1>6, <6>1
        <5>2. CASE j # 1
          <6>1. j - 1 \in 1..m
            BY <1>2, <4>1, <5>2
          <6> QED BY <1>5, <6>1
        <5> QED BY <5>1, <5>2
      <4>4. r[n + j] = q[j] /\ c[n + j] = b[j]
        BY <1>4, <1>5, <4>1
      <4> QED BY <4>1, <4>2, <4>3, <4>4
    <3> QED BY <3>1, <3>2
  <2> QED BY <2>1, <2>2 DEF IsRun
<1>8. Run(step, base, c) = r[n + m]
  BY <1>4, <1>7, RunIs
<1>9. r[n + m] = q[m]
  <2>1. CASE m = 0
    <3>1. n + m = n
      BY <1>2, <2>1
    <3> QED BY <1>6, <2>1, <3>1
  <2>2. CASE m # 0
    <3>1. m \in 1..m
      BY <1>2, <2>2
    <3> QED BY <1>5, <3>1
  <2> QED BY <2>1, <2>2
<1>10. Run(step, base, a) = p[n] /\ Run(step, p[n], b) = q[m]
  BY <1>1, <1>3, RunIs DEF n, m
<1> QED BY <1>8, <1>9, <1>10 DEF c

(* A flattened sequence grows by one of its sequences at a time. *)
LEMMA FlattenIs ==
  ASSUME NEW S, NEW n \in Nat, NEW seqs \in [1..n -> Seq(S)]
  PROVE  \E p \in [0..n -> Seq(S)] :
           /\ p[0] = <<>> /\ \A k \in 1..n : p[k] = p[k - 1] \o seqs[k]
           /\ Line!FlattenSeq(seqs) = p[n]
<1> DEFINE V == Seq(S)
           step == [q \in V \X V |-> q[1] \o q[2]]
<1>1. seqs \in Seq(V) /\ Len(seqs) = n
  OBVIOUS
<1>2. Automaton(step, V, V) /\ <<>> \in V
  BY DEF Automaton
<1>3. \A a, b \in V : step[<<a, b>>] = a \o b
  OBVIOUS
<1> HIDE DEF step, V
<1>4. PICK p \in [0..n -> V] : IsRun(p, step, <<>>, seqs)
  BY <1>1, <1>2, RunExists
<1>5. p[0] = <<>> /\ \A k \in 1..n : p[k] = p[k - 1] \o seqs[k]
  <2>1. ASSUME NEW k \in 1..n PROVE p[k] = p[k - 1] \o seqs[k]
    <3>1. p[k - 1] \in V /\ seqs[k] \in V /\ p[k] = step[<<p[k - 1], seqs[k]>>]
      BY <1>1, <1>4 DEF IsRun
    <3> QED BY <1>3, <3>1
  <2> QED BY <1>4, <2>1 DEF IsRun
<1>6. Line!FlattenSeq(seqs) = p[n]
  <2>1. CASE n = 0
    <3>1. seqs = <<>>
      BY <1>1, <2>1
    <3> QED BY <1>1, <1>5, <2>1, <3>1 DEF Line!FlattenSeq
  <2>2. CASE n # 0
    <3> DEFINE F(h) == h = [i \in 1..n |-> IF i = 1 THEN seqs[i] ELSE h[i - 1] \o seqs[i]]
               H == CHOOSE h : F(h)
               g == [i \in 1..n |-> p[i]]
    <3>1. Line!FlattenSeq(seqs) = H[n]
      BY <1>1, <2>2 DEF Line!FlattenSeq
    <3>2. p[1] = seqs[1]
      <4>1. 1 \in 1..n /\ 1 - 1 = 0 /\ seqs[1] \in V
        BY <1>1, <2>2
      <4>2. <<>> \o seqs[1] = seqs[1]
        BY <4>1 DEF V
      <4> QED BY <1>5, <4>1, <4>2
    <3>3. F(g)
      <4>1. ASSUME NEW i \in 1..n PROVE g[i] = IF i = 1 THEN seqs[i] ELSE g[i - 1] \o seqs[i]
        <5>1. CASE i = 1
          BY <3>2, <5>1
        <5>2. CASE i # 1
          <6>1. i - 1 \in 1..n
            BY <5>2
          <6> QED BY <1>5, <5>2, <6>1
        <5> QED BY <5>1, <5>2
      <4> QED BY <4>1
    <3>4. F(H)
      <4> HIDE DEF F, g
      <4> QED BY <3>3
    <3> HIDE DEF H
    <3>5. \A i \in 1..n : H[i] = IF i = 1 THEN seqs[i] ELSE H[i - 1] \o seqs[i]
      BY <3>4
    <3> DEFINE T == {k \in Nat : k + 1 <= n => H[k + 1] = p[k + 1]}
    <3>6. 0 \in T
      BY <2>2, <3>2, <3>5
    <3>7. ASSUME NEW k \in T PROVE k + 1 \in T
      <4>1. CASE (k + 1) + 1 <= n
        <5>0. k \in Nat /\ k + 1 <= n
          BY <4>1
        <5>1. /\ H[k + 1] = p[k + 1] /\ k + 2 \in 1..n /\ k + 2 # 1
              /\ (k + 2) - 1 = k + 1 /\ (k + 1) + 1 = k + 2 /\ k + 1 \in Nat
          BY <4>1, <5>0
        <5>2. H[k + 2] = H[k + 1] \o seqs[k + 2]
          BY <3>5, <5>1
        <5>3. p[k + 2] = p[k + 1] \o seqs[k + 2]
          BY <1>5, <5>1
        <5>4. H[(k + 1) + 1] = p[(k + 1) + 1] /\ k + 1 \in Nat
          <6> HIDE DEF H, T
          <6> QED BY <5>1, <5>2, <5>3
        <5> QED BY <5>4
      <4> QED BY <4>1
    <3>8. T = Nat
      <4>1. T \subseteq Nat
        OBVIOUS
      <4> HIDE DEF T
      <4> QED BY <3>6, <3>7, <4>1, Induction
    <3>9. n - 1 \in T /\ (n - 1) + 1 = n
      <4> HIDE DEF T
      <4> QED BY <2>2, <3>8
    <3>10. H[n] = p[n]
      BY <3>9
    <3> HIDE DEF T
    <3> QED BY <3>1, <3>10
  <2> QED BY <2>1, <2>2
<1> QED BY <1>4, <1>5, <1>6 DEF V

(* The states between the sequences of a list. *)
Passes(s, V, step, seqs) ==
  /\ s \in [0..Len(seqs) -> V]
  /\ \A k \in 1..Len(seqs) : Run(step, s[k - 1], seqs[k]) = s[k]

(* A run over a flattened sequence is a run for each of its sequences.     *)
LEMMA RunFlattens ==
  ASSUME NEW V, NEW C, NEW step, Automaton(step, V, C), NEW seqs \in Seq(Seq(C)),
         NEW s, Passes(s, V, step, seqs)
  PROVE  Run(step, s[0], Line!FlattenSeq(seqs)) = s[Len(seqs)]
<1> DEFINE n == Len(seqs)
<1>0. /\ n \in Nat /\ seqs \in [1..n -> Seq(C)] /\ s \in [0..n -> V]
      /\ \A k \in 1..n : Run(step, s[k - 1], seqs[k]) = s[k]
  BY DEF Passes
<1> HIDE DEF n
<1>1. PICK p \in [0..n -> Seq(C)] :
        /\ p[0] = <<>> /\ \A k \in 1..n : p[k] = p[k - 1] \o seqs[k]
        /\ Line!FlattenSeq(seqs) = p[n]
  BY <1>0, FlattenIs
<1> DEFINE T == {k \in Nat : k <= n => Run(step, s[0], p[k]) = s[k]}
<1>2. 0 \in T
  <2>1. s[0] \in V
    BY <1>0
  <2>2. Run(step, s[0], <<>>) = s[0]
    BY <2>1, RunOfNothing
  <2> QED BY <1>1, <2>2
<1>3. ASSUME NEW k \in T PROVE k + 1 \in T
  <2>1. CASE k + 1 <= n
    <3>1. /\ k \in Nat /\ k + 1 \in 1..n /\ (k + 1) - 1 = k /\ k \in 0..n /\ s[0] \in V
          /\ Run(step, s[0], p[k]) = s[k]
      BY <1>0, <2>1
    <3>2. p[k] \in Seq(C) /\ seqs[k + 1] \in Seq(C) /\ p[k + 1] = p[k] \o seqs[k + 1]
      BY <1>0, <1>1, <3>1
    <3>3. Run(step, s[0], p[k + 1]) = Run(step, s[k], seqs[k + 1])
      <4>1. Run(step, s[0], p[k] \o seqs[k + 1]) = Run(step, Run(step, s[0], p[k]), seqs[k + 1])
        BY <3>1, <3>2, RunJoins
      <4> QED BY <3>1, <3>2, <4>1
    <3>4. Run(step, s[k], seqs[k + 1]) = s[k + 1]
      BY <1>0, <3>1
    <3> QED BY <3>1, <3>3, <3>4
  <2> QED BY <2>1
<1>4. T = Nat
  <2>1. T \subseteq Nat
    OBVIOUS
  <2> HIDE DEF T
  <2> QED BY <1>2, <1>3, <2>1, Induction
<1>5. n \in T
  <2> HIDE DEF T
  <2> QED BY <1>0, <1>4
<1>6. Run(step, s[0], p[n]) = s[n]
  BY <1>0, <1>5
<1> QED BY <1>1, <1>6 DEF n

-----------------------------------------------------------------------------
(* Getopts, argument by argument                                           *)

OwnerNames == Line!Valued \cup Line!Optional

(* An option takes nothing, or a value, or one if it is there. *)
LEMMA NamesApart ==
  /\ \A name \in Line!Known : name # None
  /\ \A name \in Line!Flags : name \notin Line!Valued /\ name \notin Line!Optional
  /\ \A name \in Line!Valued : name \notin Line!Optional
  /\ Line!Known = Line!Flags \cup OwnerNames
  /\ Line!Repeatable \subseteq Line!Valued
<1>1. \A name \in Line!Flags : name \notin Line!Valued
  BY DEF Line!Flags, Line!Valued
<1>2. \A name \in Line!Flags : name \notin Line!Optional
  BY DEF Line!Flags, Line!Optional
<1>3. \A name \in Line!Valued : name \notin Line!Optional
  BY DEF Line!Valued, Line!Optional
<1>4. Line!Repeatable \subseteq Line!Valued
  BY DEF Line!Valued, Line!Repeatable
<1> QED
  BY <1>1, <1>2, <1>3, <1>4, LineAssumption DEF Line!Known, OwnerNames

LEMMA ShortNames == \A letter : Line!ByShort(letter) \in Line!Known \cup {None}
<1>1. \A letter \in DOMAIN Line!Short : Line!Short[letter] \in Line!Known
  BY DEF Line!Short, Line!Known, Line!Flags, Line!Valued, Line!Optional
<1> QED BY <1>1 DEF Line!ByShort

(* What is taken: options with what they were given. *)
Pair == Line!Known \X (Seq(STRING) \cup {None})

Reader(at, pending, taken) == [at |-> at, pending |-> pending, taken |-> taken]

Places == {"options", "ended", "failed"}
Readers == [at : Places, pending : OwnerNames \cup {None}, taken : Seq(Pair)]

LEMMA ReaderIs ==
  ASSUME NEW acc \in Readers
  PROVE  /\ acc = Reader(acc.at, acc.pending, acc.taken)
         /\ acc.at \in Places /\ acc.pending \in OwnerNames \cup {None}
         /\ acc.taken \in Seq(Pair)
BY DEF Readers, Reader

LEMMA ReaderFields ==
  ASSUME NEW at, NEW pending, NEW taken
  PROVE  /\ Reader(at, pending, taken).at = at
         /\ Reader(at, pending, taken).pending = pending
         /\ Reader(at, pending, taken).taken = taken
BY DEF Reader

LEMMA ReaderHas ==
  ASSUME NEW at \in Places, NEW pending \in OwnerNames \cup {None}, NEW taken \in Seq(Pair)
  PROVE  Reader(at, pending, taken) \in Readers
BY DEF Readers, Reader

LEMMA ReaderChanges ==
  ASSUME NEW acc \in Readers
  PROVE  /\ \A at : [acc EXCEPT !.at = at] = Reader(at, acc.pending, acc.taken)
         /\ \A pending : [acc EXCEPT !.pending = pending] = Reader(acc.at, pending, acc.taken)
         /\ \A taken : [acc EXCEPT !.taken = taken] = Reader(acc.at, acc.pending, taken)
BY DEF Readers, Reader

LEMMA FailedIs ==
  /\ Line!Failed = Reader("failed", None, <<>>) /\ Line!Failed \in Readers
  /\ Line!Failed.at = "failed" /\ Line!Failed.pending = None
<1>1. <<>> \in Seq(Pair) /\ "failed" \in Places
  BY DEF Places
<1>2. Line!Failed = Reader("failed", None, <<>>)
  BY DEF Line!Failed, Line!Getting, Reader
<1>3. Line!Failed \in Readers
  BY <1>1, <1>2, ReaderHas
<1>4. Line!Failed.at = "failed" /\ Line!Failed.pending = None
  BY <1>2, ReaderFields
<1> QED BY <1>2, <1>3, <1>4

LEMMA TakeIs ==
  ASSUME NEW acc \in Readers, NEW name, NEW value
  PROVE  Line!Take(acc, name, value)
           = Reader(acc.at, acc.pending, Append(acc.taken, <<name, value>>))
<1>1. Line!Take(acc, name, value) = [acc EXCEPT !.taken = Append(acc.taken, <<name, value>>)]
  BY DEF Line!Take
<1> QED BY <1>1, ReaderChanges

LEMMA PairsGrow ==
  ASSUME NEW taken \in Seq(Pair), NEW name \in Line!Known, NEW value \in Seq(STRING) \cup {None}
  PROVE  Append(taken, <<name, value>>) \in Seq(Pair)
<1>1. <<name, value>> \in Pair
  BY DEF Pair
<1> HIDE DEF Pair
<1> QED BY <1>1

(* Everything it has read, the value of the last option left out. *)
Taken(acc) ==
  IF acc.pending = None THEN acc.taken ELSE Append(acc.taken, <<acc.pending, None>>)

LEMMA TakenIs == \A acc \in Readers : Taken(acc) \in Seq(Pair)
<1> SUFFICES ASSUME NEW acc \in Readers PROVE Taken(acc) \in Seq(Pair)
  OBVIOUS
<1>1. acc.pending # None => acc.pending \in Line!Known
  BY ReaderIs, NamesApart
<1>2. acc.pending # None => Append(acc.taken, <<acc.pending, None>>) \in Seq(Pair)
  BY <1>1, ReaderIs, PairsGrow
<1>3. acc.taken \in Seq(Pair)
  BY ReaderIs
<1> QED BY <1>2, <1>3 DEF Taken

LEMMA ArgumentIs ==
  ASSUME NEW arg \in Line!Argument
  PROVE  /\ arg.kind \in {"long", "cluster", "word", "end", "garbage"}
         /\ arg.kind = "long" => arg.value \in Seq(STRING) \cup {None}
         /\ arg.kind = "cluster" => arg.letters \in Seq(STRING) /\ arg.letters # <<>>
         /\ arg.kind = "word" => arg.word \in Seq(STRING)
<1> DEFINE T == Seq(STRING)
           U == T \ {<<>>}
<1>1. /\ arg.kind \in {"long", "cluster", "word", "end", "garbage"}
      /\ arg.kind = "long" => arg.value \in T \cup {None}
      /\ arg.kind = "cluster" => arg.letters \in U
      /\ arg.kind = "word" => arg.word \in T
  <2>1. arg \in [kind : {"long"}, name : STRING, value : T \cup {None}]
          \cup [kind : {"cluster"}, letters : U]
          \cup [kind : {"word"}, word : T]
          \cup [kind : {"end", "garbage"}]
    BY DEF Line!Argument
  <2> HIDE DEF T, U
  <2>2. CASE arg \in [kind : {"long"}, name : STRING, value : T \cup {None}]
    BY <2>2
  <2>3. CASE arg \in [kind : {"cluster"}, letters : U]
    BY <2>3
  <2>4. CASE arg \in [kind : {"word"}, word : T]
    BY <2>4
  <2>5. CASE arg \in [kind : {"end", "garbage"}]
    BY <2>5
  <2> QED BY <2>1, <2>2, <2>3, <2>4, <2>5
<1> QED BY <1>1

LEMMA ClusterIs ==
  ASSUME NEW letters \in Seq(STRING), letters # <<>>
  PROVE  /\ Line!Cluster(letters) \in Line!Argument
         /\ Line!Cluster(letters).kind = "cluster" /\ Line!Cluster(letters).letters = letters
<1> DEFINE T == Seq(STRING) \ {<<>>}
<1>1. letters \in T
  OBVIOUS
<1> HIDE DEF T
<1>2. [kind |-> "cluster", letters |-> letters] \in [kind : {"cluster"}, letters : T]
  BY <1>1
<1> QED BY <1>2 DEF Line!Cluster, Line!Argument, T

(* The option before gets its value, if the argument is one. *)
LEMMA SettleIs ==
  ASSUME NEW acc \in Readers, NEW arg \in Line!Argument
  PROVE  /\ acc.pending = None => Line!Settle(acc, arg) = acc
         /\ acc.pending # None /\ arg.kind = "word" =>
              Line!Settle(acc, arg) = Reader(acc.at, None, Append(acc.taken, <<acc.pending, arg.word>>))
         /\ acc.pending \in Line!Optional /\ arg.kind # "word" =>
              Line!Settle(acc, arg) = Reader(acc.at, None, Append(acc.taken, <<acc.pending, None>>))
         /\ acc.pending \in Line!Valued /\ arg.kind # "word" =>
              Line!Settle(acc, arg) = Line!Failed
<1> DEFINE cleared == [acc EXCEPT !.pending = None]
<1>1. cleared = Reader(acc.at, None, acc.taken)
  BY ReaderChanges
<1> HIDE DEF cleared
<1>0. /\ None \notin Line!Optional /\ None \notin Line!Valued
      /\ (acc.pending \in Line!Valued => acc.pending \notin Line!Optional)
  BY NamesApart DEF OwnerNames
<1>2. ASSUME acc.pending = None PROVE Line!Settle(acc, arg) = acc
  BY <1>0, <1>2 DEF Line!Settle
<1>3. acc.pending # None /\ arg.kind = "word" =>
        Line!Settle(acc, arg) = Line!Take(cleared, acc.pending, arg.word)
  BY DEF Line!Settle, cleared
<1>4. acc.pending \in Line!Optional /\ arg.kind # "word" =>
        acc.pending # None /\ Line!Settle(acc, arg) = Line!Take(cleared, acc.pending, None)
  BY <1>0 DEF Line!Settle, cleared
<1>5. acc.pending \in Line!Valued /\ arg.kind # "word" => Line!Settle(acc, arg) = Line!Failed
  BY <1>0 DEF Line!Settle
<1>6. \A value : Line!Take(cleared, acc.pending, value)
                  = Reader(acc.at, None, Append(acc.taken, <<acc.pending, value>>))
  <2>1. cleared \in Readers
    BY <1>1, ReaderIs, ReaderHas
  <2>2. cleared.at = acc.at /\ cleared.pending = None /\ cleared.taken = acc.taken
    BY <1>1, ReaderFields
  <2> QED BY <2>1, <2>2, TakeIs
<1> QED BY <1>2, <1>3, <1>4, <1>5, <1>6

(* One argument more, by what it finds. *)
LEMMA StepOther ==
  ASSUME NEW acc \in Readers, acc.at # "failed", acc.pending \notin Line!Valued,
         NEW arg \in Line!Argument, arg.kind # "word", NEW b, b = Reader(acc.at, None, Taken(acc))
  PROVE  /\ b \in Readers
         /\ Line!GetoptsStep(acc, arg) =
              IF acc.at = "ended" \/ arg.kind = "garbage" THEN Line!Failed
              ELSE IF arg.kind = "end" THEN Reader("ended", None, Taken(acc))
              ELSE IF arg.kind = "long" THEN Line!TakeLong(b, arg.name, arg.value)
              ELSE Line!TakeCluster(b, arg.letters)
<1>1. acc = Reader(acc.at, acc.pending, acc.taken)
      /\ acc.pending \in Line!Optional \cup {None} /\ acc.at \in {"options", "ended"}
  BY ReaderIs DEF OwnerNames, Places
<1>2. Line!Settle(acc, arg) = b
  <2>1. CASE acc.pending = None
    <3>1. b = acc
      BY <1>1, <2>1 DEF Taken
    <3> QED BY <2>1, <3>1, SettleIs
  <2>2. CASE acc.pending # None
    <3>1. b = Reader(acc.at, None, Append(acc.taken, <<acc.pending, None>>))
      BY <2>2 DEF Taken
    <3> QED BY <1>1, <2>2, <3>1, SettleIs
  <2> QED BY <2>1, <2>2
<1>3. /\ b \in Readers /\ b.at = acc.at
      /\ [b EXCEPT !.at = "ended"] = Reader("ended", None, Taken(acc))
  <2>1. b.at = acc.at /\ b.pending = None /\ b.taken = Taken(acc)
    BY ReaderFields
  <2>2. b \in Readers
    BY TakenIs, ReaderIs, ReaderHas
  <2> QED BY <2>1, <2>2, ReaderChanges
<1>4. arg.kind \in {"long", "cluster", "word", "end", "garbage"}
  BY ArgumentIs
<1>5. Line!GetoptsStep(acc, arg) =
        CASE b.at = "ended" \/ arg.kind \in {"word", "garbage"} -> Line!Failed
          [] b.at = "options" /\ arg.kind = "end" -> [b EXCEPT !.at = "ended"]
          [] b.at = "options" /\ arg.kind = "long" -> Line!TakeLong(b, arg.name, arg.value)
          [] OTHER -> Line!TakeCluster(b, arg.letters)
  BY <1>1, <1>2, <1>3, <1>4 DEF Line!GetoptsStep
<1> QED BY <1>1, <1>3, <1>4, <1>5

LEMMA StepValue ==
  ASSUME NEW acc \in Readers, acc.pending # None,
         NEW arg \in Line!Argument, arg.kind = "word"
  PROVE  Line!GetoptsStep(acc, arg)
           = Reader(acc.at, None, Append(acc.taken, <<acc.pending, arg.word>>))
<1>1. Line!GetoptsStep(acc, arg) = Line!Settle(acc, arg)
  BY DEF Line!GetoptsStep
<1> QED BY <1>1, SettleIs

LEMMA StepStray ==
  ASSUME NEW acc \in Readers, acc.at # "failed", acc.pending = None,
         NEW arg \in Line!Argument, arg.kind = "word"
  PROVE  Line!GetoptsStep(acc, arg) = Line!Failed
<1>1. Line!Settle(acc, arg) = acc
  BY SettleIs
<1> QED BY <1>1 DEF Line!GetoptsStep

LEMMA StepWaiting ==
  ASSUME NEW acc \in Readers, acc.pending \in Line!Valued,
         NEW arg \in Line!Argument, arg.kind # "word"
  PROVE  Line!GetoptsStep(acc, arg) = Line!Failed
<1>1. Line!Settle(acc, arg) = Line!Failed
  BY SettleIs
<1> QED BY <1>1, FailedIs DEF Line!GetoptsStep

(* A reader that has failed goes on failing. *)
LEMMA StepFailed ==
  ASSUME NEW acc \in Readers, acc.at = "failed", NEW arg \in Line!Argument
  PROVE  /\ Line!GetoptsStep(acc, arg) \in Readers
         /\ Line!GetoptsStep(acc, arg).at = "failed"
<1> DEFINE b == Line!Settle(acc, arg)
<1>1. ASSUME NEW value \in Seq(STRING) \cup {None}, acc.pending # None,
             NEW r, r = Reader(acc.at, None, Append(acc.taken, <<acc.pending, value>>))
      PROVE  r \in Readers /\ r.at = "failed"
  <2>1. acc.pending \in Line!Known /\ acc.taken \in Seq(Pair)
    BY <1>1, ReaderIs, NamesApart
  <2>2. Append(acc.taken, <<acc.pending, value>>) \in Seq(Pair)
    BY <1>1, <2>1, PairsGrow
  <2>3. acc.at \in Places
    BY ReaderIs
  <2>4. r.at = "failed"
    BY <1>1, ReaderFields
  <2>5. \A taken \in Seq(Pair) : Reader(acc.at, None, taken) \in Readers
    BY <2>3, ReaderHas
  <2> QED BY <1>1, <2>2, <2>4, <2>5
<1>2. b \in Readers /\ b.at = "failed"
  <2>1. CASE acc.pending = None
    <3>1. b = acc
      BY <2>1, SettleIs
    <3> QED BY <3>1
  <2>2. CASE acc.pending # None /\ arg.kind = "word"
    <3>1. arg.word \in Seq(STRING) \cup {None}
      BY <2>2, ArgumentIs
    <3>2. b = Reader(acc.at, None, Append(acc.taken, <<acc.pending, arg.word>>))
      BY <2>2, SettleIs
    <3> HIDE DEF b
    <3> QED BY <1>1, <2>2, <3>1, <3>2
  <2>3. CASE acc.pending # None /\ arg.kind # "word"
    <3>1. b = Reader(acc.at, None, Append(acc.taken, <<acc.pending, None>>)) \/ b = Line!Failed
      BY <2>3, ReaderIs, SettleIs DEF OwnerNames
    <3>2. None \in Seq(STRING) \cup {None}
      OBVIOUS
    <3> HIDE DEF b
    <3> QED BY <1>1, <2>3, <3>1, <3>2, FailedIs
  <2> QED BY <2>1, <2>2, <2>3
<1>3. Line!GetoptsStep(acc, arg) = b
  BY <1>2 DEF Line!GetoptsStep
<1> QED BY <1>2, <1>3

(* Letters that are flags, and what they give. *)
AreFlags(letters) == \A k \in 1..Len(letters) : Line!ByShort(letters[k]) \in Line!Flags
Flag(letter) == <<Line!ByShort(letter), None>>
FlagsOf(letters) == [k \in 1..Len(letters) |-> Flag(letters[k])]

LEMMA FlagIsPair ==
  ASSUME NEW letter, Line!ByShort(letter) \in Line!Flags
  PROVE  Flag(letter) \in Pair
BY NamesApart DEF Pair, Flag

LEMMA FlagsAre ==
  ASSUME NEW letters \in Seq(STRING), AreFlags(letters)
  PROVE  /\ FlagsOf(letters) \in Seq(Pair) /\ Len(FlagsOf(letters)) = Len(letters)
         /\ \A k \in 1..Len(letters) : FlagsOf(letters)[k] = Flag(letters[k])
<1>1. \A k \in 1..Len(letters) : Flag(letters[k]) \in Pair
  BY FlagIsPair DEF AreFlags
<1> DEFINE n == Len(letters)
<1>2. n \in Nat
  OBVIOUS
<1> HIDE DEF Pair, n
<1>3. FlagsOf(letters) \in [1..n -> Pair] /\ \A k \in 1..n : FlagsOf(letters)[k] = Flag(letters[k])
  BY <1>1 DEF FlagsOf, n
<1> HIDE DEF FlagsOf
<1>4. FlagsOf(letters) \in Seq(Pair) /\ Len(FlagsOf(letters)) = n
  BY <1>2, <1>3
<1> QED BY <1>3, <1>4 DEF n

(* The places of what is joined. *)
Joins(C, joined, pre, letter, post) ==
  /\ joined \in Seq(C) /\ Len(joined) = (Len(pre) + 1) + Len(post)
  /\ joined[Len(pre) + 1] = letter
  /\ (\A k \in 1..Len(pre) : joined[k] = pre[k])
  /\ (\A k \in 1..Len(post) : joined[(Len(pre) + 1) + k] = post[k])

LEMMA JoinedIs ==
  ASSUME NEW C, NEW pre \in Seq(C), NEW letter \in C, NEW post \in Seq(C)
  PROVE  Joins(C, (pre \o <<letter>>) \o post, pre, letter, post)
<1> DEFINE joined == (pre \o <<letter>>) \o post
<1> DEFINE front == pre \o <<letter>>
<1>1. /\ front \in Seq(C) /\ Len(front) = Len(pre) + 1 /\ front[Len(pre) + 1] = letter
      /\ \A k \in 1..Len(pre) : front[k] = pre[k]
  OBVIOUS
<1>2. joined = front \o post
  OBVIOUS
<1> HIDE DEF front
<1>3. /\ joined \in Seq(C) /\ Len(joined) = Len(front) + Len(post)
      /\ (\A k \in 1..Len(front) : joined[k] = front[k])
      /\ (\A k \in 1..Len(post) : joined[Len(front) + k] = post[k])
  BY <1>1, <1>2
<1>4. Len(pre) \in Nat /\ Len(post) \in Nat
  OBVIOUS
<1> HIDE DEF joined
<1>5. Joins(C, joined, pre, letter, post)
  BY <1>1, <1>3, <1>4 DEF Joins
<1> QED BY <1>5 DEF joined

LEMMA SameJoined ==
  ASSUME NEW C, NEW a \in Seq(C), NEW b \in Seq(C), Len(a) = Len(b), \A k \in 1..Len(a) : a[k] = b[k]
  PROVE  a = b
OBVIOUS

LEMMA NoFlags == FlagsOf(<<>>) = <<>> /\ AreFlags(<<>>)
<1> DEFINE empty == <<>>
<1>1. empty \in Seq(STRING) /\ Len(empty) = 0
  OBVIOUS
<1> HIDE DEF empty
<1>2. AreFlags(empty)
  BY <1>1 DEF AreFlags
<1>3. FlagsOf(empty) \in Seq(Pair) /\ Len(FlagsOf(empty)) = 0
  BY <1>1, <1>2, FlagsAre
<1> HIDE DEF Pair
<1>4. FlagsOf(empty) = <<>>
  BY <1>3
<1> QED BY <1>2, <1>4 DEF empty

(* A word of letters and one more. *)
LEMMA LettersGrow ==
  ASSUME NEW C, NEW letters \in Seq(C), NEW letter \in C
  PROVE  /\ Append(letters, letter) \in Seq(C) /\ Len(Append(letters, letter)) = Len(letters) + 1
         /\ Append(letters, letter)[Len(letters) + 1] = letter
         /\ \A k \in 1..Len(letters) : Append(letters, letter)[k] = letters[k]
         /\ letters \o <<letter>> = Append(letters, letter)
OBVIOUS

LEMMA FlagsGrow ==
  ASSUME NEW letters \in Seq(STRING), AreFlags(letters),
         NEW letter \in STRING, Line!ByShort(letter) \in Line!Flags
  PROVE  /\ AreFlags(Append(letters, letter))
         /\ FlagsOf(Append(letters, letter))
              = Append(FlagsOf(letters), <<Line!ByShort(letter), None>>)
<1> DEFINE longer == Append(letters, letter)
           name == Line!ByShort(letter)
           before == FlagsOf(letters)
           after == FlagsOf(longer)
           n == Len(letters)
<1>1. /\ longer \in Seq(STRING) /\ Len(longer) = n + 1 /\ longer[n + 1] = letter
      /\ \A k \in 1..n : longer[k] = letters[k]
  BY LettersGrow
<1>a. n \in Nat
  OBVIOUS
<1> HIDE DEF longer, n
<1>2. AreFlags(longer)
  <2>1. ASSUME NEW k \in 1..(n + 1) PROVE Line!ByShort(longer[k]) \in Line!Flags
    <3>1. k = n + 1 \/ k \in 1..n
      BY <1>a
    <3> QED BY <1>1, <3>1 DEF AreFlags, n
  <2> QED BY <1>1, <2>1 DEF AreFlags
<1>3. /\ before \in Seq(Pair) /\ Len(before) = n
      /\ \A k \in 1..n : before[k] = Flag(letters[k])
  BY FlagsAre DEF n
<1>4. /\ after \in Seq(Pair) /\ Len(after) = n + 1
      /\ \A k \in 1..(n + 1) : after[k] = Flag(longer[k])
  BY <1>1, <1>2, FlagsAre
<1> HIDE DEF before, after
<1>5. Flag(letter) \in Pair
  BY FlagIsPair
<1> HIDE DEF Pair
<1>6. after[n + 1] = Flag(letter)
  <2>1. n + 1 \in 1..(n + 1)
    BY <1>a
  <2> QED BY <1>1, <1>4, <2>1
<1>7. \A k \in 1..n : after[k] = before[k]
  BY <1>1, <1>3, <1>4, <1>a
<1>8. after = Append(before, Flag(letter))
  <2> DEFINE grown == Append(before, Flag(letter))
             N == n + 1
  <2>1. /\ grown \in Seq(Pair) /\ Len(grown) = N /\ grown[N] = Flag(letter)
        /\ \A k \in 1..n : grown[k] = before[k]
    BY <1>3, <1>5, LettersGrow
  <2> HIDE DEF grown
  <2>2. ASSUME NEW k \in 1..N PROVE after[k] = grown[k]
    <3>1. k = N \/ k \in 1..n
      BY <1>a
    <3> QED BY <1>6, <1>7, <2>1, <3>1
  <2> QED BY <1>4, <2>1, <2>2, SameJoined DEF grown
<1> QED BY <1>2, <1>8 DEF longer, before, after, Flag

(* A cluster of flags gives them all. *)
LEMMA ClusterFlags ==
  ASSUME NEW acc \in Readers, NEW letters \in Seq(STRING), AreFlags(letters)
  PROVE  Line!TakeCluster(acc, letters) = Reader(acc.at, acc.pending, acc.taken \o FlagsOf(letters))
<1>1. {k \in DOMAIN letters : Line!ByShort(letters[k]) \notin Line!Flags} = {}
  BY DEF AreFlags
<1>2. Line!TakeCluster(acc, letters) =
        [acc EXCEPT !.taken = acc.taken \o [k \in 1..((Len(letters) + 1) - 1) |->
                                              <<Line!ByShort(letters[k]), None>>]]
  BY <1>1 DEF Line!TakeCluster
<1>3. (Len(letters) + 1) - 1 = Len(letters)
  OBVIOUS
<1> QED BY <1>2, <1>3, ReaderChanges DEF FlagsOf, Flag

(* A letter that is none owns what follows. *)
LEMMA ClusterOwner ==
  ASSUME NEW acc \in Readers, NEW pre \in Seq(STRING), AreFlags(pre),
         NEW letter \in STRING, Line!ByShort(letter) \notin Line!Flags, NEW post \in Seq(STRING),
         NEW letters, letters = (pre \o <<letter>>) \o post
  PROVE  Line!TakeCluster(acc, letters) =
           IF Line!ByShort(letter) = None THEN Line!Failed
           ELSE IF post # <<>>
             THEN Reader(acc.at, acc.pending,
                         Append(acc.taken \o FlagsOf(pre), <<Line!ByShort(letter), post>>))
             ELSE Reader(acc.at, Line!ByShort(letter), acc.taken \o FlagsOf(pre))
<1> DEFINE n == Len(pre)
           m == Len(post)
           owners == {k \in DOMAIN letters : Line!ByShort(letters[k]) \notin Line!Flags}
           name == Line!ByShort(letter)
<1>1. n \in Nat /\ m \in Nat
  OBVIOUS
<1>2. /\ letters \in Seq(STRING) /\ Len(letters) = (n + 1) + m /\ letters[n + 1] = letter
      /\ (\A k \in 1..n : letters[k] = pre[k])
      /\ (\A k \in 1..m : letters[(n + 1) + k] = post[k])
  <2>1. Joins(STRING, letters, pre, letter, post)
    BY JoinedIs
  <2> QED BY <2>1 DEF Joins
<1>3. DOMAIN letters = 1..((n + 1) + m)
  BY <1>2
<1>4. post # <<>> <=> n + 1 < Len(letters)
  BY <1>1, <1>2
<1> HIDE DEF n, m
<1>5. owners # {} /\ n + 1 \in owners /\ \A other \in owners : n + 1 <= other
  <2>1. n + 1 \in owners
    <3>1. n + 1 \in 1..((n + 1) + m)
      BY <1>1
    <3>2. n + 1 \in DOMAIN letters /\ Line!ByShort(letters[n + 1]) \notin Line!Flags
      BY <1>2, <1>3, <3>1
    <3> QED BY <3>2
  <2>2. ASSUME NEW other \in owners PROVE n + 1 <= other
    <3>1. other \in 1..((n + 1) + m) /\ Line!ByShort(letters[other]) \notin Line!Flags
      BY <1>3
    <3>2. other \notin 1..n
      BY <1>2, <3>1 DEF AreFlags, n
    <3> QED BY <1>1, <3>1, <3>2
  <2> QED BY <2>1, <2>2
<1> DEFINE first == CHOOSE k \in owners : \A other \in owners : k <= other
<1>6. first = n + 1
  <2>1. first \in owners /\ \A other \in owners : first <= other
    BY <1>5
  <2>2. first \in 1..((n + 1) + m)
    BY <1>3, <2>1
  <2> HIDE DEF first, owners
  <2>3. first <= n + 1 /\ n + 1 <= first
    BY <1>5, <2>1
  <2> QED BY <1>1, <2>2, <2>3
<1> DEFINE flags == [k \in 1..(first - 1) |-> <<Line!ByShort(letters[k]), None>>]
           after == [acc EXCEPT !.taken = acc.taken \o flags]
<1>7. flags = FlagsOf(pre)
  <2> HIDE DEF first
  <2>1. first - 1 = n
    BY <1>1, <1>6
  <2>2. \A k \in 1..n : <<Line!ByShort(letters[k]), None>> = <<Line!ByShort(pre[k]), None>>
    BY <1>2
  <2>3. flags = [k \in 1..n |-> <<Line!ByShort(pre[k]), None>>]
    BY <2>1, <2>2
  <2> QED BY <2>3 DEF FlagsOf, Flag, n
<1>8. after = Reader(acc.at, acc.pending, acc.taken \o FlagsOf(pre)) /\ after \in Readers
  <2>1. acc.taken \o FlagsOf(pre) \in Seq(Pair)
    <3>1. acc.taken \in Seq(Pair) /\ FlagsOf(pre) \in Seq(Pair)
      BY ReaderIs, FlagsAre
    <3> HIDE DEF Pair
    <3> QED BY <3>1
  <2>2. after = Reader(acc.at, acc.pending, acc.taken \o FlagsOf(pre))
    <3> HIDE DEF flags
    <3> QED BY <1>7, ReaderChanges
  <2> HIDE DEF after
  <2> QED BY <2>1, <2>2, ReaderIs, ReaderHas
<1>9. Line!TakeCluster(acc, letters) =
        CASE owners = {} -> after
          [] owners # {} /\ Line!ByShort(letters[first]) = None -> Line!Failed
          [] owners # {} /\ Line!ByShort(letters[first]) # None /\ first < Len(letters) ->
               Line!Take(after, Line!ByShort(letters[first]), SubSeq(letters, first + 1, Len(letters)))
          [] OTHER -> [after EXCEPT !.pending = Line!ByShort(letters[first])]
  <2>1. owners # {}
    BY <1>5
  <2> QED BY <2>1 DEF Line!TakeCluster
<1>10. SubSeq(letters, (n + 1) + 1, Len(letters)) = post
  <2>1. Len(SubSeq(letters, (n + 1) + 1, Len(letters))) = m
    BY <1>1, <1>2
  <2>2. \A k \in 1..m : SubSeq(letters, (n + 1) + 1, Len(letters))[k] = letters[(n + 1) + k]
    BY <1>1, <1>2
  <2> QED BY <1>1, <1>2, <2>1, <2>2 DEF m
<1> DEFINE rest == SubSeq(letters, first + 1, Len(letters))
<1>c. rest = post
  <2> HIDE DEF first
  <2> QED BY <1>6, <1>10
<1>d. (first < Len(letters)) <=> post # <<>>
  <2> HIDE DEF first
  <2> QED BY <1>4, <1>6
<1>e. Line!ByShort(letters[first]) = name
  <2> HIDE DEF first
  <2> QED BY <1>2, <1>6
<1>f. Line!TakeCluster(acc, letters) =
        CASE owners = {} -> after
          [] owners # {} /\ name = None -> Line!Failed
          [] owners # {} /\ name # None /\ post # <<>> -> Line!Take(after, name, rest)
          [] OTHER -> [after EXCEPT !.pending = name]
  <2> HIDE DEF owners, first, after, flags
  <2> QED BY <1>9, <1>d, <1>e DEF rest
<1> HIDE DEF owners, first, after, flags, rest, name
<1>11. Line!TakeCluster(acc, letters) =
        IF name = None THEN Line!Failed
        ELSE IF post # <<>> THEN Line!Take(after, name, post)
        ELSE [after EXCEPT !.pending = name]
  BY <1>5, <1>f, <1>c
<1>12. after.at = acc.at /\ after.pending = acc.pending /\ after.taken = acc.taken \o FlagsOf(pre)
  <2> DEFINE taken == acc.taken \o FlagsOf(pre)
  <2>1. after = Reader(acc.at, acc.pending, taken)
    BY <1>8
  <2> HIDE DEF taken
  <2>2. after.at = acc.at /\ after.pending = acc.pending /\ after.taken = taken
    BY <2>1, ReaderFields
  <2> QED BY <2>2 DEF taken
<1>13. Line!Take(after, name, post)
         = Reader(acc.at, acc.pending, Append(acc.taken \o FlagsOf(pre), <<name, post>>))
  BY <1>8, <1>12, TakeIs
<1>14. [after EXCEPT !.pending = name] = Reader(acc.at, name, acc.taken \o FlagsOf(pre))
  BY <1>8, <1>12, ReaderChanges
<1> QED BY <1>11, <1>13, <1>14 DEF name

(* The first letter of a cluster that is no flag. *)
LEMMA ClusterSplits ==
  ASSUME NEW letters \in Seq(STRING), ~AreFlags(letters)
  PROVE  \E first \in 1..Len(letters) :
           /\ Line!ByShort(letters[first]) \notin Line!Flags
           /\ SubSeq(letters, 1, first - 1) \in Seq(STRING)
           /\ SubSeq(letters, first + 1, Len(letters)) \in Seq(STRING)
           /\ Len(SubSeq(letters, 1, first - 1)) = first - 1
           /\ \A k \in 1..(first - 1) : SubSeq(letters, 1, first - 1)[k] = letters[k]
           /\ AreFlags(SubSeq(letters, 1, first - 1))
           /\ letters = (SubSeq(letters, 1, first - 1) \o <<letters[first]>>)
                          \o SubSeq(letters, first + 1, Len(letters))
<1> DEFINE S == {k \in Nat : k \in 1..Len(letters) /\ Line!ByShort(letters[k]) \notin Line!Flags}
<1>1. S # {} /\ S \subseteq Nat
  BY DEF AreFlags
<1>2. PICK first \in S : \A y \in S : ~(<<y, first>> \in OpToRel(<, Nat))
  BY <1>1, WFMin, NatLessThanWellFounded
<1>3. \A y \in S : ~(y < first)
  BY <1>1, <1>2 DEF OpToRel
<1>4. /\ first \in 1..Len(letters) /\ Line!ByShort(letters[first]) \notin Line!Flags
      /\ \A k \in 1..(first - 1) : Line!ByShort(letters[k]) \in Line!Flags
  BY <1>3
<1> DEFINE pre == SubSeq(letters, 1, first - 1)
           post == SubSeq(letters, first + 1, Len(letters))
<1> HIDE DEF S
<1>5. /\ pre \in Seq(STRING) /\ Len(pre) = first - 1 /\ \A k \in 1..(first - 1) : pre[k] = letters[k]
      /\ post \in Seq(STRING) /\ Len(post) = Len(letters) - first
      /\ \A k \in 1..(Len(letters) - first) : post[k] = letters[first + k]
  <2>1. pre \in Seq(STRING) /\ Len(pre) = first - 1 /\ \A k \in 1..(first - 1) : pre[k] = letters[k]
    BY <1>4
  <2>2. post \in Seq(STRING) /\ Len(post) = Len(letters) - first
    BY <1>4
  <2>3. \A k \in 1..(Len(letters) - first) : post[k] = letters[first + k]
    BY <1>4
  <2> QED BY <2>1, <2>2, <2>3
<1> HIDE DEF pre, post
<1>6. letters = (pre \o <<letters[first]>>) \o post
  <2> DEFINE joined == (pre \o <<letters[first]>>) \o post
             n == Len(letters)
  <2>1. n \in Nat /\ first \in 1..n /\ letters[first] \in STRING
    BY <1>4
  <2>2. /\ joined \in Seq(STRING) /\ Len(joined) = (Len(pre) + 1) + Len(post)
        /\ joined[Len(pre) + 1] = letters[first]
        /\ (\A k \in 1..Len(pre) : joined[k] = pre[k])
        /\ (\A k \in 1..Len(post) : joined[(Len(pre) + 1) + k] = post[k])
    <3>1. Joins(STRING, joined, pre, letters[first], post)
      BY <1>5, <2>1, JoinedIs
    <3> HIDE DEF joined
    <3> QED BY <3>1 DEF Joins
  <2> HIDE DEF joined, n
  <2>3. Len(joined) = n
    BY <1>5, <2>1, <2>2 DEF n
  <2>4. ASSUME NEW k \in 1..n PROVE joined[k] = letters[k]
    <3>1. CASE k < first
      <4>1. k \in 1..(first - 1)
        BY <2>1, <3>1
      <4> QED BY <1>5, <2>2, <4>1
    <3>2. CASE k = first
      <4>1. Len(pre) + 1 = k
        BY <1>5, <2>1, <3>2
      <4> QED BY <2>2, <3>2, <4>1
    <3>3. CASE k > first
      <4>1. k - first \in 1..(n - first) /\ first + (k - first) = k /\ (Len(pre) + 1) + (k - first) = k
        BY <1>5, <2>1, <3>3
      <4> QED BY <1>5, <2>2, <4>1 DEF n
    <3> QED BY <2>1, <3>1, <3>2, <3>3
  <2>5. letters = joined
    BY <2>2, <2>3, <2>4, SameJoined DEF n
  <2> QED BY <2>5 DEF joined
<1>7. AreFlags(pre)
  BY <1>4, <1>5 DEF AreFlags
<1> QED BY <1>4, <1>5, <1>6, <1>7 DEF pre, post

(* The same options, and perhaps more. *)
Extends(t, u) == Len(t) <= Len(u) /\ \A k \in 1..Len(t) : u[k][1] = t[k][1]

LEMMA ExtendsItself ==
  ASSUME NEW t \in Seq(Pair)
  PROVE  Extends(t, t)
<1> HIDE DEF Pair
<1>1. Len(t) \in Nat
  OBVIOUS
<1> QED BY <1>1 DEF Extends

LEMMA ExtendsFurther ==
  ASSUME NEW t \in Seq(Pair), NEW u \in Seq(Pair), NEW v \in Seq(Pair), Extends(t, u), Extends(u, v)
  PROVE  Extends(t, v)
<1> HIDE DEF Pair
<1>1. Len(t) \in Nat /\ Len(u) \in Nat /\ Len(v) \in Nat
  OBVIOUS
<1> QED BY <1>1 DEF Extends

LEMMA ExtendsByOne ==
  ASSUME NEW t \in Seq(Pair), NEW pair \in Pair
  PROVE  Append(t, pair) \in Seq(Pair) /\ Extends(t, Append(t, pair))
<1> HIDE DEF Pair
<1>1. /\ Append(t, pair) \in Seq(Pair) /\ Len(Append(t, pair)) = Len(t) + 1
      /\ \A k \in 1..Len(t) : Append(t, pair)[k] = t[k]
  BY LettersGrow
<1>2. Len(t) \in Nat
  OBVIOUS
<1> QED BY <1>1, <1>2 DEF Extends

LEMMA ExtendsByMore ==
  ASSUME NEW t \in Seq(Pair), NEW u \in Seq(Pair)
  PROVE  t \o u \in Seq(Pair) /\ Extends(t, t \o u)
<1> HIDE DEF Pair
<1>1. /\ t \o u \in Seq(Pair) /\ Len(t \o u) = Len(t) + Len(u)
      /\ \A k \in 1..Len(t) : (t \o u)[k] = t[k]
  OBVIOUS
<1>2. Len(t) \in Nat /\ Len(u) \in Nat
  OBVIOUS
<1> QED BY <1>1, <1>2 DEF Extends

(* A value changes nothing of the name. *)
LEMMA ExtendsValue ==
  ASSUME NEW t \in Seq(Pair), NEW name, NEW v, NEW w, <<name, v>> \in Pair, <<name, w>> \in Pair
  PROVE  Extends(Append(t, <<name, v>>), Append(t, <<name, w>>))
<1> DEFINE p == <<name, v>>
           q == <<name, w>>
           n == Len(t)
<1>1. p \in Pair /\ q \in Pair /\ p[1] = q[1]
  OBVIOUS
<1> HIDE DEF Pair, p, q
<1>2. n \in Nat
  OBVIOUS
<1>3. /\ Len(Append(t, p)) = n + 1 /\ Append(t, p)[n + 1] = p
      /\ \A k \in 1..n : Append(t, p)[k] = t[k]
  BY <1>1, LettersGrow
<1>4. /\ Len(Append(t, q)) = n + 1 /\ Append(t, q)[n + 1] = q
      /\ \A k \in 1..n : Append(t, q)[k] = t[k]
  BY <1>1, LettersGrow
<1> HIDE DEF n
<1>5. \A k \in 1..(n + 1) : Append(t, q)[k][1] = Append(t, p)[k][1]
  <2> TAKE k \in 1..(n + 1)
  <2>1. k = n + 1 \/ k \in 1..n
    BY <1>2
  <2> QED BY <1>1, <1>3, <1>4, <2>1
<1>6. Extends(Append(t, p), Append(t, q))
  BY <1>2, <1>3, <1>4, <1>5 DEF Extends
<1> QED BY <1>6 DEF p, q

(* No option twice, but one that may be repeated. *)
Once(t) ==
  \A i, j \in DOMAIN t : (i # j /\ t[i][1] = t[j][1]) => t[i][1] \in Line!Repeatable

LEMMA OnceOfLess ==
  ASSUME NEW t \in Seq(Pair), NEW u \in Seq(Pair), Extends(t, u), Once(u)
  PROVE  Once(t)
<1> HIDE DEF Pair
<1>1. DOMAIN t = 1..Len(t) /\ DOMAIN u = 1..Len(u) /\ Len(t) \in Nat /\ Len(u) \in Nat
  OBVIOUS
<1>2. \A k \in DOMAIN t : k \in DOMAIN u /\ u[k][1] = t[k][1]
  BY <1>1 DEF Extends
<1> QED BY <1>2 DEF Once

(* What a reader comes to have is a reader that has read more. *)
LEMMA GrownIs ==
  ASSUME NEW at \in Places, NEW pending \in OwnerNames \cup {None}, NEW taken \in Seq(Pair),
         NEW t \in Seq(Pair), Extends(t, taken)
  PROVE  Reader(at, pending, taken) \in Readers /\ Extends(t, Taken(Reader(at, pending, taken)))
<1> DEFINE r == Reader(at, pending, taken)
<1>1. r \in Readers
  BY ReaderHas
<1>2. r.pending = pending /\ r.taken = taken
  BY ReaderFields
<1> HIDE DEF r
<1>3. CASE pending = None
  BY <1>1, <1>2, <1>3 DEF Taken, r
<1>4. CASE pending # None
  <2> DEFINE pair == <<pending, None>>
  <2>1. pair \in Pair
    BY <1>4, NamesApart DEF Pair
  <2>2. Taken(r) = Append(taken, pair)
    BY <1>2, <1>4 DEF Taken
  <2> HIDE DEF pair
  <2>3. Append(taken, pair) \in Seq(Pair) /\ Extends(taken, Append(taken, pair))
    BY <2>1, ExtendsByOne
  <2>4. Extends(t, Append(taken, pair))
    BY <2>3, ExtendsFurther
  <2> QED BY <1>1, <2>2, <2>4 DEF r
<1> QED BY <1>3, <1>4

(* It fails, or has read more. *)
Grows(acc, r) ==
  r \in Readers /\ (r.at = "failed" \/ (acc.at # "failed" /\ Extends(Taken(acc), Taken(r))))

LEMMA FailedGrows == \A acc : Grows(acc, Line!Failed)
BY FailedIs DEF Grows

LEMMA LongGrows ==
  ASSUME NEW b \in Readers, b.at # "failed", b.pending = None, NEW name,
         NEW value \in Seq(STRING) \cup {None}
  PROVE  Grows(b, Line!TakeLong(b, name, value))
<1>1. b.at \in Places /\ b.taken \in Seq(Pair) /\ Taken(b) = b.taken
  BY ReaderIs DEF Taken
<1>2. ASSUME name \in Line!Known PROVE Grows(b, Line!Take(b, name, value))
  <2> DEFINE pair == <<name, value>>
  <2>1. pair \in Pair
    BY <1>2 DEF Pair
  <2>2. Line!Take(b, name, value) = Reader(b.at, None, Append(b.taken, pair))
    BY TakeIs
  <2> HIDE DEF pair
  <2>3. Append(b.taken, pair) \in Seq(Pair) /\ Extends(b.taken, Append(b.taken, pair))
    BY <1>1, <2>1, ExtendsByOne
  <2> QED BY <1>1, <2>2, <2>3, GrownIs DEF Grows
<1>3. ASSUME name \in Line!Valued PROVE Grows(b, [b EXCEPT !.pending = name])
  <2>1. [b EXCEPT !.pending = name] = Reader(b.at, name, b.taken) /\ Extends(b.taken, b.taken)
    BY <1>1, ReaderChanges, ExtendsItself
  <2>2. name \in OwnerNames \cup {None}
    BY <1>3 DEF OwnerNames
  <2> DEFINE s == [b EXCEPT !.pending = name]
  <2> HIDE DEF s
  <2>3. s = Reader(b.at, name, b.taken)
    BY <2>1 DEF s
  <2>4. Grows(b, s)
    BY <1>1, <2>1, <2>2, <2>3, GrownIs DEF Grows
  <2> QED BY <2>4 DEF s
<1> QED BY <1>2, <1>3, FailedGrows, NamesApart DEF Line!TakeLong, OwnerNames

LEMMA ClusterGrows ==
  ASSUME NEW b \in Readers, b.at # "failed", b.pending = None, NEW letters \in Seq(STRING)
  PROVE  Grows(b, Line!TakeCluster(b, letters))
<1>1. b.at \in Places /\ b.taken \in Seq(Pair) /\ Taken(b) = b.taken
  BY ReaderIs DEF Taken
<1>2. CASE AreFlags(letters)
  <2> DEFINE taken == b.taken \o FlagsOf(letters)
  <2>1. FlagsOf(letters) \in Seq(Pair)
    BY <1>2, FlagsAre
  <2>2. taken \in Seq(Pair) /\ Extends(b.taken, taken)
    BY <1>1, <2>1, ExtendsByMore
  <2>3. Line!TakeCluster(b, letters) = Reader(b.at, None, taken)
    BY <1>2, ClusterFlags
  <2> HIDE DEF taken
  <2> QED BY <1>1, <2>2, <2>3, GrownIs DEF Grows
<1>3. CASE ~AreFlags(letters)
  <2>1. PICK first \in 1..Len(letters) :
           /\ Line!ByShort(letters[first]) \notin Line!Flags
           /\ SubSeq(letters, 1, first - 1) \in Seq(STRING)
           /\ SubSeq(letters, first + 1, Len(letters)) \in Seq(STRING)
           /\ AreFlags(SubSeq(letters, 1, first - 1))
           /\ letters = (SubSeq(letters, 1, first - 1) \o <<letters[first]>>)
                          \o SubSeq(letters, first + 1, Len(letters))
    BY <1>3, ClusterSplits
  <2> DEFINE pre == SubSeq(letters, 1, first - 1)
             post == SubSeq(letters, first + 1, Len(letters))
             letter == letters[first]
             name == Line!ByShort(letter)
             taken == b.taken \o FlagsOf(pre)
             pair == <<name, post>>
  <2>2. letter \in STRING
    OBVIOUS
  <2> HIDE DEF letter
  <2>3. /\ pre \in Seq(STRING) /\ post \in Seq(STRING) /\ AreFlags(pre) /\ name \notin Line!Flags
        /\ letters = (pre \o <<letter>>) \o post
    BY <2>1 DEF letter
  <2> HIDE DEF pre, post
  <2>4. Line!TakeCluster(b, letters) =
           IF name = None THEN Line!Failed
           ELSE IF post # <<>> THEN Reader(b.at, None, Append(taken, pair))
           ELSE Reader(b.at, name, taken)
    <3>1. Line!TakeCluster(b, letters) =
             IF Line!ByShort(letter) = None THEN Line!Failed
             ELSE IF post # <<>>
               THEN Reader(b.at, b.pending,
                           Append(b.taken \o FlagsOf(pre), <<Line!ByShort(letter), post>>))
               ELSE Reader(b.at, Line!ByShort(letter), b.taken \o FlagsOf(pre))
      BY <2>2, <2>3, ClusterOwner
    <3> QED BY <3>1
  <2>5. taken \in Seq(Pair) /\ Extends(b.taken, taken)
    <3>1. FlagsOf(pre) \in Seq(Pair)
      BY <2>3, FlagsAre
    <3> QED BY <1>1, <3>1, ExtendsByMore
  <2>6. name # None => name \in OwnerNames /\ name \in Line!Known
    BY <2>3, ShortNames, NamesApart
  <2>7. name # None => pair \in Pair
    BY <2>3, <2>6 DEF Pair
  <2> HIDE DEF name, taken, pair
  <2>8. name # None => Grows(b, Reader(b.at, name, taken))
    BY <1>1, <2>5, <2>6, GrownIs DEF Grows
  <2>9. name # None => Grows(b, Reader(b.at, None, Append(taken, pair)))
    <3> SUFFICES ASSUME name # None PROVE Grows(b, Reader(b.at, None, Append(taken, pair)))
      OBVIOUS
    <3>1. Append(taken, pair) \in Seq(Pair) /\ Extends(taken, Append(taken, pair))
      BY <2>5, <2>7, ExtendsByOne
    <3>2. Extends(b.taken, Append(taken, pair))
      BY <1>1, <2>5, <3>1, ExtendsFurther
    <3> QED BY <1>1, <3>1, <3>2, GrownIs DEF Grows
  <2> QED BY <2>4, <2>8, <2>9, FailedGrows
<1> QED BY <1>2, <1>3

LEMMA StepGrows ==
  ASSUME NEW acc \in Readers, NEW arg \in Line!Argument
  PROVE  Grows(acc, Line!GetoptsStep(acc, arg))
<1> DEFINE r == Line!GetoptsStep(acc, arg)
<1>0. acc.at \in Places /\ acc.pending \in OwnerNames \cup {None} /\ acc.taken \in Seq(Pair)
  BY ReaderIs
<1>1. CASE acc.at = "failed"
  BY <1>1, StepFailed DEF Grows
<1>2. CASE acc.at # "failed" /\ arg.kind = "word" /\ acc.pending = None
  BY <1>2, StepStray, FailedGrows
<1>3. CASE acc.at # "failed" /\ arg.kind = "word" /\ acc.pending # None
  <2> DEFINE value == arg.word
             taken == Append(acc.taken, <<acc.pending, value>>)
  <2>1. acc.pending \in Line!Known /\ value \in Seq(STRING)
    BY <1>0, <1>3, ArgumentIs, NamesApart
  <2>2. <<acc.pending, value>> \in Pair /\ <<acc.pending, None>> \in Pair
    BY <2>1 DEF Pair
  <2>3. r = Reader(acc.at, None, taken)
    BY <1>3, StepValue
  <2>4. taken \in Seq(Pair) /\ Taken(acc) = Append(acc.taken, <<acc.pending, None>>)
    BY <1>0, <1>3, <2>2, ExtendsByOne DEF Taken
  <2>5. Extends(Taken(acc), taken)
    <3>1. Extends(Append(acc.taken, <<acc.pending, None>>), Append(acc.taken, <<acc.pending, value>>))
      BY <1>0, <2>2, ExtendsValue
    <3> QED BY <2>4, <3>1
  <2>6. Taken(acc) \in Seq(Pair)
    BY TakenIs
  <2> HIDE DEF taken, r, value
  <2> QED BY <1>0, <1>3, <2>3, <2>4, <2>5, <2>6, GrownIs DEF Grows, r
<1>4. CASE acc.at # "failed" /\ arg.kind # "word" /\ acc.pending \in Line!Valued
  BY <1>4, StepWaiting, FailedGrows
<1>5. CASE acc.at # "failed" /\ arg.kind # "word" /\ acc.pending \notin Line!Valued
  <2> DEFINE b == Reader(acc.at, None, Taken(acc))
  <2>1. /\ b \in Readers
        /\ r = IF acc.at = "ended" \/ arg.kind = "garbage" THEN Line!Failed
               ELSE IF arg.kind = "end" THEN Reader("ended", None, Taken(acc))
               ELSE IF arg.kind = "long" THEN Line!TakeLong(b, arg.name, arg.value)
               ELSE Line!TakeCluster(b, arg.letters)
    BY <1>5, StepOther
  <2>2. Taken(acc) \in Seq(Pair)
    BY TakenIs
  <2>3. b.at = acc.at /\ b.pending = None /\ Taken(b) = Taken(acc)
    <3>1. b.at = acc.at /\ b.pending = None /\ b.taken = Taken(acc)
      BY ReaderFields
    <3> QED BY <3>1 DEF Taken
  <2> HIDE DEF b, r
  <2>4. Grows(acc, Reader("ended", None, Taken(acc)))
    <3>1. "ended" \in Places /\ Extends(Taken(acc), Taken(acc))
      BY <2>2, ExtendsItself DEF Places
    <3> QED BY <1>5, <2>2, <3>1, GrownIs DEF Grows
  <2>5. \A s : Grows(b, s) => Grows(acc, s)
    BY <2>3 DEF Grows
  <2>6. arg.kind = "long" => Grows(b, Line!TakeLong(b, arg.name, arg.value))
    BY <1>5, <2>1, <2>3, ArgumentIs, LongGrows
  <2>7. arg.kind = "cluster" => Grows(b, Line!TakeCluster(b, arg.letters))
    BY <1>5, <2>1, <2>3, ArgumentIs, ClusterGrows
  <2>8. arg.kind \in {"long", "cluster", "word", "end", "garbage"}
    BY ArgumentIs
  <2> QED BY <1>5, <2>1, <2>4, <2>5, <2>6, <2>7, <2>8, FailedGrows DEF r
<1> QED BY <1>1, <1>2, <1>3, <1>4, <1>5

(* A reading that can only fail: it has, or one option came twice. *)
Lost(acc) == acc.at = "failed" \/ ~Once(Taken(acc))

LEMMA LostStays ==
  ASSUME NEW acc \in Readers, Lost(acc), NEW arg \in Line!Argument
  PROVE  Lost(Line!GetoptsStep(acc, arg))
<1> DEFINE r == Line!GetoptsStep(acc, arg)
<1>1. Grows(acc, r)
  BY StepGrows
<1> HIDE DEF r
<1>2. CASE r.at = "failed"
  BY <1>2 DEF Lost, r
<1>3. CASE r.at # "failed"
  <2>1. Extends(Taken(acc), Taken(r)) /\ r \in Readers /\ ~Once(Taken(acc))
    BY <1>1, <1>3 DEF Grows, Lost
  <2>2. ~Once(Taken(r))
    BY <2>1, TakenIs, OnceOfLess
  <2> QED BY <2>2 DEF Lost, r
<1> QED BY <1>2, <1>3

GetoptsReads == [q \in Readers \X Line!Argument |-> Line!GetoptsStep(q[1], q[2])]

LEMMA GetoptsIsAutomaton == Automaton(GetoptsReads, Readers, Line!Argument)
<1>1. \A acc \in Readers, arg \in Line!Argument : Line!GetoptsStep(acc, arg) \in Readers
  BY StepGrows DEF Grows
<1> QED BY <1>1 DEF Automaton, GetoptsReads

LEMMA GetoptsReadsOne ==
  ASSUME NEW acc \in Readers, NEW arg \in Line!Argument
  PROVE  Run(GetoptsReads, acc, <<arg>>) = Line!GetoptsStep(acc, arg)
<1>1. Run(GetoptsReads, acc, <<arg>>) = GetoptsReads[<<acc, arg>>]
  BY GetoptsIsAutomaton, RunOfOne
<1>2. GetoptsReads[<<acc, arg>>] = Line!GetoptsStep(acc, arg)
  BY DEF GetoptsReads
<1> QED BY <1>1, <1>2

(* The fold of getopts is a run. *)
LEMMA GetoptsRuns ==
  ASSUME NEW base \in Readers, NEW text \in Seq(Line!Argument)
  PROVE  Line!FoldLeft(Line!GetoptsStep, base, text) = Run(GetoptsReads, base, text)
<1> DEFINE F(h) == h = [s \in SUBSET (DOMAIN text) |->
                          IF s = {} THEN base
                          ELSE Line!GetoptsStep(h[s \ {Max(s)}], text[Max(s)])]
           H == CHOOSE h : F(h)
           n == Len(text)
<1>1. Line!FoldLeft(Line!GetoptsStep, base, text) = H[DOMAIN text]
  BY DEF Line!FoldLeft, Line!MapThenFoldSet, Line!Max, Max
<1>2. n \in Nat /\ DOMAIN text = 1..n /\ \A k \in 1..n : text[k] \in Line!Argument
  OBVIOUS
<1>3. \A s \in SUBSET (1..n) : s # {} => text[Max(s)] \in Line!Argument
  BY <1>2, MaxIs
<1>4. \A v \in Readers, c \in Line!Argument : GetoptsReads[<<v, c>>] = Line!GetoptsStep(v, c)
  BY DEF GetoptsReads
<1>5. PICK g \in [SUBSET (1..n) -> Readers] : Unfolds(g, GetoptsReads, base, text)
  BY UnfoldExists, GetoptsIsAutomaton
<1>6. \E h : F(h)
  <2>1. ASSUME NEW s \in SUBSET (1..n)
        PROVE  g[s] = IF s = {} THEN base ELSE Line!GetoptsStep(g[s \ {Max(s)}], text[Max(s)])
    <3>1. s \ {Max(s)} \in SUBSET (1..n)
      OBVIOUS
    <3>2. g[s \ {Max(s)}] \in Readers
      BY <3>1
    <3> QED BY <1>3, <1>4, <1>5, <3>2 DEF Unfolds
  <2>2. F(g)
    BY <1>2, <2>1
  <2> QED BY <2>2
<1>7. F(H)
  <2> HIDE DEF F
  <2> QED BY <1>6
<1> HIDE DEF H
<1>8. \A s \in SUBSET (1..n) :
        H[s] = IF s = {} THEN base ELSE Line!GetoptsStep(H[s \ {Max(s)}], text[Max(s)])
  BY <1>2, <1>7
<1>9. H[{}] = base
  <2>1. {} \in SUBSET (1..n)
    OBVIOUS
  <2> QED BY <1>8, <2>1
<1>10. \A s \in SUBSET (1..n) :
         (s # {} /\ H[s \ {Max(s)}] \in Readers) =>
           H[s] = GetoptsReads[<<H[s \ {Max(s)}], text[Max(s)]>>]
  BY <1>3, <1>4, <1>8
<1>11. H[1..n] = Run(GetoptsReads, base, text)
  <2>1. text \in Seq(Line!Argument)
    OBVIOUS
  <2>2. Follows(H, Readers, GetoptsReads, base, text)
    BY <1>9, <1>10 DEF Follows
  <2> HIDE DEF F
  <2> QED BY <2>1, <2>2, UnfoldRuns, GetoptsIsAutomaton
<1> QED BY <1>1, <1>2, <1>11

-----------------------------------------------------------------------------
(* What is left of a word of letters                                       *)

Leaves(p, letters, dropped) ==
  /\ p \in [0..Len(letters) -> Seq(STRING)] /\ p[0] = <<>>
  /\ \A k \in 1..Len(letters) :
       p[k] = IF k \in dropped THEN p[k - 1] ELSE Append(p[k - 1], letters[k])

(* The letters that are left of the first k, for every k. *)
Left(letters, dropped) == CHOOSE p : Leaves(p, letters, dropped)

LEMMA LeavesAgree ==
  ASSUME NEW letters \in Seq(STRING), NEW p, NEW q, NEW D, NEW E,
         Leaves(p, letters, D), Leaves(q, letters, E),
         NEW m \in 0..Len(letters), \A k \in 1..m : (k \in D <=> k \in E)
  PROVE  \A j \in 0..m : p[j] = q[j]
<1> DEFINE T == {k \in Nat : k <= m => p[k] = q[k]}
<1>1. 0 \in T
  BY DEF Leaves
<1>2. ASSUME NEW k \in T PROVE k + 1 \in T
  <2> SUFFICES ASSUME k + 1 <= m PROVE p[k + 1] = q[k + 1]
    OBVIOUS
  <2>1. k + 1 \in 1..m /\ k + 1 \in 1..Len(letters) /\ (k + 1) - 1 = k /\ p[k] = q[k]
    OBVIOUS
  <2>2. p[k + 1] = IF k + 1 \in D THEN p[k] ELSE Append(p[k], letters[k + 1])
    BY <2>1 DEF Leaves
  <2>3. q[k + 1] = IF k + 1 \in E THEN q[k] ELSE Append(q[k], letters[k + 1])
    BY <2>1 DEF Leaves
  <2> QED BY <2>1, <2>2, <2>3
<1>3. T = Nat
  <2> HIDE DEF T
  <2>1. T \subseteq Nat
    BY DEF T
  <2> QED BY <1>1, <1>2, <2>1, Induction
<1> TAKE j \in 0..m
<1>4. j \in T /\ j <= m
  <2> HIDE DEF T
  <2> QED BY <1>3
<1> QED BY <1>4

(* Flattening what is kept of each letter leaves them. *)
LettersLeft(letters, dropped) ==
  Line!FlattenSeq([k \in DOMAIN letters |-> IF k \in dropped THEN <<>> ELSE <<letters[k]>>])

LEMMA LeavesExist ==
  ASSUME NEW letters \in Seq(STRING), NEW dropped
  PROVE  \E p : Leaves(p, letters, dropped) /\ LettersLeft(letters, dropped) = p[Len(letters)]
<1> DEFINE n == Len(letters)
           seqs == [k \in 1..n |-> IF k \in dropped THEN <<>> ELSE <<letters[k]>>]
<1>1. n \in Nat /\ DOMAIN letters = 1..n
  OBVIOUS
<1>2. seqs \in [1..n -> Seq(STRING)]
  <2>1. \A k \in 1..n : <<letters[k]>> \in Seq(STRING) /\ <<>> \in Seq(STRING)
    OBVIOUS
  <2> QED BY <2>1
<1>3. LettersLeft(letters, dropped) = Line!FlattenSeq(seqs)
  BY <1>1 DEF LettersLeft
<1>a. \A k \in 1..n : seqs[k] = IF k \in dropped THEN <<>> ELSE <<letters[k]>>
  OBVIOUS
<1>b. \A k \in 1..n : letters[k] \in STRING
  OBVIOUS
<1> HIDE DEF seqs, n
<1>4. PICK p \in [0..n -> Seq(STRING)] :
        /\ p[0] = <<>> /\ \A k \in 1..n : p[k] = p[k - 1] \o seqs[k]
        /\ Line!FlattenSeq(seqs) = p[n]
  BY <1>1, <1>2, FlattenIs
<1>5. ASSUME NEW k \in 1..n
      PROVE  p[k] = IF k \in dropped THEN p[k - 1] ELSE Append(p[k - 1], letters[k])
  <2>1. p[k - 1] \in Seq(STRING) /\ p[k] = p[k - 1] \o seqs[k] /\ letters[k] \in STRING
    <3>1. k \in 0..n /\ k - 1 \in 0..n
      BY <1>1
    <3>2. p[k - 1] \in Seq(STRING)
      BY <1>4, <3>1
    <3> QED BY <1>4, <1>b, <3>2
  <2>2. p[k - 1] \o <<>> = p[k - 1] /\ p[k - 1] \o <<letters[k]>> = Append(p[k - 1], letters[k])
    BY <2>1
  <2> QED BY <1>a, <2>1, <2>2
<1>6. Leaves(p, letters, dropped)
  BY <1>4, <1>5 DEF Leaves, n
<1> QED BY <1>3, <1>4, <1>6 DEF n

LEMMA LeftIs ==
  ASSUME NEW letters \in Seq(STRING), NEW dropped
  PROVE  /\ Leaves(Left(letters, dropped), letters, dropped)
         /\ LettersLeft(letters, dropped) = Left(letters, dropped)[Len(letters)]
<1>1. PICK p : Leaves(p, letters, dropped) /\ LettersLeft(letters, dropped) = p[Len(letters)]
  BY LeavesExist
<1>2. Leaves(Left(letters, dropped), letters, dropped)
  BY <1>1 DEF Left
<1> DEFINE q == Left(letters, dropped)
<1>3. Len(letters) \in 0..Len(letters)
  OBVIOUS
<1> HIDE DEF q
<1>4. \A j \in 0..Len(letters) : p[j] = q[j]
  BY <1>1, <1>2, <1>3, LeavesAgree DEF q
<1> QED BY <1>1, <1>2, <1>3, <1>4 DEF q

(* Dropping letters further on changes nothing here. *)
LEMMA LeftAgrees ==
  ASSUME NEW letters \in Seq(STRING), NEW D, NEW E,
         NEW m \in 0..Len(letters), \A k \in 1..m : (k \in D <=> k \in E)
  PROVE  Left(letters, D)[m] = Left(letters, E)[m]
<1>1. Leaves(Left(letters, D), letters, D) /\ Leaves(Left(letters, E), letters, E)
  BY LeftIs
<1>2. m \in 0..m
  OBVIOUS
<1>3. \A j \in 0..m : Left(letters, D)[j] = Left(letters, E)[j]
  BY <1>1, LeavesAgree
<1> QED BY <1>2, <1>3

LEMMA LeftStep ==
  ASSUME NEW letters \in Seq(STRING), NEW D, NEW k \in 1..Len(letters)
  PROVE  /\ Left(letters, D)[k - 1] \in Seq(STRING) /\ Left(letters, D)[k] \in Seq(STRING)
         /\ Left(letters, D)[0] = <<>>
         /\ Left(letters, D)[k] = IF k \in D THEN Left(letters, D)[k - 1]
                                  ELSE Append(Left(letters, D)[k - 1], letters[k])
<1>1. Leaves(Left(letters, D), letters, D)
  BY LeftIs
<1>2. k - 1 \in 0..Len(letters) /\ k \in 0..Len(letters)
  OBVIOUS
<1> QED BY <1>1, <1>2 DEF Leaves

(* Nothing is left of what is dropped to the end. *)
LEMMA LeftDropped ==
  ASSUME NEW letters \in Seq(STRING), NEW D, NEW m \in 0..Len(letters),
         \A k \in 1..Len(letters) : k > m => k \in D
  PROVE  Left(letters, D)[Len(letters)] = Left(letters, D)[m]
<1> DEFINE n == Len(letters)
           p == Left(letters, D)
           T == {k \in Nat : m + k <= n => p[m + k] = p[m]}
<1>1. 0 \in T
  OBVIOUS
<1>2. ASSUME NEW k \in T PROVE k + 1 \in T
  <2> SUFFICES ASSUME m + (k + 1) <= n PROVE p[m + (k + 1)] = p[m]
    OBVIOUS
  <2>1. /\ m + (k + 1) \in 1..n /\ (m + (k + 1)) - 1 = m + k /\ m + (k + 1) > m
        /\ p[m + k] = p[m]
    OBVIOUS
  <2>2. m + (k + 1) \in D
    BY <2>1
  <2> QED BY <2>1, <2>2, LeftStep
<1>3. T = Nat
  <2> HIDE DEF T
  <2>1. T \subseteq Nat
    BY DEF T
  <2> QED BY <1>1, <1>2, <2>1, Induction
<1>4. n - m \in T /\ m + (n - m) = n
  <2>1. n - m \in Nat /\ m + (n - m) = n
    OBVIOUS
  <2> HIDE DEF T
  <2> QED BY <1>3, <2>1
<1> QED BY <1>4

(* All is left of what is kept to the end. *)
MovesIn(s, t, c) == Append(s \o t, c) = s \o Append(t, c)

LEMMA AppendJoins ==
  ASSUME NEW C, NEW s \in Seq(C), NEW t \in Seq(C), NEW c \in C
  PROVE  MovesIn(s, t, c)
<1> DEFINE one == <<c>>
<1>1. one \in Seq(C) /\ s \o t \in Seq(C)
  OBVIOUS
<1>2. Append(s \o t, c) = (s \o t) \o one
  BY <1>1, AppendIsConcat
<1>3. Append(t, c) = t \o one
  BY <1>1, AppendIsConcat
<1> HIDE DEF one
<1>4. (s \o t) \o one = s \o (t \o one)
  BY <1>1, ConcatAssociative
<1> QED BY <1>2, <1>3, <1>4 DEF MovesIn

LEMMA LetterJoins ==
  ASSUME NEW s \in Seq(STRING), NEW t \in Seq(STRING), NEW c \in STRING
  PROVE  Append(s \o t, c) = s \o Append(t, c)
<1>1. MovesIn(s, t, c)
  BY AppendJoins
<1> QED BY <1>1 DEF MovesIn

LEMMA LeftKept ==
  ASSUME NEW letters \in Seq(STRING), NEW D, NEW m \in 0..Len(letters),
         \A k \in 1..Len(letters) : k > m => k \notin D
  PROVE  Left(letters, D)[Len(letters)] = Left(letters, D)[m] \o SubSeq(letters, m + 1, Len(letters))
<1> DEFINE n == Len(letters)
           p == Left(letters, D)
           Good(k) == p[m + k] = p[m] \o SubSeq(letters, m + 1, m + k)
           T == {k \in Nat : m + k <= n => Good(k)}
<1>0. p[m] \in Seq(STRING) /\ n \in Nat
  <2>1. Leaves(p, letters, D)
    BY LeftIs
  <2> QED BY <2>1 DEF Leaves
<1> HIDE DEF p
<1>1. 0 \in T
  <2>1. SubSeq(letters, m + 1, m + 0) = <<>>
    OBVIOUS
  <2>2. p[m] \o <<>> = p[m] /\ m + 0 = m
    BY <1>0
  <2>3. Good(0)
    BY <2>1, <2>2
  <2> HIDE DEF Good
  <2> QED BY <2>3
<1>2. ASSUME NEW k \in T PROVE k + 1 \in T
  <2>0. k \in Nat /\ k + 1 \in Nat
    OBVIOUS
  <2> HIDE DEF Good
  <2> SUFFICES ASSUME m + (k + 1) <= n PROVE Good(k + 1)
    BY <2>0
  <2>1. /\ m + (k + 1) \in 1..n /\ (m + (k + 1)) - 1 = m + k /\ m + (k + 1) > m
        /\ m + k <= n /\ m + 1 \in 1..n /\ m + k \in 0..n
    BY <1>0, <2>0
  <2>a. Good(k)
    BY <2>1
  <2>2. m + (k + 1) \notin D
    BY <2>1
  <2>3. p[m + (k + 1)] = Append(p[m + k], letters[m + (k + 1)])
    <3> DEFINE j == m + (k + 1)
    <3>1. j \in 1..Len(letters) /\ j \notin D /\ j - 1 = m + k
      BY <2>1, <2>2
    <3> HIDE DEF j
    <3>a. Leaves(p, letters, D)
      BY LeftIs DEF p
    <3>2. p[j] = Append(p[j - 1], letters[j])
      BY <3>1, <3>a DEF Leaves
    <3> QED BY <3>1, <3>2 DEF j
  <2> DEFINE s == SubSeq(letters, m + 1, m + k)
             c == letters[m + (k + 1)]
  <2>4. SubSeq(letters, m + 1, m + (k + 1)) = Append(s, c)
    BY <2>1
  <2>5. s \in Seq(STRING) /\ c \in STRING
    BY <2>1
  <2>b. p[m + k] = p[m] \o s
    BY <2>a DEF Good
  <2> HIDE DEF s, c
  <2>6. Append(p[m] \o s, c) = p[m] \o Append(s, c)
    <3> DEFINE a == p[m]
    <3>1. a \in Seq(STRING)
      BY <1>0
    <3> HIDE DEF a
    <3>2. Append(a \o s, c) = a \o Append(s, c)
      BY <2>5, <3>1, LetterJoins
    <3> QED BY <3>2 DEF a
  <2>7. p[m + (k + 1)] = p[m] \o SubSeq(letters, m + 1, m + (k + 1))
    BY <2>3, <2>4, <2>6, <2>b DEF c
  <2> QED BY <2>7 DEF Good
<1>3. T = Nat
  <2> HIDE DEF T
  <2>1. T \subseteq Nat
    BY DEF T
  <2> QED BY <1>1, <1>2, <2>1, Induction
<1>4. n - m \in T /\ m + (n - m) = n /\ m + (n - m) <= n
  <2>1. n - m \in Nat /\ m + (n - m) = n
    OBVIOUS
  <2> HIDE DEF T
  <2> QED BY <1>3, <2>1
<1>5. p[m + (n - m)] = p[m] \o SubSeq(letters, m + 1, m + (n - m))
  BY <1>4
<1> QED BY <1>4, <1>5 DEF p

LEMMA LeftWhole ==
  ASSUME NEW letters \in Seq(STRING), NEW D, \A k \in 1..Len(letters) : k \notin D
  PROVE  Left(letters, D)[Len(letters)] = letters
<1>1. Leaves(Left(letters, D), letters, D) /\ 0 \in 0..Len(letters)
  BY LeftIs
<1>2. Left(letters, D)[Len(letters)] = Left(letters, D)[0] \o SubSeq(letters, 0 + 1, Len(letters))
  BY <1>1, LeftKept
<1>3. Left(letters, D)[0] = <<>>
  BY <1>1 DEF Leaves
<1>4. <<>> \o SubSeq(letters, 0 + 1, Len(letters)) = letters
  OBVIOUS
<1> QED BY <1>2, <1>3, <1>4

-----------------------------------------------------------------------------
(* A line with some of it dropped, argument by argument                    *)

(* The letters of an argument that are dropped. *)
Dropped(drop, i) == {k \in Nat : <<i, k>> \in drop}

(* What is left of a word of letters in the end. *)
Remains(letters, dropped) == Left(letters, dropped)[Len(letters)]

ClusterOf(letters) == IF letters = <<>> THEN <<>> ELSE <<Line!Cluster(letters)>>

Piece(line, drop, i) ==
  IF <<i, 0>> \in drop THEN <<>>
  ELSE IF line[i].kind = "cluster" THEN ClusterOf(Remains(line[i].letters, Dropped(drop, i)))
  ELSE <<line[i]>>

Pieces(line, drop) == [i \in 1..Len(line) |-> Piece(line, drop, i)]

LEMMA RemainsIs ==
  ASSUME NEW letters \in Seq(STRING), NEW dropped
  PROVE  Remains(letters, dropped) \in Seq(STRING)
<1>1. Leaves(Left(letters, dropped), letters, dropped) /\ Len(letters) \in 0..Len(letters)
  BY LeftIs
<1> QED BY <1>1 DEF Leaves, Remains

LEMMA ClusterOfIs ==
  ASSUME NEW letters \in Seq(STRING)
  PROVE  ClusterOf(letters) \in Seq(Line!Argument)
<1> DEFINE C == Line!Argument
           c == Line!Cluster(letters)
<1>1. letters # <<>> => c \in C
  BY ClusterIs
<1> HIDE DEF C, c
<1>2. letters # <<>> => <<c>> \in Seq(C)
  BY <1>1
<1>3. <<>> \in Seq(C)
  OBVIOUS
<1> QED BY <1>2, <1>3 DEF ClusterOf, C, c

LEMMA PieceIs ==
  ASSUME NEW line \in Seq(Line!Argument), NEW drop, NEW i \in 1..Len(line)
  PROVE  Piece(line, drop, i) \in Seq(Line!Argument)
<1> DEFINE C == Line!Argument
           c == line[i]
<1>1. c \in C
  <2> HIDE DEF C
  <2>1. line \in Seq(C)
    BY DEF C
  <2> QED BY <2>1
<1>2. c.kind = "cluster" => ClusterOf(Remains(c.letters, Dropped(drop, i))) \in Seq(C)
  BY <1>1, ArgumentIs, RemainsIs, ClusterOfIs
<1> HIDE DEF C, c
<1>3. <<c>> \in Seq(C) /\ <<>> \in Seq(C)
  BY <1>1
<1> QED BY <1>2, <1>3 DEF Piece, c, C

(* The line that Without leaves is the line of the pieces. *)
LEMMA WithoutIs ==
  ASSUME NEW drop, args \in Seq(Line!Argument)
  PROVE  Line!Without(drop) = Line!FlattenSeq(Pieces(args, drop))
<1>1. DOMAIN args = 1..Len(args)
  OBVIOUS
<1> DEFINE letters(i) ==
             Line!FlattenSeq([k \in DOMAIN args[i].letters |->
                                IF <<i, k>> \in drop THEN <<>> ELSE <<args[i].letters[k]>>])
           left(i) ==
             CASE <<i, 0>> \in drop -> <<>>
               [] <<i, 0>> \notin drop /\ args[i].kind = "cluster" ->
                    IF letters(i) = <<>> THEN <<>> ELSE <<Line!Cluster(letters(i))>>
               [] OTHER -> <<args[i]>>
<1>2. Line!Without(drop) = Line!FlattenSeq([i \in DOMAIN args |-> left(i)])
  BY DEF Line!Without
<1>3. ASSUME NEW i \in 1..Len(args), args[i].kind = "cluster"
      PROVE  letters(i) = Remains(args[i].letters, Dropped(drop, i))
  <2> DEFINE w == args[i].letters
  <2>1. w \in Seq(STRING)
    <3>1. args[i] \in Line!Argument
      OBVIOUS
    <3> QED BY <1>3, <3>1, ArgumentIs
  <2>2. \A k \in DOMAIN w : <<i, k>> \in drop <=> k \in Dropped(drop, i)
    BY <2>1 DEF Dropped
  <2>3. LettersLeft(w, Dropped(drop, i))
          = Line!FlattenSeq([k \in DOMAIN w |-> IF <<i, k>> \in drop THEN <<>> ELSE <<w[k]>>])
    <3> HIDE DEF w
    <3>1. [k \in DOMAIN w |-> IF <<i, k>> \in drop THEN <<>> ELSE <<w[k]>>]
           = [k \in DOMAIN w |-> IF k \in Dropped(drop, i) THEN <<>> ELSE <<w[k]>>]
      BY <2>2
    <3> QED BY <3>1 DEF LettersLeft
  <2> QED BY <2>1, <2>3, LeftIs DEF Remains
<1> HIDE DEF letters
<1>4. \A i \in 1..Len(args) : left(i) = Piece(args, drop, i)
  BY <1>3 DEF Piece, ClusterOf
<1> HIDE DEF left
<1>5. [i \in DOMAIN args |-> left(i)] = Pieces(args, drop)
  BY <1>1, <1>4 DEF Pieces
<1> QED BY <1>2, <1>5

-----------------------------------------------------------------------------
(* The states of getopts in front of the arguments                         *)

Goes(s, line, drop) ==
  /\ s \in [0..Len(line) -> Readers]
  /\ s[0] = Line!Getting("options")
  /\ \A k \in 1..Len(line) : s[k] = Run(GetoptsReads, s[k - 1], Piece(line, drop, k))

At(line, drop) == CHOOSE s : Goes(s, line, drop)

LEMMA StartsToRead ==
  /\ Line!Getting("options") = Reader("options", None, <<>>)
  /\ Line!Getting("options") \in Readers
<1>1. <<>> \in Seq(Pair) /\ "options" \in Places
  BY DEF Places
<1>2. Line!Getting("options") = Reader("options", None, <<>>)
  BY DEF Line!Getting, Reader
<1>3. Line!Getting("options") \in Readers
  BY <1>1, <1>2, ReaderHas
<1> QED BY <1>2, <1>3

LEMMA AtExists ==
  ASSUME NEW line \in Seq(Line!Argument), NEW drop
  PROVE  Goes(At(line, drop), line, drop)
<1> DEFINE C == Seq(Line!Argument)
           V == Readers
           n == Len(line)
           seqs == Pieces(line, drop)
           step == [q \in V \X C |-> Run(GetoptsReads, q[1], q[2])]
           base == Line!Getting("options")
<1>1. n \in Nat /\ \A k \in 1..n : Piece(line, drop, k) \in C
  BY PieceIs
<1>2. \A v \in V, c \in C : Run(GetoptsReads, v, c) \in V
  BY GetoptsIsAutomaton, RunStays
<1>3. base \in V
  BY StartsToRead
<1> HIDE DEF C, V, base, n
<1>4. seqs \in Seq(C) /\ Len(seqs) = n /\ \A k \in 1..n : seqs[k] = Piece(line, drop, k)
  <2>1. seqs \in [1..n -> C] /\ \A k \in 1..n : seqs[k] = Piece(line, drop, k)
    BY <1>1 DEF Pieces, n
  <2> HIDE DEF seqs
  <2> QED BY <1>1, <2>1
<1> HIDE DEF seqs
<1>5. Automaton(step, V, C) /\ \A v \in V, c \in C : step[<<v, c>>] = Run(GetoptsReads, v, c)
  BY <1>2 DEF Automaton
<1> HIDE DEF step
<1>6. PICK p \in [0..Len(seqs) -> V] : IsRun(p, step, base, seqs)
  BY <1>3, <1>4, <1>5, RunExists
<1>7. p \in [0..n -> V] /\ p[0] = base
  BY <1>4, <1>6 DEF IsRun
<1>8. ASSUME NEW k \in 1..n PROVE p[k] = Run(GetoptsReads, p[k - 1], Piece(line, drop, k))
  <2>1. p[k] = step[<<p[k - 1], seqs[k]>>] /\ seqs[k] = Piece(line, drop, k)
    BY <1>4, <1>6 DEF IsRun
  <2>2. k - 1 \in 0..n /\ p[k - 1] \in V
    BY <1>1, <1>7
  <2> QED BY <1>1, <1>5, <2>1, <2>2
<1>9. Goes(p, line, drop)
  BY <1>7, <1>8 DEF Goes, n, V, base
<1> QED BY <1>9 DEF At

LEMMA AtIs ==
  ASSUME NEW line \in Seq(Line!Argument), NEW drop, NEW k \in 1..Len(line)
  PROVE  /\ At(line, drop)[k - 1] \in Readers /\ At(line, drop)[k] \in Readers
         /\ At(line, drop)[k] = Run(GetoptsReads, At(line, drop)[k - 1], Piece(line, drop, k))
<1>1. Goes(At(line, drop), line, drop)
  BY AtExists
<1>2. k \in 0..Len(line) /\ k - 1 \in 0..Len(line)
  OBVIOUS
<1> QED BY <1>1, <1>2 DEF Goes

LEMMA AtStarts ==
  ASSUME NEW line \in Seq(Line!Argument), NEW drop
  PROVE  At(line, drop)[0] = Line!Getting("options")
BY AtExists DEF Goes

(* The first pieces decide on the first states. *)
LEMMA AtAgree ==
  ASSUME NEW line \in Seq(Line!Argument), NEW D, NEW E, NEW m \in 0..Len(line),
         \A k \in 1..m : Piece(line, D, k) = Piece(line, E, k)
  PROVE  \A j \in 0..m : At(line, D)[j] = At(line, E)[j]
<1> DEFINE p == At(line, D)
           q == At(line, E)
           T == {k \in Nat : k <= m => p[k] = q[k]}
<1>0. p[0] = q[0]
  BY AtStarts
<1>a. \A k \in 1..Len(line) : /\ p[k] = Run(GetoptsReads, p[k - 1], Piece(line, D, k))
                              /\ q[k] = Run(GetoptsReads, q[k - 1], Piece(line, E, k))
  BY AtIs
<1> HIDE DEF p, q
<1>1. 0 \in T
  BY <1>0
<1>2. ASSUME NEW k \in T PROVE k + 1 \in T
  <2> SUFFICES ASSUME k + 1 <= m PROVE p[k + 1] = q[k + 1]
    OBVIOUS
  <2>1. k + 1 \in 1..m /\ k + 1 \in 1..Len(line) /\ (k + 1) - 1 = k /\ p[k] = q[k]
    OBVIOUS
  <2>2. /\ p[k + 1] = Run(GetoptsReads, p[k], Piece(line, D, k + 1))
        /\ q[k + 1] = Run(GetoptsReads, q[k], Piece(line, E, k + 1))
    BY <1>a, <2>1
  <2>3. Piece(line, D, k + 1) = Piece(line, E, k + 1)
    BY <2>1
  <2> QED BY <2>1, <2>2, <2>3
<1>3. T = Nat
  <2> HIDE DEF T
  <2>1. T \subseteq Nat
    BY DEF T
  <2> QED BY <1>1, <1>2, <2>1, Induction
<1> TAKE j \in 0..m
<1>4. j \in T /\ j <= m
  <2> HIDE DEF T
  <2> QED BY <1>3
<1> QED BY <1>4 DEF p, q

(* The end of the line is the end of the states. *)
LEMMA ReadsToTheEnd ==
  ASSUME NEW drop, args \in Seq(Line!Argument)
  PROVE  /\ Line!FoldLeft(Line!GetoptsStep, Line!Getting("options"), Line!Without(drop))
              = At(args, drop)[Len(args)]
         /\ At(args, drop)[Len(args)] \in Readers
<1> DEFINE C == Line!Argument
           s == At(args, drop)
           seqs == Pieces(args, drop)
           base == Line!Getting("options")
           n == Len(args)
<1>1. Goes(s, args, drop)
  BY AtExists
<1>2. n \in Nat /\ s \in [0..n -> Readers] /\ s[0] = base
      /\ \A k \in 1..n : s[k] = Run(GetoptsReads, s[k - 1], Piece(args, drop, k))
  BY <1>1 DEF Goes
<1>3. \A k \in 1..n : Piece(args, drop, k) \in Seq(C)
  BY PieceIs
<1>4. Line!Without(drop) = Line!FlattenSeq(seqs)
  BY WithoutIs
<1> HIDE DEF C, s, base, n
<1>5. seqs \in [1..n -> Seq(C)] /\ \A k \in 1..n : seqs[k] = Piece(args, drop, k)
  BY <1>3 DEF Pieces, n
<1> HIDE DEF seqs
<1>6. seqs \in Seq(Seq(C)) /\ Len(seqs) = n
  BY <1>2, <1>5
<1>7. Passes(s, Readers, GetoptsReads, seqs)
  BY <1>2, <1>5, <1>6 DEF Passes
<1>8. Run(GetoptsReads, s[0], Line!FlattenSeq(seqs)) = s[Len(seqs)]
  BY <1>6, <1>7, RunFlattens, GetoptsIsAutomaton DEF C
<1>9. Line!FlattenSeq(seqs) \in Seq(C)
  <2>1. PICK p \in [0..n -> Seq(C)] :
          /\ p[0] = <<>> /\ \A k \in 1..n : p[k] = p[k - 1] \o seqs[k]
          /\ Line!FlattenSeq(seqs) = p[n]
    BY <1>2, <1>5, FlattenIs
  <2> QED BY <1>2, <2>1
<1>10. base \in Readers
  BY StartsToRead DEF base
<1>11. Line!FoldLeft(Line!GetoptsStep, base, Line!FlattenSeq(seqs)) = Run(GetoptsReads, base, Line!FlattenSeq(seqs))
  BY <1>9, <1>10, GetoptsRuns DEF C
<1>12. Line!FoldLeft(Line!GetoptsStep, base, Line!Without(drop)) = s[n]
  BY <1>2, <1>4, <1>6, <1>8, <1>11
<1>13. s[n] \in Readers
  BY <1>2
<1> QED BY <1>12, <1>13 DEF base, s, n

LEMMA LineHas ==
  ASSUME NEW line \in Seq(Line!Argument), NEW i \in 1..Len(line)
  PROVE  line[i] \in Line!Argument
<1> DEFINE C == Line!Argument
<1>1. line \in Seq(C)
  OBVIOUS
<1> HIDE DEF C
<1>2. line[i] \in C
  BY <1>1
<1> QED BY <1>2 DEF C

LEMMA PieceAgree ==
  ASSUME NEW line, NEW D, NEW E, NEW i, \A k \in Nat : <<i, k>> \in D <=> <<i, k>> \in E
  PROVE  Piece(line, D, i) = Piece(line, E, i)
<1>1. Dropped(D, i) = Dropped(E, i) /\ (<<i, 0>> \in D <=> <<i, 0>> \in E)
  BY DEF Dropped
<1> QED BY <1>1 DEF Piece

LEMMA PieceGone ==
  ASSUME NEW line, NEW D, NEW i, <<i, 0>> \in D
  PROVE  Piece(line, D, i) = <<>>
BY DEF Piece

LEMMA PieceKept ==
  ASSUME NEW line, NEW D, NEW i, <<i, 0>> \notin D, line[i].kind # "cluster"
  PROVE  Piece(line, D, i) = <<line[i]>>
BY DEF Piece

LEMMA PieceCluster ==
  ASSUME NEW line, NEW D, NEW i, <<i, 0>> \notin D, line[i].kind = "cluster"
  PROVE  Piece(line, D, i) = ClusterOf(Remains(line[i].letters, Dropped(D, i)))
BY DEF Piece

LEMMA ClusterSame ==
  ASSUME NEW arg \in Line!Argument, arg.kind = "cluster"
  PROVE  Line!Cluster(arg.letters) = arg
<1> DEFINE T == Seq(STRING)
           U == T \ {<<>>}
<1>1. arg \in [kind : {"long"}, name : STRING, value : T \cup {None}]
        \cup [kind : {"cluster"}, letters : U]
        \cup [kind : {"word"}, word : T]
        \cup [kind : {"end", "garbage"}]
  BY DEF Line!Argument
<1> HIDE DEF T, U
<1>2. arg \in [kind : {"cluster"}, letters : U]
  BY <1>1
<1>3. arg = [kind |-> "cluster", letters |-> arg.letters]
  BY <1>2
<1> QED BY <1>3 DEF Line!Cluster

LEMMA PieceWhole ==
  ASSUME NEW line \in Seq(Line!Argument), NEW D, NEW i \in 1..Len(line),
         \A k \in Nat : <<i, k>> \notin D
  PROVE  Piece(line, D, i) = <<line[i]>>
<1>1. CASE line[i].kind # "cluster"
  BY <1>1, PieceKept
<1>2. CASE line[i].kind = "cluster"
  <2> DEFINE arg == line[i]
             w == arg.letters
  <2>1. arg \in Line!Argument
    BY LineHas
  <2>2. w \in Seq(STRING) /\ w # <<>> /\ Line!Cluster(w) = arg
    BY <1>2, <2>1, ArgumentIs, ClusterSame
  <2>3. Piece(line, D, i) = ClusterOf(Remains(w, Dropped(D, i)))
    BY <1>2, PieceCluster
  <2> HIDE DEF w
  <2>4. Remains(w, Dropped(D, i)) = w
    <3>1. \A k \in 1..Len(w) : k \notin Dropped(D, i)
      BY DEF Dropped
    <3> QED BY <2>2, <3>1, LeftWhole DEF Remains
  <2> QED BY <2>2, <2>3, <2>4 DEF ClusterOf
<1> QED BY <1>1, <1>2

(* A piece is nothing or one argument. *)
IsPiece(line, drop, i, piece) ==
  \/ piece = <<>>
  \/ \E c \in Line!Argument :
       piece = <<c>> /\ (c.kind = "word" => line[i].kind = "word" /\ <<i, 0>> \notin drop)

LEMMA PieceOne ==
  ASSUME NEW line \in Seq(Line!Argument), NEW D, NEW i \in 1..Len(line)
  PROVE  IsPiece(line, D, i, Piece(line, D, i))
<1>0. line[i] \in Line!Argument
  BY LineHas
<1>1. CASE <<i, 0>> \in D
  BY <1>1, PieceGone DEF IsPiece
<1>2. CASE <<i, 0>> \notin D /\ line[i].kind # "cluster"
  BY <1>0, <1>2, PieceKept DEF IsPiece
<1>3. CASE <<i, 0>> \notin D /\ line[i].kind = "cluster"
  <2> DEFINE w == Remains(line[i].letters, Dropped(D, i))
  <2>1. w \in Seq(STRING)
    BY <1>0, <1>3, ArgumentIs, RemainsIs
  <2>2. Piece(line, D, i) = ClusterOf(w)
    BY <1>3, PieceCluster
  <2> HIDE DEF w
  <2>3. w # <<>> => Line!Cluster(w) \in Line!Argument /\ Line!Cluster(w).kind = "cluster"
    BY <2>1, ClusterIs
  <2>4. CASE w = <<>>
    BY <2>2, <2>4 DEF IsPiece, ClusterOf
  <2>5. CASE w # <<>>
    <3> DEFINE c == Line!Cluster(w)
    <3>1. Piece(line, D, i) = <<c>> /\ c \in Line!Argument /\ c.kind # "word"
      BY <2>2, <2>3, <2>5 DEF ClusterOf
    <3> HIDE DEF c
    <3> QED BY <3>1 DEF IsPiece
  <2> QED BY <2>4, <2>5
<1> QED BY <1>1, <1>2, <1>3

(* What a piece makes of the state. *)
LEMMA AtNothing ==
  ASSUME NEW line \in Seq(Line!Argument), NEW D, NEW i \in 1..Len(line), Piece(line, D, i) = <<>>
  PROVE  At(line, D)[i] = At(line, D)[i - 1]
<1> DEFINE a == At(line, D)[i - 1]
<1>1. a \in Readers /\ At(line, D)[i] = Run(GetoptsReads, a, <<>>)
  BY AtIs
<1> HIDE DEF a
<1>2. Run(GetoptsReads, a, <<>>) = a
  BY <1>1, RunOfNothing, GetoptsIsAutomaton
<1> QED BY <1>1, <1>2 DEF a

LEMMA AtOne ==
  ASSUME NEW line \in Seq(Line!Argument), NEW D, NEW i \in 1..Len(line),
         NEW c \in Line!Argument, Piece(line, D, i) = <<c>>
  PROVE  At(line, D)[i] = Line!GetoptsStep(At(line, D)[i - 1], c)
<1> DEFINE a == At(line, D)[i - 1]
<1>1. a \in Readers /\ At(line, D)[i] = Run(GetoptsReads, a, <<c>>)
  BY AtIs
<1> HIDE DEF a
<1>2. Run(GetoptsReads, a, <<c>>) = Line!GetoptsStep(a, c)
  BY <1>1, GetoptsReadsOne
<1> QED BY <1>1, <1>2 DEF a

-----------------------------------------------------------------------------
(* From one of the states to the end                                       *)

LEMMA LostToTheEnd ==
  ASSUME NEW line \in Seq(Line!Argument), NEW D, NEW j \in 0..Len(line), Lost(At(line, D)[j])
  PROVE  Lost(At(line, D)[Len(line)])
<1> DEFINE n == Len(line)
           s == At(line, D)
           T == {k \in Nat : j + k <= n => Lost(s[j + k])}
<1>0. n \in Nat
  OBVIOUS
<1>1. 0 \in T
  OBVIOUS
<1>2. ASSUME NEW k \in T PROVE k + 1 \in T
  <2> SUFFICES ASSUME j + (k + 1) <= n PROVE Lost(s[j + (k + 1)])
    OBVIOUS
  <2> DEFINE i == j + (k + 1)
  <2>1. i \in 1..n /\ i - 1 = j + k /\ Lost(s[j + k])
    OBVIOUS
  <2> HIDE DEF i, n
  <2>a. i \in 1..Len(line)
    BY <2>1 DEF n
  <2>2. s[i - 1] \in Readers /\ IsPiece(line, D, i, Piece(line, D, i))
    BY <2>a, AtIs, PieceOne
  <2>3. CASE Piece(line, D, i) = <<>>
    <3>1. s[i] = s[i - 1]
      BY <2>a, <2>3, AtNothing
    <3> HIDE DEF s
    <3> QED BY <2>1, <3>1 DEF i
  <2>4. CASE Piece(line, D, i) # <<>>
    <3>1. PICK c \in Line!Argument : Piece(line, D, i) = <<c>>
      BY <2>2, <2>4 DEF IsPiece
    <3>2. s[i] = Line!GetoptsStep(s[i - 1], c)
      BY <2>a, <3>1, AtOne
    <3> HIDE DEF s
    <3>3. Lost(s[i - 1])
      BY <2>1
    <3>4. Lost(s[i])
      BY <2>2, <3>2, <3>3, LostStays
    <3> QED BY <3>4 DEF i
  <2> QED BY <2>3, <2>4
<1>3. T = Nat
  <2> HIDE DEF T
  <2>1. T \subseteq Nat
    BY DEF T
  <2> QED BY <1>1, <1>2, <2>1, Induction
<1>4. n - j \in T /\ j + (n - j) = n
  <2>1. n - j \in Nat /\ j + (n - j) = n
    OBVIOUS
  <2> HIDE DEF T
  <2> QED BY <1>3, <2>1
<1> QED BY <1>4

(* A word that is kept stands behind something that is. *)
HasOwner(line, drop, k) ==
  (line[k].kind = "word" /\ <<k, 0>> \notin drop) => (k > 1 /\ Piece(line, drop, k - 1) # <<>>)

(* An option that needs a value, and gets none: it waits until it fails. *)
LEMMA WaitsInVain ==
  ASSUME NEW line \in Seq(Line!Argument), NEW D, NEW p \in 1..Len(line),
         At(line, D)[p].pending \in Line!Valued,
         \A k \in 1..Len(line) : k = p + 1 => line[k].kind # "word",
         \A k \in 1..Len(line) : k > p + 1 => HasOwner(line, D, k)
  PROVE  At(line, D)[Len(line)].pending \in Line!Valued \/ Lost(At(line, D)[Len(line)])
<1> DEFINE n == Len(line)
           s == At(line, D)
           Waits(j) == (s[j] = s[p] /\ (j > p => Piece(line, D, j) = <<>>)) \/ Lost(s[j])
           T == {k \in Nat : p + k <= n => Waits(p + k)}
<1>0. n \in Nat /\ p \in Nat
  OBVIOUS
<1>1. 0 \in T
  BY <1>0
<1>2. ASSUME NEW k \in T PROVE k + 1 \in T
  <2> SUFFICES ASSUME p + (k + 1) <= n PROVE Waits(p + (k + 1))
    OBVIOUS
  <2> DEFINE i == p + (k + 1)
  <2>1. i \in 1..n /\ i - 1 = p + k /\ i > p /\ (i = p + 1 <=> k = 0) /\ i >= p + 1 /\ i - 1 >= p
    BY <1>0
  <2>b. Waits(i - 1)
    <3>1. Waits(p + k)
      BY <1>0
    <3> HIDE DEF Waits
    <3> QED BY <2>1, <3>1
  <2> HIDE DEF i
  <2>a. i \in 1..Len(line)
    BY <2>1 DEF n
  <2>2. s[i - 1] \in Readers /\ IsPiece(line, D, i, Piece(line, D, i))
    BY <2>a, AtIs, PieceOne
  <2>3. CASE Piece(line, D, i) = <<>>
    <3>1. s[i] = s[i - 1]
      BY <2>a, <2>3, AtNothing
    <3> HIDE DEF s
    <3>2. Waits(i)
      BY <2>3, <2>b, <3>1
    <3> QED BY <3>2 DEF i
  <2>4. CASE Piece(line, D, i) # <<>>
    <3>1. PICK c \in Line!Argument :
            /\ Piece(line, D, i) = <<c>>
            /\ (c.kind = "word" => line[i].kind = "word" /\ <<i, 0>> \notin D)
      BY <2>2, <2>4 DEF IsPiece
    <3>2. s[i] = Line!GetoptsStep(s[i - 1], c)
      BY <2>a, <3>1, AtOne
    <3>p. s[p].pending \in Line!Valued
      OBVIOUS
    <3> HIDE DEF s
    <3>3. Lost(s[i])
      <4>1. CASE Lost(s[i - 1])
        BY <2>2, <3>2, <4>1, LostStays
      <4>2. CASE ~Lost(s[i - 1])
        <5>1. s[i - 1] = s[p] /\ (i - 1 > p => Piece(line, D, i - 1) = <<>>)
          BY <2>b, <4>2
        <5>2. c.kind # "word"
          <6>1. CASE i = p + 1
            BY <2>a, <3>1, <6>1
          <6>2. CASE i # p + 1
            <7>1. i > p + 1 /\ i - 1 > p
              BY <1>0, <2>1, <6>2
            <7>2. HasOwner(line, D, i)
              BY <2>a, <7>1
            <7> QED BY <3>1, <5>1, <7>1, <7>2 DEF HasOwner
          <6> QED BY <6>1, <6>2
        <5>3. s[i] = Line!Failed
          BY <2>2, <3>2, <3>p, <5>1, <5>2, StepWaiting
        <5> QED BY <5>3, FailedIs DEF Lost
      <4> QED BY <4>1, <4>2
    <3> QED BY <3>3 DEF i
  <2> QED BY <2>3, <2>4
<1>3. T = Nat
  <2> HIDE DEF T
  <2>1. T \subseteq Nat
    BY DEF T
  <2> QED BY <1>1, <1>2, <2>1, Induction
<1>4. n - p \in T /\ p + (n - p) = n
  <2>1. n - p \in Nat /\ p + (n - p) = n
    OBVIOUS
  <2> HIDE DEF T
  <2> QED BY <1>3, <2>1
<1>5. Waits(n)
  <2> HIDE DEF Waits
  <2> QED BY <1>4
<1> QED BY <1>5

-----------------------------------------------------------------------------
(* What getopts says in the end                                            *)

GetoptsOf(r) ==
  LET all == IF r.pending \in Line!Optional THEN Line!Take(r, r.pending, None) ELSE r
  IN IF r.pending \in Line!Valued \/ ~Once(all.taken) THEN Line!Failed ELSE all

LEMMA GetoptsEnds ==
  ASSUME NEW drop, args \in Seq(Line!Argument), NEW r, r = At(args, drop)[Len(args)]
  PROVE  Line!Getopts(Line!Without(drop)) = GetoptsOf(r)
<1>1. Line!FoldLeft(Line!GetoptsStep, Line!Getting("options"), Line!Without(drop)) = r
  BY ReadsToTheEnd
<1> QED BY <1>1 DEF Line!Getopts, GetoptsOf, Once

LEMMA EndIs ==
  ASSUME NEW r \in Readers
  PROVE  /\ Lost(r) \/ r.pending \in Line!Valued => GetoptsOf(r).at = "failed"
         /\ ~Lost(r) /\ r.pending \notin Line!Valued =>
              GetoptsOf(r).at # "failed" /\ GetoptsOf(r).taken = Taken(r)
<1> DEFINE all == IF r.pending \in Line!Optional THEN Line!Take(r, r.pending, None) ELSE r
<1>0. r.pending \in OwnerNames \cup {None} /\ None \notin Line!Optional
      /\ (r.pending \in Line!Valued => r.pending \notin Line!Optional)
  BY ReaderIs, NamesApart DEF OwnerNames
<1>1. all.at = r.at /\ (r.pending \notin Line!Valued => all.taken = Taken(r))
  <2>1. CASE r.pending \in Line!Optional
    <3> DEFINE taken == Append(r.taken, <<r.pending, None>>)
    <3>1. Line!Take(r, r.pending, None) = Reader(r.at, r.pending, taken)
      BY TakeIs
    <3>2. Taken(r) = taken
      BY <1>0, <2>1 DEF Taken
    <3> HIDE DEF taken
    <3>3. all = Reader(r.at, r.pending, taken)
      BY <2>1, <3>1
    <3> HIDE DEF all
    <3> QED BY <3>2, <3>3, ReaderFields
  <2>2. CASE r.pending \notin Line!Optional
    BY <1>0, <2>2 DEF Taken, OwnerNames
  <2> QED BY <2>1, <2>2
<1>2. GetoptsOf(r) = IF r.pending \in Line!Valued \/ ~Once(all.taken) THEN Line!Failed ELSE all
  BY DEF GetoptsOf
<1> HIDE DEF all
<1> QED BY <1>1, <1>2, FailedIs DEF Lost

-----------------------------------------------------------------------------
(* An option that comes twice                                              *)

Repeats(t, name) == \E j \in DOMAIN t : t[j][1] = name

LEMMA AppendTwice ==
  ASSUME NEW t \in Seq(Pair), NEW pair \in Pair, pair[1] \notin Line!Repeatable, Repeats(t, pair[1])
  PROVE  Append(t, pair) \in Seq(Pair) /\ ~Once(Append(t, pair))
<1> DEFINE u == Append(t, pair)
           n == Len(t)
<1> HIDE DEF Pair
<1>1. n \in Nat /\ DOMAIN t = 1..n
  OBVIOUS
<1>2. u \in Seq(Pair) /\ Len(u) = n + 1 /\ u[n + 1] = pair /\ \A k \in 1..n : u[k] = t[k]
  BY LettersGrow
<1>3. DOMAIN u = 1..(n + 1)
  BY <1>2
<1>4. PICK j \in 1..n : t[j][1] = pair[1]
  BY <1>1 DEF Repeats
<1> HIDE DEF u, n
<1>5. j \in DOMAIN u /\ n + 1 \in DOMAIN u /\ j # n + 1 /\ u[j][1] = u[n + 1][1] /\ u[j][1] = pair[1]
  BY <1>1, <1>2, <1>3, <1>4
<1>6. ~Once(u)
  BY <1>5 DEF Once
<1> QED BY <1>2, <1>6 DEF u

LEMMA AppendOnce ==
  ASSUME NEW t \in Seq(Pair), Once(t), NEW pair \in Pair,
         pair[1] \in Line!Repeatable \/ ~Repeats(t, pair[1])
  PROVE  Append(t, pair) \in Seq(Pair) /\ Once(Append(t, pair))
<1> DEFINE u == Append(t, pair)
           n == Len(t)
<1> HIDE DEF Pair
<1>1. n \in Nat /\ DOMAIN t = 1..n
  OBVIOUS
<1>2. u \in Seq(Pair) /\ Len(u) = n + 1 /\ u[n + 1] = pair /\ \A k \in 1..n : u[k] = t[k]
  BY LettersGrow
<1>3. DOMAIN u = 1..(n + 1)
  BY <1>2
<1> HIDE DEF u, n
<1>4. ASSUME NEW i \in DOMAIN u, NEW j \in DOMAIN u, i # j, u[i][1] = u[j][1]
      PROVE  u[i][1] \in Line!Repeatable
  <2>1. CASE i \in 1..n /\ j \in 1..n
    BY <1>1, <1>2, <1>4, <2>1 DEF Once
  <2>2. CASE i = n + 1 \/ j = n + 1
    <3>1. u[i][1] = pair[1] /\ u[j][1] = pair[1]
      BY <1>2, <1>4, <2>2
    <3>2. i \in 1..n \/ j \in 1..n
      BY <1>1, <1>3, <1>4
    <3>3. Repeats(t, pair[1])
      BY <1>1, <1>2, <3>1, <3>2 DEF Repeats
    <3> QED BY <3>1, <3>3
  <2> QED BY <1>1, <1>3, <2>1, <2>2
<1>5. Once(u)
  BY <1>4 DEF Once
<1> QED BY <1>2, <1>5 DEF u

(* A flag of a cluster that is there before, or an earlier letter of it. *)
LEMMA FlagTwice ==
  ASSUME NEW t \in Seq(Pair), NEW pre \in Seq(STRING), AreFlags(pre),
         NEW w \in Seq(STRING), AreFlags(w), Len(pre) < Len(w), \A k \in 1..Len(pre) : w[k] = pre[k],
         NEW name, name = Line!ByShort(w[Len(pre) + 1]), name \notin Line!Repeatable,
         Repeats(t \o FlagsOf(pre), name)
  PROVE  ~Once(t \o FlagsOf(w))
<1> DEFINE n == Len(t)
           m == Len(pre)
           l == Len(w)
           f == FlagsOf(pre)
           g == FlagsOf(w)
<1>1. n \in Nat /\ m \in Nat /\ l \in Nat
  OBVIOUS
<1>2. f \in Seq(Pair) /\ Len(f) = m /\ \A k \in 1..m : f[k] = Flag(pre[k])
  BY FlagsAre
<1>3. g \in Seq(Pair) /\ Len(g) = l /\ \A k \in 1..l : g[k] = Flag(w[k])
  BY FlagsAre
<1>4. \A k \in 1..m : w[k] = pre[k]
  OBVIOUS
<1>5. m < l /\ name = Line!ByShort(w[m + 1]) /\ Repeats(t \o f, name)
  OBVIOUS
<1> HIDE DEF m, l, f, g, Pair
<1>6. /\ DOMAIN (t \o f) = 1..(n + m) /\ DOMAIN (t \o g) = 1..(n + l)
      /\ \A k \in 1..n : (t \o f)[k] = t[k] /\ (t \o g)[k] = t[k]
      /\ (\A k \in 1..m : (t \o f)[n + k] = f[k])
      /\ (\A k \in 1..l : (t \o g)[n + k] = g[k])
  <2>a. t \o f \in Seq(Pair) /\ Len(t \o f) = n + m
    BY <1>2
  <2>b. t \o g \in Seq(Pair) /\ Len(t \o g) = n + l
    BY <1>3
  <2>1. DOMAIN (t \o f) = 1..(n + m) /\ DOMAIN (t \o g) = 1..(n + l)
    BY <2>a, <2>b
  <2>2. \A k \in 1..n : (t \o f)[k] = t[k] /\ (t \o g)[k] = t[k]
    BY <1>1, <1>2, <1>3
  <2>3. \A k \in 1..m : (t \o f)[n + k] = f[k]
    BY <1>1, <1>2
  <2>4. \A k \in 1..l : (t \o g)[n + k] = g[k]
    BY <1>1, <1>3
  <2> QED BY <2>1, <2>2, <2>3, <2>4
<1> DEFINE a == t \o f
           b == t \o g
<1>7. PICK j \in 1..(n + m) : a[j][1] = name
  BY <1>5, <1>6 DEF Repeats
<1>a. n \in Nat
  OBVIOUS
<1>b. /\ DOMAIN b = 1..(n + l)
      /\ \A k \in 1..n : a[k] = t[k] /\ b[k] = t[k]
      /\ (\A k \in 1..m : a[n + k] = f[k])
      /\ (\A k \in 1..l : b[n + k] = g[k])
  BY <1>6
<1> HIDE DEF a, b, n
<1>8. b[j][1] = name
  <2>1. CASE j \in 1..n
    BY <1>7, <1>b, <2>1
  <2>2. CASE j \notin 1..n
    <3> DEFINE k == j - n
    <3>1. k \in 1..m /\ k \in 1..l /\ n + k = j
      BY <1>1, <1>5, <1>a, <2>2
    <3> HIDE DEF k
    <3>2. f[k] = g[k]
      BY <1>2, <1>3, <1>4, <3>1
    <3>3. a[n + k] = b[n + k]
      BY <1>b, <3>1, <3>2
    <3> QED BY <1>7, <3>1, <3>3
  <2> QED BY <2>1, <2>2
<1>9. b[n + (m + 1)][1] = name
  <2>1. m + 1 \in 1..l
    BY <1>1, <1>5
  <2>2. b[n + (m + 1)] = Flag(w[m + 1])
    BY <1>3, <1>b, <2>1
  <2> QED BY <1>5, <2>2 DEF Flag
<1>10. j \in DOMAIN b /\ n + (m + 1) \in DOMAIN b /\ j # n + (m + 1)
  BY <1>1, <1>5, <1>a, <1>b
<1>11. ~Once(b)
  BY <1>8, <1>9, <1>10 DEF Once
<1> QED BY <1>11 DEF b, g, n

-----------------------------------------------------------------------------
(* A cluster, from one of its letters                                      *)

Splits(letters, o, pre, post) ==
  /\ pre \in Seq(STRING) /\ post \in Seq(STRING)
  /\ Len(pre) = o - 1 /\ (\A k \in 1..(o - 1) : pre[k] = letters[k])
  /\ Len(post) = Len(letters) - o
  /\ letters = (pre \o <<letters[o]>>) \o post

LEMMA LettersSplit ==
  ASSUME NEW letters \in Seq(STRING), NEW first \in 1..Len(letters)
  PROVE  Splits(letters, first, SubSeq(letters, 1, first - 1), SubSeq(letters, first + 1, Len(letters)))
<1> DEFINE pre == SubSeq(letters, 1, first - 1)
           post == SubSeq(letters, first + 1, Len(letters))
<1>5. /\ pre \in Seq(STRING) /\ Len(pre) = first - 1 /\ \A k \in 1..(first - 1) : pre[k] = letters[k]
      /\ post \in Seq(STRING) /\ Len(post) = Len(letters) - first
      /\ \A k \in 1..(Len(letters) - first) : post[k] = letters[first + k]
  <2>1. pre \in Seq(STRING) /\ Len(pre) = first - 1 /\ \A k \in 1..(first - 1) : pre[k] = letters[k]
    OBVIOUS
  <2>2. post \in Seq(STRING) /\ Len(post) = Len(letters) - first
    OBVIOUS
  <2>3. \A k \in 1..(Len(letters) - first) : post[k] = letters[first + k]
    OBVIOUS
  <2> QED BY <2>1, <2>2, <2>3
<1> HIDE DEF pre, post
<1>6. letters = (pre \o <<letters[first]>>) \o post
  <2> DEFINE joined == (pre \o <<letters[first]>>) \o post
             n == Len(letters)
  <2>1. n \in Nat /\ first \in 1..n /\ letters[first] \in STRING
    OBVIOUS
  <2>2. /\ joined \in Seq(STRING) /\ Len(joined) = (Len(pre) + 1) + Len(post)
        /\ joined[Len(pre) + 1] = letters[first]
        /\ (\A k \in 1..Len(pre) : joined[k] = pre[k])
        /\ (\A k \in 1..Len(post) : joined[(Len(pre) + 1) + k] = post[k])
    <3>1. Joins(STRING, joined, pre, letters[first], post)
      BY <1>5, <2>1, JoinedIs
    <3> HIDE DEF joined
    <3> QED BY <3>1 DEF Joins
  <2> HIDE DEF joined, n
  <2>3. Len(joined) = n
    BY <1>5, <2>1, <2>2 DEF n
  <2>4. ASSUME NEW k \in 1..n PROVE joined[k] = letters[k]
    <3>1. CASE k < first
      <4>1. k \in 1..(first - 1)
        BY <2>1, <3>1
      <4> QED BY <1>5, <2>2, <4>1
    <3>2. CASE k = first
      <4>1. Len(pre) + 1 = k
        BY <1>5, <2>1, <3>2
      <4> QED BY <2>2, <3>2, <4>1
    <3>3. CASE k > first
      <4>1. k - first \in 1..(n - first) /\ first + (k - first) = k /\ (Len(pre) + 1) + (k - first) = k
        BY <1>5, <2>1, <3>3
      <4> QED BY <1>5, <2>2, <4>1 DEF n
    <3> QED BY <2>1, <3>1, <3>2, <3>3
  <2>5. letters = joined
    BY <2>2, <2>3, <2>4, SameJoined DEF n
  <2> QED BY <2>5 DEF joined
<1>7. Splits(letters, first, pre, post)
  BY <1>5, <1>6 DEF Splits
<1> QED BY <1>7 DEF pre, post

(* Flags at the front of a cluster are taken, whatever comes behind them. *)
FrontTaken(letters, o, t, r) ==
  \/ r.at = "failed"
  \/ \E w \in Seq(STRING) :
       /\ AreFlags(w) /\ Len(w) >= o /\ (\A k \in 1..o : w[k] = letters[k])
       /\ Extends(t \o FlagsOf(w), Taken(r))

LEMMA ClusterHas ==
  ASSUME NEW b \in Readers, b.at # "failed", b.pending = None, NEW letters \in Seq(STRING),
         NEW o \in 1..Len(letters), \A k \in 1..o : Line!ByShort(letters[k]) \in Line!Flags
  PROVE  FrontTaken(letters, o, b.taken, Line!TakeCluster(b, letters))
<1>1. b.at \in Places /\ b.taken \in Seq(Pair) /\ Taken(b) = b.taken
  BY ReaderIs DEF Taken
<1>2. CASE AreFlags(letters)
  <2> DEFINE taken == b.taken \o FlagsOf(letters)
             r == Line!TakeCluster(b, letters)
  <2>1. FlagsOf(letters) \in Seq(Pair)
    BY <1>2, FlagsAre
  <2>2. taken \in Seq(Pair) /\ Extends(taken, taken)
    BY <1>1, <2>1, ExtendsByMore, ExtendsItself
  <2>3. r = Reader(b.at, None, taken)
    BY <1>2, ClusterFlags
  <2>4. Len(letters) >= o /\ \A k \in 1..o : letters[k] = letters[k]
    OBVIOUS
  <2> HIDE DEF r
  <2>5. Extends(taken, Taken(r))
    <3> HIDE DEF taken
    <3> QED BY <1>1, <2>2, <2>3, GrownIs
  <2>6. FrontTaken(letters, o, b.taken, r)
    BY <1>2, <2>4, <2>5 DEF FrontTaken
  <2> QED BY <2>6 DEF r
<1>3. CASE ~AreFlags(letters)
  <2>1. PICK first \in 1..Len(letters) :
           /\ Line!ByShort(letters[first]) \notin Line!Flags
           /\ SubSeq(letters, 1, first - 1) \in Seq(STRING)
           /\ SubSeq(letters, first + 1, Len(letters)) \in Seq(STRING)
           /\ Len(SubSeq(letters, 1, first - 1)) = first - 1
           /\ \A k \in 1..(first - 1) : SubSeq(letters, 1, first - 1)[k] = letters[k]
           /\ AreFlags(SubSeq(letters, 1, first - 1))
           /\ letters = (SubSeq(letters, 1, first - 1) \o <<letters[first]>>)
                          \o SubSeq(letters, first + 1, Len(letters))
    BY <1>3, ClusterSplits
  <2> DEFINE pre == SubSeq(letters, 1, first - 1)
             post == SubSeq(letters, first + 1, Len(letters))
             letter == letters[first]
             name == Line!ByShort(letter)
             taken == b.taken \o FlagsOf(pre)
             pair == <<name, post>>
             r == Line!TakeCluster(b, letters)
  <2>2. letter \in STRING
    OBVIOUS
  <2> HIDE DEF letter
  <2>3. /\ pre \in Seq(STRING) /\ post \in Seq(STRING) /\ AreFlags(pre) /\ name \notin Line!Flags
        /\ letters = (pre \o <<letter>>) \o post
        /\ Len(pre) = first - 1 /\ \A k \in 1..(first - 1) : pre[k] = letters[k]
    BY <2>1 DEF letter
  <2>s. letters = (pre \o <<letter>>) \o post
    BY <2>3
  <2>t. pre \in Seq(STRING) /\ post \in Seq(STRING) /\ AreFlags(pre) /\ name \notin Line!Flags
    BY <2>3
  <2>f. o < first
    <3>1. first \notin 1..o
      BY <2>1
    <3> QED BY <3>1
  <2> HIDE DEF pre, post, r
  <2>4. r = IF name = None THEN Line!Failed
            ELSE IF post # <<>> THEN Reader(b.at, None, Append(taken, pair))
            ELSE Reader(b.at, name, taken)
    <3>1. Line!TakeCluster(b, letters) =
             IF Line!ByShort(letter) = None THEN Line!Failed
             ELSE IF post # <<>>
               THEN Reader(b.at, b.pending,
                           Append(b.taken \o FlagsOf(pre), <<Line!ByShort(letter), post>>))
               ELSE Reader(b.at, Line!ByShort(letter), b.taken \o FlagsOf(pre))
      BY <2>2, <2>s, <2>t, ClusterOwner
    <3> QED BY <3>1 DEF r
  <2>5. taken \in Seq(Pair) /\ Extends(taken, taken)
    <3>1. FlagsOf(pre) \in Seq(Pair)
      BY <2>3, FlagsAre
    <3> QED BY <1>1, <3>1, ExtendsByMore, ExtendsItself
  <2>6. name # None => name \in OwnerNames /\ name \in Line!Known
    BY <2>3, ShortNames, NamesApart
  <2>7. name # None => pair \in Pair
    BY <2>3, <2>6 DEF Pair
  <2>g. Len(pre) >= o /\ \A k \in 1..o : pre[k] = letters[k]
    <3>1. \A k \in 1..o : k \in 1..(first - 1)
      BY <2>f
    <3> QED BY <2>3, <2>f, <3>1
  <2>h. Extends(taken, Taken(r)) => FrontTaken(letters, o, b.taken, r)
    BY <2>3, <2>g DEF FrontTaken
  <2> HIDE DEF name, taken, pair
  <2>8. CASE name = None
    BY <2>4, <2>8, FailedIs DEF FrontTaken, r
  <2>9. CASE name # None /\ post = <<>>
    BY <1>1, <2>4, <2>5, <2>6, <2>9, <2>h, GrownIs DEF r
  <2>10. CASE name # None /\ post # <<>>
    <3>1. Append(taken, pair) \in Seq(Pair) /\ Extends(taken, Append(taken, pair))
      BY <2>5, <2>7, <2>10, ExtendsByOne
    <3> QED BY <1>1, <2>4, <2>5, <2>10, <2>h, <3>1, GrownIs DEF r
  <2> QED BY <2>8, <2>9, <2>10
<1> QED BY <1>2, <1>3

(* A cluster with a letter that could not stay cannot stay either. *)
LEMMA LetterLost ==
  ASSUME NEW b \in Readers, b.at # "failed", b.pending = None, NEW letters \in Seq(STRING),
         NEW o \in 1..Len(letters), NEW pre, NEW post, Splits(letters, o, pre, post), AreFlags(pre),
         NEW name, name = Line!ByShort(letters[o]),
         name = None \/ (name \notin Line!Repeatable /\ Repeats(b.taken \o FlagsOf(pre), name))
  PROVE  Lost(Line!TakeCluster(b, letters))
<1> DEFINE r == Line!TakeCluster(b, letters)
           letter == letters[o]
           taken == b.taken \o FlagsOf(pre)
<1>0. /\ b.at \in Places /\ b.taken \in Seq(Pair) /\ letter \in STRING /\ pre \in Seq(STRING)
      /\ post \in Seq(STRING) /\ letters = (pre \o <<letter>>) \o post
      /\ Len(pre) = o - 1 /\ \A k \in 1..(o - 1) : pre[k] = letters[k]
  BY ReaderIs DEF Splits
<1>t. taken \in Seq(Pair)
  <2>1. FlagsOf(pre) \in Seq(Pair)
    BY <1>0, FlagsAre
  <2> QED BY <1>0, <2>1, ExtendsByMore
<1>g. r \in Readers
  BY ClusterGrows DEF Grows
<1>1. CASE name \in Line!Flags
  <2>0. name # None
    BY <1>1, NamesApart DEF Line!Known
  <2>1. \A k \in 1..o : Line!ByShort(letters[k]) \in Line!Flags
    <3> TAKE k \in 1..o
    <3>1. k = o \/ k \in 1..(o - 1)
      OBVIOUS
    <3>2. k \in 1..(o - 1) => k \in 1..Len(pre)
      BY <1>0
    <3> QED BY <1>0, <1>1, <3>1, <3>2 DEF AreFlags
  <2>2. FrontTaken(letters, o, b.taken, r)
    BY <2>1, ClusterHas
  <2> HIDE DEF r
  <2>3. CASE r.at = "failed"
    BY <2>3 DEF Lost, r
  <2>4. CASE r.at # "failed"
    <3>1. PICK w \in Seq(STRING) :
            /\ AreFlags(w) /\ Len(w) >= o /\ (\A k \in 1..o : w[k] = letters[k])
            /\ Extends(b.taken \o FlagsOf(w), Taken(r))
      BY <2>2, <2>4 DEF FrontTaken
    <3>2. /\ Len(pre) < Len(w) /\ (\A k \in 1..Len(pre) : w[k] = pre[k])
          /\ name = Line!ByShort(w[Len(pre) + 1])
      <4>1. Len(pre) + 1 = o /\ o \in 1..o /\ Len(w) \in Nat /\ \A k \in 1..(o - 1) : k \in 1..o
        BY <1>0
      <4> QED BY <1>0, <3>1, <4>1
    <3>3. ~Once(b.taken \o FlagsOf(w))
      <4> DEFINE t == b.taken
      <4>1. t \in Seq(Pair) /\ Repeats(t \o FlagsOf(pre), name) /\ name \notin Line!Repeatable
        BY <1>0, <2>0
      <4> HIDE DEF t
      <4>2. ~Once(t \o FlagsOf(w))
        BY <1>0, <3>1, <3>2, <4>1, FlagTwice
      <4> QED BY <4>2 DEF t
    <3>4. b.taken \o FlagsOf(w) \in Seq(Pair)
      <4>1. FlagsOf(w) \in Seq(Pair)
        BY <3>1, FlagsAre
      <4> QED BY <1>0, <4>1, ExtendsByMore
    <3>5. Taken(r) \in Seq(Pair)
      BY <1>g, TakenIs DEF r
    <3>6. ~Once(Taken(r))
      BY <3>1, <3>3, <3>4, <3>5, OnceOfLess
    <3> QED BY <3>6 DEF Lost, r
  <2> QED BY <2>3, <2>4
<1>2. CASE name \notin Line!Flags
  <2>1. r = IF name = None THEN Line!Failed
            ELSE IF post # <<>> THEN Reader(b.at, None, Append(taken, <<name, post>>))
            ELSE Reader(b.at, name, taken)
    <3>a. letters = (pre \o <<letter>>) \o post
      BY <1>0
    <3>b. pre \in Seq(STRING) /\ post \in Seq(STRING) /\ letter \in STRING
      BY <1>0
    <3>0. name = Line!ByShort(letter) /\ Line!ByShort(letter) \notin Line!Flags
      BY <1>2
    <3> HIDE DEF letter
    <3>1. Line!TakeCluster(b, letters) =
             IF Line!ByShort(letter) = None THEN Line!Failed
             ELSE IF post # <<>>
               THEN Reader(b.at, b.pending,
                           Append(b.taken \o FlagsOf(pre), <<Line!ByShort(letter), post>>))
               ELSE Reader(b.at, Line!ByShort(letter), b.taken \o FlagsOf(pre))
      BY <3>a, <3>b, <3>0, ClusterOwner
    <3> QED BY <3>0, <3>1
  <2>2. CASE name = None
    BY <2>1, <2>2, FailedIs DEF Lost
  <2>3. CASE name # None
    <3>1. name \in Line!Known /\ name \notin Line!Repeatable /\ Repeats(taken, name)
      BY <2>3, ShortNames
    <3> DEFINE value == IF post # <<>> THEN post ELSE None
               pair == <<name, value>>
    <3>2. pair \in Pair /\ pair[1] = name
      BY <1>0, <3>1 DEF Pair
    <3>3. Taken(r) = Append(taken, pair)
      <4> HIDE DEF taken, r
      <4>1. CASE post # <<>>
        <5> DEFINE more == Append(taken, <<name, post>>)
        <5>1. more = Append(taken, pair)
          BY <4>1
        <5>a. r = Reader(b.at, None, more)
          BY <2>1, <2>3, <4>1
        <5> HIDE DEF more
        <5>2. r.pending = None /\ r.taken = more
          BY <5>a, ReaderFields
        <5> QED BY <5>1, <5>2 DEF Taken
      <4>2. CASE post = <<>>
        <5>1. r = Reader(b.at, name, taken) /\ pair = <<name, None>>
          BY <2>1, <2>3, <4>2
        <5>2. r.pending = name /\ r.taken = taken
          BY <5>1, ReaderFields
        <5> QED BY <2>3, <5>1, <5>2 DEF Taken
      <4> QED BY <4>1, <4>2
    <3> HIDE DEF taken, pair
    <3>4. ~Once(Append(taken, pair))
      BY <1>t, <3>1, <3>2, AppendTwice
    <3> QED BY <3>3, <3>4 DEF Lost
  <2> QED BY <2>2, <2>3
<1> QED BY <1>1, <1>2

(* An owner at the end of a cluster of flags waits for its value. *)
LEMMA LetterWaits ==
  ASSUME NEW b \in Readers, b.pending = None, NEW letters \in Seq(STRING),
         NEW o \in 1..Len(letters), NEW pre, NEW post, Splits(letters, o, pre, post), AreFlags(pre),
         Line!ByShort(letters[o]) \in Line!Valued, o = Len(letters)
  PROVE  Line!TakeCluster(b, letters).pending \in Line!Valued
<1> DEFINE letter == letters[o]
           name == Line!ByShort(letter)
<1>0. /\ letter \in STRING /\ pre \in Seq(STRING)
      /\ post \in Seq(STRING) /\ letters = (pre \o <<letter>>) \o post /\ Len(post) = 0
  BY DEF Splits
<1>1. name \in Line!Valued /\ name \notin Line!Flags /\ name # None
  BY NamesApart DEF OwnerNames
<1>2. post = <<>>
  BY <1>0
<1> HIDE DEF letter
<1>3. Line!TakeCluster(b, letters) =
         IF Line!ByShort(letter) = None THEN Line!Failed
         ELSE IF post # <<>>
           THEN Reader(b.at, b.pending,
                       Append(b.taken \o FlagsOf(pre), <<Line!ByShort(letter), post>>))
           ELSE Reader(b.at, Line!ByShort(letter), b.taken \o FlagsOf(pre))
  BY <1>0, <1>1, ClusterOwner
<1> DEFINE taken == b.taken \o FlagsOf(pre)
<1>4. Line!TakeCluster(b, letters) = Reader(b.at, name, taken)
  BY <1>1, <1>2, <1>3
<1> HIDE DEF taken, name
<1>5. Line!TakeCluster(b, letters).pending = name
  BY <1>4, ReaderFields
<1> QED BY <1>1, <1>5

-----------------------------------------------------------------------------
(* What the recovery has, and what getopts has read of what it leaves      *)

Agrees(acc, place, taken) ==
  /\ acc \in Readers /\ acc.at = place /\ place \in {"options", "ended"}
  /\ acc.pending \notin Line!Valued
  /\ taken = Taken(acc) /\ taken \in Seq(Pair) /\ Once(taken)

LEMMA AgreesWith ==
  ASSUME NEW place \in {"options", "ended"}, NEW pending \in Line!Optional \cup {None},
         NEW before \in Seq(Pair), NEW taken, taken = Taken(Reader(place, pending, before)),
         taken \in Seq(Pair), Once(taken)
  PROVE  Agrees(Reader(place, pending, before), place, taken)
<1> DEFINE r == Reader(place, pending, before)
<1>1. r \in Readers
  BY ReaderHas DEF Places, OwnerNames
<1>2. r.at = place /\ r.pending = pending
  BY ReaderFields
<1>3. pending \notin Line!Valued
  BY NamesApart DEF OwnerNames
<1>4. taken = Taken(r)
  OBVIOUS
<1> HIDE DEF r
<1>5. Agrees(r, place, taken)
  BY <1>1, <1>2, <1>3, <1>4 DEF Agrees
<1> QED BY <1>5 DEF r

LEMMA AgreesPlainly ==
  ASSUME NEW place \in {"options", "ended"}, NEW taken \in Seq(Pair), Once(taken)
  PROVE  Agrees(Reader(place, None, taken), place, taken)
<1>1. taken = Taken(Reader(place, None, taken))
  <2>1. Reader(place, None, taken).pending = None /\ Reader(place, None, taken).taken = taken
    BY ReaderFields
  <2> QED BY <2>1 DEF Taken
<1> QED BY <1>1, AgreesWith

(* What is taken, or cannot be. *)
LEMMA TakenAgrees ==
  ASSUME NEW taken \in Seq(Pair), Once(taken), NEW pair \in Pair,
         pair[1] \in Line!Repeatable \/ ~Repeats(taken, pair[1])
  PROVE  Agrees(Reader("options", None, Append(taken, pair)), "options", Append(taken, pair))
<1> DEFINE more == Append(taken, pair)
<1>1. more \in Seq(Pair) /\ Once(more)
  BY AppendOnce
<1> HIDE DEF more
<1>2. Agrees(Reader("options", None, more), "options", more)
  BY <1>1, AgreesPlainly
<1> QED BY <1>2 DEF more

LEMMA TakenLost ==
  ASSUME NEW taken \in Seq(Pair), NEW pair \in Pair, pair[1] \notin Line!Repeatable,
         Repeats(taken, pair[1])
  PROVE  Lost(Reader("options", None, Append(taken, pair)))
<1> DEFINE more == Append(taken, pair)
           r == Reader("options", None, more)
<1>1. ~Once(more)
  BY AppendTwice
<1> HIDE DEF more
<1>2. r.pending = None /\ r.taken = more
  BY ReaderFields
<1> HIDE DEF r
<1>3. Lost(r)
  BY <1>1, <1>2 DEF Lost, Taken
<1> QED BY <1>3 DEF r, more

LEMMA WaitingLost ==
  ASSUME NEW taken \in Seq(Pair), NEW name \in Line!Known, name \notin Line!Repeatable,
         Repeats(taken, name)
  PROVE  Lost(Reader("options", name, taken))
<1> DEFINE pair == <<name, None>>
           r == Reader("options", name, taken)
           more == Append(taken, pair)
<1>1. pair \in Pair /\ pair[1] = name /\ name # None
  BY NamesApart DEF Pair
<1> HIDE DEF pair
<1>2. ~Once(more)
  BY <1>1, AppendTwice
<1> HIDE DEF more
<1>3. r.pending = name /\ r.taken = taken
  BY ReaderFields
<1> HIDE DEF r
<1>4. Lost(r)
  BY <1>1, <1>2, <1>3 DEF Lost, Taken, more, pair
<1> QED BY <1>4 DEF r

-----------------------------------------------------------------------------
(* One step of getopts from there                                          *)

LEMMA EndedLost ==
  ASSUME NEW acc, NEW taken, Agrees(acc, "ended", taken), NEW arg \in Line!Argument, arg.kind # "word"
  PROVE  Lost(Line!GetoptsStep(acc, arg))
<1> DEFINE b == Reader(acc.at, None, Taken(acc))
<1>1. acc \in Readers /\ acc.at # "failed" /\ acc.pending \notin Line!Valued /\ acc.at = "ended"
  BY DEF Agrees
<1> HIDE DEF b
<1>2. Line!GetoptsStep(acc, arg) = Line!Failed
  BY <1>1, StepOther DEF b
<1> QED BY <1>2, FailedIs DEF Lost

LEMMA EndAgrees ==
  ASSUME NEW acc, NEW taken, Agrees(acc, "options", taken), NEW arg \in Line!Argument, arg.kind = "end"
  PROVE  Agrees(Line!GetoptsStep(acc, arg), "ended", taken)
<1> DEFINE b == Reader(acc.at, None, Taken(acc))
<1>1. /\ acc \in Readers /\ acc.at # "failed" /\ acc.pending \notin Line!Valued /\ acc.at = "options"
      /\ taken = Taken(acc) /\ taken \in Seq(Pair) /\ Once(taken)
  BY DEF Agrees
<1> HIDE DEF b
<1>2. Line!GetoptsStep(acc, arg) = Reader("ended", None, taken)
  BY <1>1, StepOther DEF b
<1> QED BY <1>1, <1>2, AgreesPlainly

(* At options, what stands before counts only by what it has taken. *)
LEMMA StepsFrom ==
  ASSUME NEW acc, NEW taken, Agrees(acc, "options", taken), NEW arg \in Line!Argument,
         arg.kind \in {"long", "cluster"}, NEW b, b = Reader("options", None, taken)
  PROVE  /\ b \in Readers /\ b.at = "options" /\ b.pending = None /\ b.taken = taken
         /\ arg.kind = "long" => Line!GetoptsStep(acc, arg) = Line!TakeLong(b, arg.name, arg.value)
         /\ arg.kind = "cluster" => Line!GetoptsStep(acc, arg) = Line!TakeCluster(b, arg.letters)
<1>1. /\ acc \in Readers /\ acc.at # "failed" /\ acc.pending \notin Line!Valued /\ acc.at = "options"
      /\ taken = Taken(acc)
  BY DEF Agrees
<1>2. b = Reader(acc.at, None, Taken(acc)) /\ arg.kind # "word"
  BY <1>1
<1>3. /\ b \in Readers
      /\ Line!GetoptsStep(acc, arg) =
              IF acc.at = "ended" \/ arg.kind = "garbage" THEN Line!Failed
              ELSE IF arg.kind = "end" THEN Reader("ended", None, Taken(acc))
              ELSE IF arg.kind = "long" THEN Line!TakeLong(b, arg.name, arg.value)
              ELSE Line!TakeCluster(b, arg.letters)
  BY <1>1, <1>2, StepOther
<1>4. b.at = "options" /\ b.pending = None /\ b.taken = taken
  BY ReaderFields
<1> QED BY <1>1, <1>3, <1>4

(* A long option. *)
LEMMA LongFails ==
  ASSUME NEW acc, NEW taken, Agrees(acc, "options", taken), NEW arg \in Line!Argument,
         arg.kind = "long",
         arg.name \notin Line!Known \/ (arg.name \in Line!Flags /\ arg.value # None)
  PROVE  Lost(Line!GetoptsStep(acc, arg))
<1> DEFINE b == Reader("options", None, taken)
<1>1. Line!GetoptsStep(acc, arg) = Line!TakeLong(b, arg.name, arg.value)
  BY StepsFrom
<1>2. Line!TakeLong(b, arg.name, arg.value) = Line!Failed
  BY NamesApart DEF Line!TakeLong, OwnerNames
<1> QED BY <1>1, <1>2, FailedIs DEF Lost

Takes(arg) ==
  \/ arg.name \in Line!Flags /\ arg.value = None
  \/ arg.name \in Line!Optional
  \/ arg.name \in Line!Valued /\ arg.value # None

LEMMA LongTakes ==
  ASSUME NEW acc, NEW taken, Agrees(acc, "options", taken), NEW arg \in Line!Argument,
         arg.kind = "long", Takes(arg)
  PROVE  /\ <<arg.name, arg.value>> \in Pair
         /\ Line!GetoptsStep(acc, arg) = Reader("options", None, Append(taken, <<arg.name, arg.value>>))
<1> DEFINE b == Reader("options", None, taken)
<1>1. /\ Line!GetoptsStep(acc, arg) = Line!TakeLong(b, arg.name, arg.value)
      /\ b \in Readers /\ b.at = "options" /\ b.pending = None /\ b.taken = taken
  BY StepsFrom
<1>2. Line!TakeLong(b, arg.name, arg.value) = Line!Take(b, arg.name, arg.value)
  BY DEF Line!TakeLong, Takes
<1>3. Line!Take(b, arg.name, arg.value) = Reader("options", None, Append(taken, <<arg.name, arg.value>>))
  BY <1>1, TakeIs
<1>4. arg.name \in Line!Known
  BY DEF Takes, Line!Known
<1>5. <<arg.name, arg.value>> \in Pair
  BY <1>4, ArgumentIs DEF Pair
<1> QED BY <1>1, <1>2, <1>3, <1>5

LEMMA LongWaits ==
  ASSUME NEW acc, NEW taken, Agrees(acc, "options", taken), NEW arg \in Line!Argument,
         arg.kind = "long", arg.name \in Line!Valued, arg.value = None
  PROVE  Line!GetoptsStep(acc, arg) = Reader("options", arg.name, taken)
<1> DEFINE b == Reader("options", None, taken)
<1>1. /\ Line!GetoptsStep(acc, arg) = Line!TakeLong(b, arg.name, arg.value)
      /\ b \in Readers /\ b.at = "options" /\ b.pending = None /\ b.taken = taken
  BY StepsFrom
<1>2. Line!TakeLong(b, arg.name, arg.value) = [b EXCEPT !.pending = arg.name]
  BY NamesApart DEF Line!TakeLong, OwnerNames
<1>3. [b EXCEPT !.pending = arg.name] = Reader("options", arg.name, taken)
  <2> HIDE DEF b
  <2> QED BY <1>1, ReaderChanges
<1> QED BY <1>1, <1>2, <1>3

(* An option that waits, and the word behind it. *)
LEMMA WordTaken ==
  ASSUME NEW name \in OwnerNames, NEW taken \in Seq(Pair),
         NEW arg \in Line!Argument, arg.kind = "word"
  PROVE  /\ <<name, arg.word>> \in Pair
         /\ Line!GetoptsStep(Reader("options", name, taken), arg)
              = Reader("options", None, Append(taken, <<name, arg.word>>))
<1> DEFINE acc == Reader("options", name, taken)
<1>1. acc \in Readers
  BY ReaderHas DEF Places
<1>2. acc.at = "options" /\ acc.pending = name /\ acc.taken = taken
  BY ReaderFields
<1>3. name # None /\ name \in Line!Known
  BY NamesApart
<1>4. <<name, arg.word>> \in Pair
  BY <1>3, ArgumentIs DEF Pair
<1> HIDE DEF acc
<1>5. Line!GetoptsStep(acc, arg) = Reader(acc.at, None, Append(acc.taken, <<acc.pending, arg.word>>))
  BY <1>1, <1>2, <1>3, StepValue
<1> QED BY <1>2, <1>4, <1>5 DEF acc

-----------------------------------------------------------------------------
(* The arguments that are behind                                           *)

(* Why an option could not stay: what stands behind it is no text, or      *)
(* getopts fails with it, or it waits for a value that does not come.      *)
NextIs(line, p, kind) == p + 1 \in 1..Len(line) /\ line[p + 1].kind = kind

Reason(line, drop, p) ==
  \/ NextIs(line, p, "garbage")
  \/ Lost(Line!GetoptsStep(At(line, drop)[p - 1], line[p]))
  \/ /\ Line!GetoptsStep(At(line, drop)[p - 1], line[p]).pending \in Line!Valued
     /\ ~NextIs(line, p, "word")

Excused(line, drop, p) ==
  (line[p].kind \in {"long", "cluster"} /\ Dropped(drop, p) # {}) => Reason(line, drop, p)

Behind(line, i, drop) ==
  \A k \in 1..Len(line) : k < i => HasOwner(line, drop, k) /\ Excused(line, drop, k)

(* Positions that have been reached. *)
Placed(line, i, o, drop) ==
  drop \subseteq {q \in (1..Len(line)) \X Nat : q[1] < i \/ (q[1] = i /\ q[2] \in 1..(o - 1))}

SameBelow(D, E, i) == \A k \in Nat, m \in Nat : k < i => (<<k, m>> \in D <=> <<k, m>> \in E)

LEMMA PlacedIs ==
  ASSUME NEW line, NEW i, NEW o, NEW drop, Placed(line, i, o, drop), NEW k, NEW m, <<k, m>> \in drop
  PROVE  k \in 1..Len(line) /\ m \in Nat /\ (k < i \/ (k = i /\ m \in 1..(o - 1)))
BY DEF Placed

LEMMA BelowAgrees ==
  ASSUME NEW line \in Seq(Line!Argument), NEW D, NEW E, NEW i \in 1..(Len(line) + 1),
         SameBelow(D, E, i)
  PROVE  /\ \A k \in 1..Len(line) : k < i => Piece(line, D, k) = Piece(line, E, k)
         /\ \A k \in 0..Len(line) : k < i => At(line, D)[k] = At(line, E)[k]
<1>1. ASSUME NEW k \in 1..Len(line), k < i PROVE Piece(line, D, k) = Piece(line, E, k)
  <2>1. \A m \in Nat : <<k, m>> \in D <=> <<k, m>> \in E
    BY <1>1 DEF SameBelow
  <2> QED BY <2>1, PieceAgree
<1>2. i - 1 \in 0..Len(line) /\ \A k \in 1..(i - 1) : Piece(line, D, k) = Piece(line, E, k)
  BY <1>1
<1>3. \A j \in 0..(i - 1) : At(line, D)[j] = At(line, E)[j]
  BY <1>2, AtAgree
<1>4. \A k \in 0..Len(line) : k < i => k \in 0..(i - 1)
  OBVIOUS
<1> QED BY <1>1, <1>3, <1>4

LEMMA BehindStays ==
  ASSUME NEW line \in Seq(Line!Argument), NEW D, NEW E, NEW i \in 1..(Len(line) + 1),
         SameBelow(D, E, i), Behind(line, i, D)
  PROVE  Behind(line, i, E)
<1> SUFFICES ASSUME NEW k \in 1..Len(line), k < i PROVE HasOwner(line, E, k) /\ Excused(line, E, k)
  BY DEF Behind
<1>1. HasOwner(line, D, k) /\ Excused(line, D, k)
  BY DEF Behind
<1>2. <<k, 0>> \in D <=> <<k, 0>> \in E
  BY DEF SameBelow
<1>3. Dropped(D, k) = Dropped(E, k)
  BY DEF SameBelow, Dropped
<1>4. HasOwner(line, E, k)
  <2>1. k > 1 => Piece(line, D, k - 1) = Piece(line, E, k - 1)
    <3>1. k > 1 => k - 1 \in 1..Len(line) /\ k - 1 < i
      OBVIOUS
    <3> QED BY <3>1, BelowAgrees
  <2> QED BY <1>1, <1>2, <2>1 DEF HasOwner
<1>5. Excused(line, E, k)
  <2>1. At(line, D)[k - 1] = At(line, E)[k - 1]
    <3>1. k - 1 \in 0..Len(line) /\ k - 1 < i
      OBVIOUS
    <3> QED BY <3>1, BelowAgrees
  <2> QED BY <1>1, <1>3, <2>1 DEF Excused, Reason
<1> QED BY <1>4, <1>5

-----------------------------------------------------------------------------
(* In front of an argument                                                 *)

(* Getopts over what is left of the arguments behind has what was kept.    *)
(* Nothing is dropped further on; behind, every word that stays has its    *)
(* owner and every option that was dropped could not stay.                 *)
Between(line, i, place, taken, drop) ==
  /\ i \in 1..(Len(line) + 1)
  /\ Placed(line, i, 0, drop)
  /\ Behind(line, i, drop)
  /\ Agrees(At(line, drop)[i - 1], place, taken)

(* One argument further. *)
LEMMA MovesOne ==
  ASSUME NEW line \in Seq(Line!Argument), NEW i \in 1..Len(line), NEW D, NEW E,
         Behind(line, i, D), SameBelow(D, E, i), Placed(line, i + 1, 0, E),
         HasOwner(line, E, i), Excused(line, E, i),
         NEW place, NEW taken, Agrees(At(line, E)[i], place, taken)
  PROVE  Between(line, i + 1, place, taken, E)
<1>1. i \in 1..(Len(line) + 1) /\ i + 1 \in 1..(Len(line) + 1) /\ (i + 1) - 1 = i
  OBVIOUS
<1>2. Behind(line, i, E)
  BY <1>1, BehindStays
<1>3. Behind(line, i + 1, E)
  <2>1. \A k \in 1..Len(line) : k < i + 1 => k < i \/ k = i
    OBVIOUS
  <2> QED BY <1>2, <2>1 DEF Behind
<1> QED BY <1>1, <1>3 DEF Between

(* Two arguments further. *)
LEMMA MovesTwo ==
  ASSUME NEW line \in Seq(Line!Argument), NEW i \in 1..Len(line), i + 1 \in 1..Len(line), NEW D, NEW E,
         Behind(line, i, D), SameBelow(D, E, i), Placed(line, i + 2, 0, E),
         HasOwner(line, E, i), Excused(line, E, i),
         HasOwner(line, E, i + 1), Excused(line, E, i + 1),
         NEW place, NEW taken, Agrees(At(line, E)[i + 1], place, taken)
  PROVE  Between(line, i + 2, place, taken, E)
<1>1. i \in 1..(Len(line) + 1) /\ i + 2 \in 1..(Len(line) + 1) /\ (i + 2) - 1 = i + 1
  OBVIOUS
<1>2. Behind(line, i, E)
  BY <1>1, BehindStays
<1>3. Behind(line, i + 2, E)
  <2>1. \A k \in 1..Len(line) : k < i + 2 => k < i \/ k = i \/ k = i + 1
    OBVIOUS
  <2> QED BY <1>2, <2>1 DEF Behind
<1> QED BY <1>1, <1>3 DEF Between

(* What is dropped of a place, and of the next one. *)
LEMMA DropsOne ==
  ASSUME NEW line, NEW i \in 1..Len(line), NEW o \in Nat, NEW D, Placed(line, i, o, D),
         NEW more, more \subseteq {i} \X Nat
  PROVE  SameBelow(D, D \cup more, i) /\ Placed(line, i + 1, 0, D \cup more)
<1>1. SameBelow(D, D \cup more, i)
  BY DEF SameBelow
<1>2. ASSUME NEW q \in D \cup more
      PROVE  q \in (1..Len(line)) \X Nat /\ (q[1] < i + 1 \/ (q[1] = i + 1 /\ q[2] \in 1..(0 - 1)))
  BY DEF Placed
<1> QED BY <1>1, <1>2 DEF Placed

LEMMA DropsTwo ==
  ASSUME NEW line, NEW i \in 1..Len(line), i + 1 \in 1..Len(line), NEW o \in Nat, NEW D,
         Placed(line, i, o, D), NEW more, more \subseteq {i, i + 1} \X Nat
  PROVE  SameBelow(D, D \cup more, i) /\ Placed(line, i + 2, 0, D \cup more)
<1>1. SameBelow(D, D \cup more, i)
  BY DEF SameBelow
<1>2. ASSUME NEW q \in D \cup more
      PROVE  q \in (1..Len(line)) \X Nat /\ (q[1] < i + 2 \/ (q[1] = i + 2 /\ q[2] \in 1..(0 - 1)))
  BY DEF Placed
<1> QED BY <1>1, <1>2 DEF Placed

LEMMA BetweenIs ==
  ASSUME NEW line \in Seq(Line!Argument), NEW i \in 1..Len(line), NEW place, NEW taken, NEW D,
         Between(line, i, place, taken, D)
  PROVE  /\ Placed(line, i, 0, D) /\ Behind(line, i, D) /\ Agrees(At(line, D)[i - 1], place, taken)
         /\ line[i] \in Line!Argument
         /\ \A k \in Nat : <<i, k>> \notin D /\ <<i + 1, k>> \notin D
<1>1. line[i] \in Line!Argument /\ Placed(line, i, 0, D)
  BY LineHas DEF Between
<1>2. \A k \in Nat : <<i, k>> \notin D /\ <<i + 1, k>> \notin D
  BY <1>1, PlacedIs
<1> QED BY <1>1, <1>2 DEF Between

(* An argument that is ignored. *)
LEMMA IgnoresOne ==
  ASSUME NEW line \in Seq(Line!Argument), NEW i \in 1..Len(line), NEW place, NEW taken, NEW D,
         Between(line, i, place, taken, D),
         line[i].kind \in {"long", "cluster"} => Reason(line, D, i)
  PROVE  Between(line, i + 1, place, taken, D \cup {<<i, 0>>})
<1> DEFINE E == D \cup {<<i, 0>>}
<1>1. Placed(line, i, 0, D) /\ Behind(line, i, D) /\ Agrees(At(line, D)[i - 1], place, taken)
  BY BetweenIs
<1>2. SameBelow(D, E, i) /\ Placed(line, i + 1, 0, E)
  <2>1. {<<i, 0>>} \subseteq {i} \X Nat
    OBVIOUS
  <2> QED BY <1>1, <2>1, DropsOne
<1>3. <<i, 0>> \in E
  OBVIOUS
<1> HIDE DEF E
<1>4. HasOwner(line, E, i)
  BY <1>3 DEF HasOwner
<1>5. At(line, E)[i - 1] = At(line, D)[i - 1]
  <2>1. i - 1 \in 0..Len(line) /\ i - 1 < i /\ i \in 1..(Len(line) + 1)
    OBVIOUS
  <2> QED BY <1>2, <2>1, BelowAgrees
<1>6. Excused(line, E, i)
  BY <1>5 DEF Excused, Reason
<1>7. At(line, E)[i] = At(line, E)[i - 1]
  <2>1. Piece(line, E, i) = <<>>
    BY <1>3, PieceGone
  <2> QED BY <2>1, AtNothing
<1>8. Agrees(At(line, E)[i], place, taken)
  BY <1>1, <1>5, <1>7
<1>9. Between(line, i + 1, place, taken, E)
  BY <1>1, <1>2, <1>4, <1>6, <1>8, MovesOne
<1> QED BY <1>9 DEF E

(* An option that is ignored with what stands behind it. *)
LEMMA IgnoresTwo ==
  ASSUME NEW line \in Seq(Line!Argument), NEW i \in 1..Len(line), i + 1 \in 1..Len(line),
         NEW place, NEW taken, NEW D, Between(line, i, place, taken, D),
         line[i + 1].kind \in {"word", "garbage"}, Reason(line, D, i)
  PROVE  Between(line, i + 2, place, taken, D \cup {<<i, 0>>, <<i + 1, 0>>})
<1> DEFINE E == D \cup {<<i, 0>>, <<i + 1, 0>>}
<1>1. Placed(line, i, 0, D) /\ Behind(line, i, D) /\ Agrees(At(line, D)[i - 1], place, taken)
  BY BetweenIs
<1>2. SameBelow(D, E, i) /\ Placed(line, i + 2, 0, E)
  <2>1. {<<i, 0>>, <<i + 1, 0>>} \subseteq {i, i + 1} \X Nat
    OBVIOUS
  <2> QED BY <1>1, <2>1, DropsTwo
<1>3. <<i, 0>> \in E /\ <<i + 1, 0>> \in E
  OBVIOUS
<1> HIDE DEF E
<1>4. HasOwner(line, E, i) /\ HasOwner(line, E, i + 1)
  BY <1>3 DEF HasOwner
<1>5. At(line, E)[i - 1] = At(line, D)[i - 1]
  <2>1. i - 1 \in 0..Len(line) /\ i - 1 < i /\ i \in 1..(Len(line) + 1)
    OBVIOUS
  <2> QED BY <1>2, <2>1, BelowAgrees
<1>6. Excused(line, E, i) /\ Excused(line, E, i + 1)
  BY <1>5 DEF Excused, Reason
<1>7. At(line, E)[i] = At(line, E)[i - 1] /\ At(line, E)[i + 1] = At(line, E)[i]
  <2>1. (i + 1) - 1 = i
    OBVIOUS
  <2>a. Piece(line, E, i) = <<>> /\ Piece(line, E, i + 1) = <<>>
    BY <1>3, PieceGone
  <2>2. At(line, E)[i] = At(line, E)[i - 1]
    BY <2>a, AtNothing
  <2>3. At(line, E)[i + 1] = At(line, E)[(i + 1) - 1]
    BY <2>a, AtNothing
  <2> QED BY <2>1, <2>2, <2>3
<1>8. Agrees(At(line, E)[i + 1], place, taken)
  BY <1>1, <1>5, <1>7
<1>9. Between(line, i + 2, place, taken, E)
  BY <1>1, <1>2, <1>4, <1>6, <1>8, MovesTwo
<1> QED BY <1>9 DEF E

(* An argument that stays, and is read. *)
LEMMA KeepsOne ==
  ASSUME NEW line \in Seq(Line!Argument), NEW i \in 1..Len(line), NEW place, NEW taken, NEW D,
         Between(line, i, place, taken, D), line[i].kind \notin {"word", "cluster"},
         NEW after, NEW more, Agrees(Line!GetoptsStep(At(line, D)[i - 1], line[i]), after, more)
  PROVE  Between(line, i + 1, after, more, D)
<1>1. /\ Placed(line, i, 0, D) /\ Behind(line, i, D) /\ line[i] \in Line!Argument
      /\ \A k \in Nat : <<i, k>> \notin D
  BY BetweenIs
<1>2. SameBelow(D, D, i) /\ Placed(line, i + 1, 0, D)
  <2>1. {} \subseteq {i} \X Nat /\ D \cup {} = D
    OBVIOUS
  <2>2. SameBelow(D, D \cup {}, i) /\ Placed(line, i + 1, 0, D \cup {})
    BY <1>1, <2>1, DropsOne
  <2> QED BY <2>1, <2>2
<1>3. HasOwner(line, D, i) /\ Excused(line, D, i)
  BY <1>1 DEF HasOwner, Excused, Dropped
<1>4. At(line, D)[i] = Line!GetoptsStep(At(line, D)[i - 1], line[i])
  <2>1. <<i, 0>> \notin D
    BY <1>1
  <2>2. Piece(line, D, i) = <<line[i]>>
    BY <2>1, PieceKept
  <2> QED BY <1>1, <2>2, AtOne
<1> QED BY <1>1, <1>2, <1>3, <1>4, MovesOne

(* An option that stays with its value. *)
LEMMA KeepsTwo ==
  ASSUME NEW line \in Seq(Line!Argument), NEW i \in 1..Len(line), i + 1 \in 1..Len(line),
         NEW place, NEW taken, NEW D, Between(line, i, place, taken, D),
         line[i].kind = "long", line[i + 1].kind = "word", NEW after, NEW more,
         Agrees(Line!GetoptsStep(Line!GetoptsStep(At(line, D)[i - 1], line[i]), line[i + 1]), after, more)
  PROVE  Between(line, i + 2, after, more, D)
<1>1. /\ Placed(line, i, 0, D) /\ Behind(line, i, D) /\ line[i] \in Line!Argument
      /\ line[i + 1] \in Line!Argument
      /\ \A k \in Nat : <<i, k>> \notin D /\ <<i + 1, k>> \notin D
  BY BetweenIs, LineHas
<1>2. SameBelow(D, D, i) /\ Placed(line, i + 2, 0, D)
  <2>1. {} \subseteq {i, i + 1} \X Nat /\ D \cup {} = D
    OBVIOUS
  <2>2. SameBelow(D, D \cup {}, i) /\ Placed(line, i + 2, 0, D \cup {})
    BY <1>1, <2>1, DropsTwo
  <2> QED BY <2>1, <2>2
<1>3. Piece(line, D, i) = <<line[i]>> /\ Piece(line, D, i + 1) = <<line[i + 1]>> /\ (i + 1) - 1 = i
  <2>1. <<i, 0>> \notin D /\ <<i + 1, 0>> \notin D /\ (i + 1) - 1 = i
    BY <1>1
  <2>2. Piece(line, D, i) = <<line[i]>>
    BY <2>1, PieceKept
  <2>3. Piece(line, D, i + 1) = <<line[i + 1]>>
    BY <2>1, PieceKept
  <2> QED BY <2>1, <2>2, <2>3
<1>4. /\ HasOwner(line, D, i) /\ Excused(line, D, i)
      /\ HasOwner(line, D, i + 1) /\ Excused(line, D, i + 1)
  <2>1. i + 1 > 1 /\ <<line[i]>> # <<>>
    OBVIOUS
  <2> QED BY <1>1, <1>3, <2>1 DEF HasOwner, Excused, Dropped
<1>5. At(line, D)[i] = Line!GetoptsStep(At(line, D)[i - 1], line[i])
  BY <1>1, <1>3, AtOne
<1>6. At(line, D)[i + 1] = Line!GetoptsStep(At(line, D)[i], line[i + 1])
  <2>1. At(line, D)[i + 1] = Line!GetoptsStep(At(line, D)[(i + 1) - 1], line[i + 1])
    BY <1>1, <1>3, AtOne
  <2> QED BY <1>3, <2>1
<1> QED BY <1>1, <1>2, <1>4, <1>5, <1>6, MovesTwo

-----------------------------------------------------------------------------
(* At a letter of a cluster                                                *)

LeftBefore(arg, o, dropped) == Left(arg.letters, dropped)[o - 1]

InCluster(acc, arg, o, taken, dropped) ==
  /\ Agrees(acc, "options", Taken(acc))
  /\ AreFlags(LeftBefore(arg, o, dropped))
  /\ taken = Taken(acc) \o FlagsOf(LeftBefore(arg, o, dropped))
  /\ taken \in Seq(Pair) /\ Once(taken)
  /\ (dropped # {} => Lost(Line!GetoptsStep(acc, arg)))

Within(line, i, o, taken, drop) ==
  /\ i \in 1..Len(line) /\ line[i].kind = "cluster"
  /\ o \in 1..(Len(line[i].letters) + 1)
  /\ Placed(line, i, o, drop)
  /\ Behind(line, i, drop)
  /\ InCluster(At(line, drop)[i - 1], line[i], o, taken, Dropped(drop, i))

LEMMA LeftFront ==
  ASSUME NEW letters \in Seq(STRING), NEW D, NEW m \in 0..Len(letters), \A k \in 1..m : k \notin D
  PROVE  Left(letters, D)[m] = SubSeq(letters, 1, m)
<1> DEFINE p == Left(letters, D)
           T == {k \in Nat : k <= m => p[k] = SubSeq(letters, 1, k)}
<1>a. Leaves(p, letters, D)
  BY LeftIs
<1> HIDE DEF p
<1>1. 0 \in T
  <2>1. SubSeq(letters, 1, 0) = <<>>
    OBVIOUS
  <2> QED BY <1>a, <2>1 DEF Leaves
<1>2. ASSUME NEW k \in T PROVE k + 1 \in T
  <2> SUFFICES ASSUME k + 1 <= m PROVE p[k + 1] = SubSeq(letters, 1, k + 1)
    OBVIOUS
  <2>1. k \in Nat /\ k + 1 \in 1..m /\ k + 1 \in 1..Len(letters) /\ (k + 1) - 1 = k /\ p[k] = SubSeq(letters, 1, k)
    OBVIOUS
  <2>2. p[k + 1] = Append(p[k], letters[k + 1])
    <3>1. k + 1 \notin D
      BY <2>1
    <3> QED BY <1>a, <2>1, <3>1 DEF Leaves
  <2>3. SubSeq(letters, 1, k + 1) = Append(SubSeq(letters, 1, k), letters[k + 1])
    BY <2>1
  <2> QED BY <2>1, <2>2, <2>3
<1>3. T = Nat
  <2> HIDE DEF T
  <2>1. T \subseteq Nat
    BY DEF T
  <2> QED BY <1>1, <1>2, <2>1, Induction
<1>4. m \in T /\ m <= m
  <2> HIDE DEF T
  <2> QED BY <1>3
<1> QED BY <1>4 DEF p

LEMMA WithinIs ==
  ASSUME NEW line \in Seq(Line!Argument), NEW i, NEW o, NEW taken, NEW D, Within(line, i, o, taken, D)
  PROVE  /\ i \in 1..Len(line) /\ line[i] \in Line!Argument /\ line[i].kind = "cluster"
         /\ line[i].letters \in Seq(STRING) /\ o - 1 \in 0..Len(line[i].letters)
         /\ LeftBefore(line[i], o, Dropped(D, i)) \in Seq(STRING)
         /\ Placed(line, i, o, D) /\ Behind(line, i, D)
         /\ <<i, 0>> \notin D /\ \A k \in Dropped(D, i) : k \in 1..(o - 1)
         /\ \A k \in Nat : <<i + 1, k>> \notin D
<1>1. /\ i \in 1..Len(line) /\ line[i].kind = "cluster" /\ o \in 1..(Len(line[i].letters) + 1)
      /\ Placed(line, i, o, D) /\ Behind(line, i, D)
  BY DEF Within
<1>2. line[i] \in Line!Argument
  BY <1>1, LineHas
<1> DEFINE w == line[i].letters
<1>3. w \in Seq(STRING)
  BY <1>1, <1>2, ArgumentIs
<1>4. o \in Nat /\ o - 1 \in 0..Len(w)
  BY <1>1, <1>3
<1>5. LeftBefore(line[i], o, Dropped(D, i)) \in Seq(STRING)
  <2>1. Leaves(Left(w, Dropped(D, i)), w, Dropped(D, i))
    BY <1>3, LeftIs
  <2> QED BY <1>4, <2>1 DEF Leaves, LeftBefore
<1>6. <<i, 0>> \notin D /\ \A k \in Dropped(D, i) : k \in 1..(o - 1)
  <2>1. ASSUME NEW k, <<i, k>> \in D PROVE k \in 1..(o - 1)
    BY <1>1, <2>1, PlacedIs
  <2>2. 0 \notin 1..(o - 1)
    OBVIOUS
  <2> QED BY <2>1, <2>2 DEF Dropped
<1>7. ASSUME NEW k \in Nat PROVE <<i + 1, k>> \notin D
  <2> SUFFICES ASSUME <<i + 1, k>> \in D PROVE FALSE
    OBVIOUS
  <2>1. i + 1 < i \/ i + 1 = i
    BY <1>1, PlacedIs
  <2> QED BY <1>1, <2>1
<1> QED BY <1>1, <1>2, <1>3, <1>4, <1>5, <1>6, <1>7

(* Into a cluster. *)
LEMMA Enters ==
  ASSUME NEW line \in Seq(Line!Argument), NEW i \in 1..Len(line), NEW taken, NEW D,
         Between(line, i, "options", taken, D), line[i].kind = "cluster"
  PROVE  Within(line, i, 1, taken, D)
<1> DEFINE acc == At(line, D)[i - 1]
           w == line[i].letters
<1>1. /\ Placed(line, i, 0, D) /\ Behind(line, i, D) /\ Agrees(acc, "options", taken)
      /\ line[i] \in Line!Argument /\ \A k \in Nat : <<i, k>> \notin D
  BY BetweenIs
<1>2. w \in Seq(STRING)
  BY <1>1, ArgumentIs
<1>3. Dropped(D, i) = {}
  BY <1>1 DEF Dropped
<1>4. LeftBefore(line[i], 1, Dropped(D, i)) = <<>>
  <2>1. Leaves(Left(w, Dropped(D, i)), w, Dropped(D, i))
    BY <1>2, LeftIs
  <2> QED BY <2>1 DEF Leaves, LeftBefore
<1>5. Placed(line, i, 1, D)
  BY <1>1 DEF Placed
<1> HIDE DEF acc
<1>6. taken = Taken(acc) /\ taken \in Seq(Pair) /\ Once(taken)
  BY <1>1 DEF Agrees
<1>7. taken = taken \o <<>>
  <2> HIDE DEF Pair
  <2> QED BY <1>6
<1>8. InCluster(acc, line[i], 1, taken, Dropped(D, i))
  BY <1>1, <1>3, <1>4, <1>6, <1>7, NoFlags DEF InCluster
<1>9. 1 \in 1..(Len(w) + 1)
  BY <1>2
<1> QED BY <1>1, <1>5, <1>8, <1>9 DEF Within, acc

(* What is left of the cluster when nothing behind the letter is. *)
LEMMA FrontStays ==
  ASSUME NEW line \in Seq(Line!Argument), NEW i \in 1..Len(line), NEW E,
         line[i].kind = "cluster", <<i, 0>> \notin E,
         NEW acc, acc = At(line, E)[i - 1], Agrees(acc, "options", Taken(acc)),
         NEW front \in Seq(STRING), front = Remains(line[i].letters, Dropped(E, i)), AreFlags(front),
         NEW taken \in Seq(Pair), taken = Taken(acc) \o FlagsOf(front), Once(taken)
  PROVE  Agrees(At(line, E)[i], "options", taken)
<1>1. Piece(line, E, i) = ClusterOf(front)
  BY PieceCluster
<1>2. CASE front = <<>>
  <2>1. At(line, E)[i] = acc
    BY <1>1, <1>2, AtNothing DEF ClusterOf
  <2>2. taken = Taken(acc)
    <3>1. Taken(acc) \in Seq(Pair)
      BY DEF Agrees
    <3>2. taken = Taken(acc) \o <<>>
      BY <1>2, NoFlags
    <3> HIDE DEF Pair
    <3> QED BY <3>1, <3>2
  <2> QED BY <2>1, <2>2
<1>3. CASE front # <<>>
  <2> DEFINE c == Line!Cluster(front)
             b == Reader("options", None, Taken(acc))
  <2>1. c \in Line!Argument /\ c.kind = "cluster" /\ c.letters = front /\ Piece(line, E, i) = <<c>>
    BY <1>1, <1>3, ClusterIs DEF ClusterOf
  <2> HIDE DEF c
  <2>2. At(line, E)[i] = Line!GetoptsStep(acc, c)
    BY <2>1, AtOne
  <2>3. /\ b \in Readers /\ b.at = "options" /\ b.pending = None /\ b.taken = Taken(acc)
        /\ Line!GetoptsStep(acc, c) = Line!TakeCluster(b, c.letters)
    BY <2>1, StepsFrom
  <2> HIDE DEF b
  <2>4. Line!TakeCluster(b, front) = Reader(b.at, b.pending, b.taken \o FlagsOf(front))
    BY <2>3, ClusterFlags
  <2>5. At(line, E)[i] = Reader("options", None, taken)
    BY <2>1, <2>2, <2>3, <2>4
  <2> QED BY <2>5, AgreesPlainly
<1> QED BY <1>2, <1>3

(* A letter that could not stay. *)
LEMMA LetterMistaken ==
  ASSUME NEW line \in Seq(Line!Argument), NEW i, NEW o, NEW taken, NEW D, Within(line, i, o, taken, D),
         o <= Len(line[i].letters), NEW name, name = Line!ByShort(line[i].letters[o]),
         name = None \/ (name \notin Line!Repeatable /\ Repeats(taken, name))
  PROVE  Lost(Line!GetoptsStep(At(line, D)[i - 1], line[i]))
<1> DEFINE acc == At(line, D)[i - 1]
           arg == line[i]
           w == arg.letters
           dropped == Dropped(D, i)
<1>1. InCluster(acc, arg, o, taken, dropped) /\ o \in 1..(Len(w) + 1)
  BY DEF Within
<1>2. /\ arg \in Line!Argument /\ arg.kind = "cluster" /\ w \in Seq(STRING)
      /\ o - 1 \in 0..Len(w)
  BY WithinIs
<1>a. o \in 1..Len(w)
  BY <1>1, <1>2
<1> HIDE DEF acc, arg, dropped
<1>3. CASE dropped # {}
  BY <1>1, <1>3 DEF InCluster, acc, arg
<1>4. CASE dropped = {}
  <2> DEFINE pre == SubSeq(w, 1, o - 1)
             post == SubSeq(w, o + 1, Len(w))
             b == Reader("options", None, Taken(acc))
  <2>1. Splits(w, o, pre, post)
    BY <1>2, <1>a, LettersSplit
  <2>2. LeftBefore(arg, o, dropped) = pre
    BY <1>2, <1>4, LeftFront DEF LeftBefore
  <2>3. AreFlags(pre) /\ taken = Taken(acc) \o FlagsOf(pre) /\ Agrees(acc, "options", Taken(acc))
    BY <1>1, <2>2 DEF InCluster
  <2>4. /\ b \in Readers /\ b.at = "options" /\ b.pending = None /\ b.taken = Taken(acc)
        /\ Line!GetoptsStep(acc, arg) = Line!TakeCluster(b, w)
    BY <1>2, <2>3, StepsFrom
  <2> HIDE DEF b, pre, post, w
  <2>5. name = Line!ByShort(w[o])
    BY DEF w, arg
  <2>6. name = None \/ (name \notin Line!Repeatable /\ Repeats(b.taken \o FlagsOf(pre), name))
    BY <2>3, <2>4
  <2>7. b.at # "failed" /\ w \in Seq(STRING) /\ o \in 1..Len(w)
    BY <1>2, <1>a, <2>4
  <2>8. Lost(Line!TakeCluster(b, w))
    BY <2>1, <2>3, <2>4, <2>5, <2>6, <2>7, LetterLost
  <2> QED BY <2>4, <2>8 DEF acc, arg
<1> QED BY <1>3, <1>4

(* The last letter, of an option that needs a value. *)
LEMMA LetterAwaits ==
  ASSUME NEW line \in Seq(Line!Argument), NEW i, NEW o, NEW taken, NEW D, Within(line, i, o, taken, D),
         o = Len(line[i].letters), Line!ByShort(line[i].letters[o]) \in Line!Valued
  PROVE  \/ Lost(Line!GetoptsStep(At(line, D)[i - 1], line[i]))
         \/ Line!GetoptsStep(At(line, D)[i - 1], line[i]).pending \in Line!Valued
<1> DEFINE acc == At(line, D)[i - 1]
           arg == line[i]
           w == arg.letters
           dropped == Dropped(D, i)
<1>1. InCluster(acc, arg, o, taken, dropped) /\ o \in 1..(Len(w) + 1)
  BY DEF Within
<1>2. /\ arg \in Line!Argument /\ arg.kind = "cluster" /\ w \in Seq(STRING)
      /\ o - 1 \in 0..Len(w)
  BY WithinIs
<1>a. o \in 1..Len(w) /\ o = Len(w) /\ Line!ByShort(w[o]) \in Line!Valued
  BY <1>1, <1>2
<1> HIDE DEF acc, arg, dropped
<1>3. CASE dropped # {}
  BY <1>1, <1>3 DEF InCluster, acc, arg
<1>4. CASE dropped = {}
  <2> DEFINE pre == SubSeq(w, 1, o - 1)
             post == SubSeq(w, o + 1, Len(w))
             b == Reader("options", None, Taken(acc))
  <2>1. Splits(w, o, pre, post)
    BY <1>2, <1>a, LettersSplit
  <2>2. LeftBefore(arg, o, dropped) = pre
    BY <1>2, <1>4, LeftFront DEF LeftBefore
  <2>3. AreFlags(pre) /\ Agrees(acc, "options", Taken(acc))
    BY <1>1, <2>2 DEF InCluster
  <2>4. /\ b \in Readers /\ b.pending = None
        /\ Line!GetoptsStep(acc, arg) = Line!TakeCluster(b, w)
    BY <1>2, <2>3, StepsFrom
  <2> HIDE DEF b, pre, post, w
  <2>5. Line!TakeCluster(b, w).pending \in Line!Valued
    <3>1. w \in Seq(STRING)
      BY <1>2 DEF w
    <3> QED BY <1>a, <2>1, <2>3, <2>4, <3>1, LetterWaits
  <2> QED BY <2>4, <2>5 DEF acc, arg
<1> QED BY <1>3, <1>4

(* A cluster that was looked at, kept or not, has its excuse. *)
LEMMA ClusterExcused ==
  ASSUME NEW line \in Seq(Line!Argument), NEW i, NEW o, NEW taken, NEW D, Within(line, i, o, taken, D)
  PROVE  Excused(line, D, i) /\ HasOwner(line, D, i)
<1>1. /\ line[i].kind = "cluster"
      /\ InCluster(At(line, D)[i - 1], line[i], o, taken, Dropped(D, i))
  BY DEF Within
<1>2. Dropped(D, i) # {} => Lost(Line!GetoptsStep(At(line, D)[i - 1], line[i]))
  BY <1>1 DEF InCluster
<1> QED BY <1>1, <1>2 DEF Excused, Reason, HasOwner

(* A letter that is ignored. *)
LEMMA LetterGoes ==
  ASSUME NEW line \in Seq(Line!Argument), NEW i, NEW o, NEW taken, NEW D, Within(line, i, o, taken, D),
         o <= Len(line[i].letters), Lost(Line!GetoptsStep(At(line, D)[i - 1], line[i]))
  PROVE  Within(line, i, o + 1, taken, D \cup {<<i, o>>})
<1> DEFINE acc == At(line, D)[i - 1]
           arg == line[i]
           w == arg.letters
           dropped == Dropped(D, i)
           E == D \cup {<<i, o>>}
           after == Dropped(E, i)
<1>1. InCluster(acc, arg, o, taken, dropped) /\ o \in 1..(Len(w) + 1)
  BY DEF Within
<1>2. /\ i \in 1..Len(line) /\ arg \in Line!Argument /\ arg.kind = "cluster" /\ w \in Seq(STRING)
      /\ o - 1 \in 0..Len(w) /\ Placed(line, i, o, D) /\ Behind(line, i, D)
  BY WithinIs
<1>3. o \in 1..Len(w) /\ o + 1 \in 1..(Len(w) + 1) /\ (o + 1) - 1 = o
  BY <1>1, <1>2
<1>4. SameBelow(D, E, i) /\ Placed(line, i, o + 1, E)
  <2>1. SameBelow(D, E, i)
    BY DEF SameBelow
  <2>2. ASSUME NEW q \in E
        PROVE  q \in (1..Len(line)) \X Nat /\ (q[1] < i \/ (q[1] = i /\ q[2] \in 1..((o + 1) - 1)))
    <3>1. CASE q \in D
      <4>1. q \in (1..Len(line)) \X Nat /\ (q[1] < i \/ (q[1] = i /\ q[2] \in 1..(o - 1)))
        BY <1>2, <3>1 DEF Placed
      <4>2. \A k \in 1..(o - 1) : k \in 1..((o + 1) - 1)
        BY <1>3
      <4> QED BY <4>1, <4>2
    <3>2. CASE q = <<i, o>>
      BY <1>2, <1>3, <3>2
    <3> QED BY <3>1, <3>2
  <2> QED BY <2>1, <2>2 DEF Placed
<1>5. after = dropped \cup {o}
  BY <1>3 DEF Dropped
<1> HIDE DEF E, after
<1>6. Behind(line, i, E) /\ At(line, E)[i - 1] = acc
  <2>1. i \in 1..(Len(line) + 1) /\ i - 1 \in 0..Len(line) /\ i - 1 < i
    BY <1>2
  <2> QED BY <1>2, <1>4, <2>1, BehindStays, BelowAgrees
<1>7. LeftBefore(arg, o + 1, after) = LeftBefore(arg, o, dropped)
  <2>1. Left(w, after)[o] = Left(w, after)[o - 1]
    BY <1>2, <1>3, <1>5, LeftStep
  <2>2. Left(w, after)[o - 1] = Left(w, dropped)[o - 1]
    <3>1. \A k \in 1..(o - 1) : (k \in after <=> k \in dropped)
      BY <1>3, <1>5
    <3> HIDE DEF dropped
    <3> QED BY <1>2, <3>1, LeftAgrees
  <2> QED BY <1>3, <2>1, <2>2 DEF LeftBefore
<1>8. Lost(Line!GetoptsStep(acc, arg))
  OBVIOUS
<1> HIDE DEF acc, arg, dropped
<1>9. InCluster(acc, arg, o + 1, taken, after)
  BY <1>1, <1>7, <1>8 DEF InCluster
<1>10. Within(line, i, o + 1, taken, E)
  BY <1>2, <1>3, <1>4, <1>6, <1>9 DEF Within, after, arg
<1> QED BY <1>10 DEF E

(* A letter that is a flag, and stays. *)
LEMMA LetterStays ==
  ASSUME NEW line \in Seq(Line!Argument), NEW i, NEW o, NEW taken, NEW D, Within(line, i, o, taken, D),
         o <= Len(line[i].letters), NEW name, name = Line!ByShort(line[i].letters[o]),
         name \in Line!Flags, ~Repeats(taken, name)
  PROVE  Within(line, i, o + 1, Append(taken, <<name, None>>), D)
<1> DEFINE acc == At(line, D)[i - 1]
           arg == line[i]
           w == arg.letters
           dropped == Dropped(D, i)
           pair == <<name, None>>
           front == LeftBefore(arg, o, dropped)
           letter == w[o]
           before == Taken(acc)
           flags == FlagsOf(front)
<1>1. InCluster(acc, arg, o, taken, dropped) /\ o \in 1..(Len(w) + 1)
  BY DEF Within
<1>2. /\ i \in 1..Len(line) /\ arg \in Line!Argument /\ arg.kind = "cluster" /\ w \in Seq(STRING)
      /\ o - 1 \in 0..Len(w) /\ Placed(line, i, o, D) /\ Behind(line, i, D)
      /\ front \in Seq(STRING) /\ \A k \in dropped : k \in 1..(o - 1)
  BY WithinIs
<1>3. o \in 1..Len(w) /\ o + 1 \in 1..(Len(w) + 1) /\ (o + 1) - 1 = o /\ o \notin dropped
  BY <1>1, <1>2
<1>4. Placed(line, i, o + 1, D)
  <2>1. \A k \in 1..(o - 1) : k \in 1..((o + 1) - 1)
    BY <1>3
  <2> QED BY <1>2, <2>1 DEF Placed
<1>5. letter \in STRING /\ Line!ByShort(letter) = name
  BY <1>2, <1>3
<1>6. LeftBefore(arg, o + 1, dropped) = Append(front, letter)
  <2> HIDE DEF dropped
  <2>1. Left(w, dropped)[o] = Append(Left(w, dropped)[o - 1], w[o])
    <3>1. w \in Seq(STRING) /\ o \in 1..Len(w) /\ o \notin dropped
      BY <1>2, <1>3
    <3> HIDE DEF w
    <3> DEFINE p == Left(w, dropped)
    <3>2. Leaves(p, w, dropped)
      BY <3>1, LeftIs
    <3> HIDE DEF p
    <3>3. p[o] = Append(p[o - 1], w[o])
      BY <3>1, <3>2 DEF Leaves
    <3> QED BY <3>3 DEF p
  <2> QED BY <1>3, <2>1 DEF LeftBefore
<1>7. AreFlags(front) /\ taken = before \o flags /\ taken \in Seq(Pair) /\ Once(taken)
      /\ Agrees(acc, "options", before) /\ (dropped # {} => Lost(Line!GetoptsStep(acc, arg)))
  BY <1>1 DEF InCluster
<1>8. AreFlags(Append(front, letter)) /\ FlagsOf(Append(front, letter)) = Append(flags, pair)
  <2> HIDE DEF front, letter
  <2>1. /\ AreFlags(Append(front, letter))
        /\ FlagsOf(Append(front, letter))
             = Append(FlagsOf(front), <<Line!ByShort(letter), None>>)
    BY <1>2, <1>5, <1>7, FlagsGrow
  <2> QED BY <1>5, <2>1
<1>9. pair \in Pair /\ pair[1] = name
  <2>1. name \in Line!Known
    BY DEF Line!Known
  <2> QED BY <2>1 DEF Pair
<1>10. Append(taken, pair) \in Seq(Pair) /\ Once(Append(taken, pair))
  <2> HIDE DEF pair, before, flags
  <2> QED BY <1>7, <1>9, AppendOnce
<1>11. Append(taken, pair) = before \o Append(flags, pair)
  <2>1. before \in Seq(Pair) /\ flags \in Seq(Pair)
    <3>1. before \in Seq(Pair)
      BY <1>7 DEF Agrees
    <3> HIDE DEF front
    <3>2. flags \in Seq(Pair)
      BY <1>2, <1>7, FlagsAre
    <3> QED BY <3>1, <3>2
  <2> HIDE DEF before, flags, pair
  <2>2. MovesIn(before, flags, pair)
    BY <1>9, <2>1, AppendJoins
  <2> QED BY <1>7, <2>2 DEF MovesIn
<1> DEFINE next == LeftBefore(arg, o + 1, dropped)
           more == Append(taken, pair)
<1>12. AreFlags(next) /\ FlagsOf(next) = Append(flags, pair)
  BY <1>6, <1>8
<1> HIDE DEF acc, arg, dropped, pair, front, letter, flags, next
<1>13. AreFlags(next) /\ more = before \o FlagsOf(next) /\ more \in Seq(Pair) /\ Once(more)
  BY <1>10, <1>11, <1>12
<1>14. InCluster(acc, arg, o + 1, more, dropped)
  BY <1>7, <1>13 DEF InCluster, next, before
<1>15. Within(line, i, o + 1, more, D)
  BY <1>2, <1>3, <1>4, <1>14 DEF Within, acc, arg, dropped
<1> QED BY <1>15 DEF more, pair

(* Behind the last letter. *)
LEMMA ClusterEnds ==
  ASSUME NEW line \in Seq(Line!Argument), NEW i, NEW o, NEW taken, NEW D, Within(line, i, o, taken, D),
         o > Len(line[i].letters)
  PROVE  Between(line, i + 1, "options", taken, D)
<1> DEFINE acc == At(line, D)[i - 1]
           arg == line[i]
           w == arg.letters
           dropped == Dropped(D, i)
           front == LeftBefore(arg, o, dropped)
<1>1. InCluster(acc, arg, o, taken, dropped) /\ o \in 1..(Len(w) + 1)
  BY DEF Within
<1>2. /\ i \in 1..Len(line) /\ arg \in Line!Argument /\ arg.kind = "cluster" /\ w \in Seq(STRING)
      /\ o - 1 \in 0..Len(w) /\ Placed(line, i, o, D) /\ Behind(line, i, D) /\ <<i, 0>> \notin D
      /\ front \in Seq(STRING)
  BY WithinIs
<1>3. o - 1 = Len(w) /\ o \in Nat
  <2>1. w \in Seq(STRING) /\ o \in 1..(Len(w) + 1) /\ o > Len(w)
    BY <1>1, <1>2
  <2>2. Len(w) \in Nat
    BY <2>1
  <2> HIDE DEF w
  <2> QED BY <2>1, <2>2
<1>4. front = Remains(w, dropped)
  BY <1>3 DEF LeftBefore, Remains
<1>5. /\ AreFlags(front) /\ taken = Taken(acc) \o FlagsOf(front) /\ taken \in Seq(Pair)
      /\ Once(taken) /\ Agrees(acc, "options", Taken(acc))
  BY <1>1 DEF InCluster
<1>6. Agrees(At(line, D)[i], "options", taken)
  <2>1. front = Remains(line[i].letters, Dropped(D, i)) /\ acc = At(line, D)[i - 1]
    BY <1>4
  <2> HIDE DEF acc, front
  <2> QED BY <1>2, <1>5, <2>1, FrontStays
<1>7. SameBelow(D, D, i) /\ Placed(line, i + 1, 0, D)
  <2>1. {} \subseteq {i} \X Nat /\ D \cup {} = D
    OBVIOUS
  <2>2. SameBelow(D, D \cup {}, i) /\ Placed(line, i + 1, 0, D \cup {})
    BY <1>2, <1>3, <2>1, DropsOne
  <2> QED BY <2>1, <2>2
<1>8. HasOwner(line, D, i) /\ Excused(line, D, i)
  BY ClusterExcused
<1> QED BY <1>2, <1>6, <1>7, <1>8, MovesOne

Rest(line, i, o) == {<<i, k>> : k \in o..Len(line[i].letters)}

LEMMA RestIs ==
  ASSUME NEW line, NEW i \in Nat, NEW o \in Nat \ {0}, Len(line[i].letters) \in Nat
  PROVE  /\ Rest(line, i, o) \subseteq {i} \X Nat /\ <<i, 0>> \notin Rest(line, i, o)
         /\ \A k \in Nat : <<i, k>> \in Rest(line, i, o) <=> k \in o..Len(line[i].letters)
BY DEF Rest

LEMMA FrontGone ==
  ASSUME NEW w \in Seq(STRING), NEW dropped, NEW after, NEW m \in 0..Len(w),
         \A k \in 1..m : (k \in after <=> k \in dropped),
         \A k \in 1..Len(w) : k > m => k \in after
  PROVE  Left(w, dropped)[m] = Remains(w, after)
<1>1. Left(w, after)[Len(w)] = Left(w, after)[m]
  BY LeftDropped
<1>2. Left(w, after)[m] = Left(w, dropped)[m]
  BY LeftAgrees
<1> QED BY <1>1, <1>2 DEF Remains

(* An option that is ignored with what it owns of its cluster. *)
LEMMA OwnerGone ==
  ASSUME NEW line \in Seq(Line!Argument), NEW i, NEW o, NEW taken, NEW D, Within(line, i, o, taken, D),
         o <= Len(line[i].letters), Reason(line, D, i),
         NEW E, SameBelow(D, E, i), <<i, 0>> \notin E,
         \A k \in Nat : <<i, k>> \in E <=> (<<i, k>> \in D \/ k \in o..Len(line[i].letters))
  PROVE  Agrees(At(line, E)[i], "options", taken) /\ HasOwner(line, E, i) /\ Excused(line, E, i)
<1> DEFINE acc == At(line, D)[i - 1]
           arg == line[i]
           w == arg.letters
           dropped == Dropped(D, i)
           after == Dropped(E, i)
           front == LeftBefore(arg, o, dropped)
<1>1. InCluster(acc, arg, o, taken, dropped) /\ o \in 1..(Len(w) + 1)
  BY DEF Within
<1>2. /\ i \in 1..Len(line) /\ arg \in Line!Argument /\ arg.kind = "cluster" /\ w \in Seq(STRING)
      /\ o - 1 \in 0..Len(w) /\ front \in Seq(STRING)
  BY WithinIs
<1>3. o \in 1..Len(w)
  BY <1>1, <1>2
<1>4. \A k \in Nat : k \in after <=> (k \in dropped \/ k \in o..Len(w))
  BY DEF Dropped
<1>5. At(line, E)[i - 1] = acc
  <2>1. i \in 1..(Len(line) + 1) /\ i - 1 \in 0..Len(line) /\ i - 1 < i
    BY <1>2
  <2> QED BY <2>1, BelowAgrees
<1> HIDE DEF after, dropped
<1>6. front = Remains(w, after)
  <2> DEFINE m == o - 1
  <2>1. w \in Seq(STRING) /\ m \in 0..Len(w)
    BY <1>2
  <2>2. \A k \in 1..m : (k \in after <=> k \in dropped)
    BY <1>3, <1>4
  <2>3. \A k \in 1..Len(w) : k > m => k \in after
    BY <1>3, <1>4
  <2> HIDE DEF w, m
  <2>4. Left(w, dropped)[m] = Remains(w, after)
    BY <2>1, <2>2, <2>3, FrontGone
  <2> QED BY <2>4 DEF m, LeftBefore, w
<1>7. /\ AreFlags(front) /\ taken = Taken(acc) \o FlagsOf(front) /\ taken \in Seq(Pair)
      /\ Once(taken) /\ Agrees(acc, "options", Taken(acc))
  BY <1>1 DEF InCluster
<1>8. Agrees(At(line, E)[i], "options", taken)
  <2>1. front = Remains(line[i].letters, Dropped(E, i)) /\ acc = At(line, E)[i - 1]
    BY <1>5, <1>6 DEF after
  <2> HIDE DEF acc, front
  <2> QED BY <1>2, <1>7, <2>1, FrontStays
<1>9. Excused(line, E, i)
  BY <1>5 DEF Excused, Reason
<1>10. HasOwner(line, E, i)
  BY <1>2 DEF HasOwner
<1> QED BY <1>8, <1>9, <1>10

LEMMA OwnerGoes ==
  ASSUME NEW line \in Seq(Line!Argument), NEW i, NEW o, NEW taken, NEW D, Within(line, i, o, taken, D),
         o <= Len(line[i].letters), Reason(line, D, i)
  PROVE  Between(line, i + 1, "options", taken, D \cup Rest(line, i, o))
<1> DEFINE rest == Rest(line, i, o)
           E == D \cup rest
<1>1. /\ i \in 1..Len(line) /\ line[i].letters \in Seq(STRING) /\ o - 1 \in 0..Len(line[i].letters)
      /\ Placed(line, i, o, D) /\ Behind(line, i, D) /\ <<i, 0>> \notin D
  BY WithinIs
<1>2. o \in Nat \ {0} /\ Len(line[i].letters) \in Nat /\ i \in Nat
  <2>1. o \in 1..(Len(line[i].letters) + 1)
    BY DEF Within
  <2> QED BY <1>1, <2>1
<1>3. /\ rest \subseteq {i} \X Nat /\ <<i, 0>> \notin rest
      /\ \A k \in Nat : <<i, k>> \in rest <=> k \in o..Len(line[i].letters)
  BY <1>2, RestIs
<1> HIDE DEF rest
<1>4. SameBelow(D, E, i) /\ Placed(line, i + 1, 0, E)
  BY <1>1, <1>2, <1>3, DropsOne
<1>5. <<i, 0>> \notin E /\ \A k \in Nat : <<i, k>> \in E <=> (<<i, k>> \in D \/ k \in o..Len(line[i].letters))
  BY <1>1, <1>3
<1> HIDE DEF E
<1>6. Agrees(At(line, E)[i], "options", taken) /\ HasOwner(line, E, i) /\ Excused(line, E, i)
  BY <1>4, <1>5, OwnerGone
<1>7. Between(line, i + 1, "options", taken, E)
  BY <1>1, <1>4, <1>6, MovesOne
<1> QED BY <1>7 DEF E, rest

LEMMA OwnerGoesTwo ==
  ASSUME NEW line \in Seq(Line!Argument), NEW i, NEW o, NEW taken, NEW D, Within(line, i, o, taken, D),
         o <= Len(line[i].letters), Reason(line, D, i),
         i + 1 \in 1..Len(line), line[i + 1].kind \in {"word", "garbage"}
  PROVE  Between(line, i + 2, "options", taken, D \cup (Rest(line, i, o) \cup {<<i + 1, 0>>}))
<1> DEFINE rest == Rest(line, i, o)
           more == rest \cup {<<i + 1, 0>>}
           E == D \cup more
<1>1. /\ i \in 1..Len(line) /\ line[i].letters \in Seq(STRING) /\ o - 1 \in 0..Len(line[i].letters)
      /\ Placed(line, i, o, D) /\ Behind(line, i, D) /\ <<i, 0>> \notin D
  BY WithinIs
<1>2. o \in Nat \ {0} /\ Len(line[i].letters) \in Nat /\ i \in Nat
  <2>1. o \in 1..(Len(line[i].letters) + 1)
    BY DEF Within
  <2> QED BY <1>1, <2>1
<1>3. /\ rest \subseteq {i} \X Nat /\ <<i, 0>> \notin rest
      /\ \A k \in Nat : <<i, k>> \in rest <=> k \in o..Len(line[i].letters)
  BY <1>2, RestIs
<1> HIDE DEF rest
<1>a. /\ more \subseteq {i, i + 1} \X Nat /\ <<i, 0>> \notin more /\ <<i + 1, 0>> \in more
      /\ \A k \in Nat : <<i, k>> \in more <=> k \in o..Len(line[i].letters)
  BY <1>2, <1>3
<1> HIDE DEF more
<1>4. SameBelow(D, E, i) /\ Placed(line, i + 2, 0, E)
  BY <1>1, <1>2, <1>a, DropsTwo
<1>5. /\ <<i, 0>> \notin E /\ <<i + 1, 0>> \in E
      /\ \A k \in Nat : <<i, k>> \in E <=> (<<i, k>> \in D \/ k \in o..Len(line[i].letters))
  BY <1>1, <1>a
<1> HIDE DEF E
<1>6. Agrees(At(line, E)[i], "options", taken) /\ HasOwner(line, E, i) /\ Excused(line, E, i)
  BY <1>4, <1>5, OwnerGone
<1>7. HasOwner(line, E, i + 1) /\ Excused(line, E, i + 1)
  BY <1>5 DEF HasOwner, Excused
<1>8. At(line, E)[i + 1] = At(line, E)[i]
  <2>1. Piece(line, E, i + 1) = <<>> /\ (i + 1) - 1 = i
    BY <1>2, <1>5, PieceGone
  <2>2. At(line, E)[i + 1] = At(line, E)[(i + 1) - 1]
    BY <2>1, AtNothing
  <2> QED BY <2>1, <2>2
<1>9. Agrees(At(line, E)[i + 1], "options", taken)
  BY <1>6, <1>8
<1>10. Between(line, i + 2, "options", taken, E)
  BY <1>1, <1>4, <1>6, <1>7, <1>9, MovesTwo
<1> QED BY <1>10 DEF E, more, rest

-----------------------------------------------------------------------------
(* An option of a cluster that stays                                       *)

Attached(line, i, o) == SubSeq(line[i].letters, o + 1, Len(line[i].letters))

OwnerRead(line, i, o, taken, drop, name) ==
  /\ Piece(line, drop, i) # <<>>
  /\ Attached(line, i, o) \in Seq(STRING)
  /\ (o < Len(line[i].letters) =>
        At(line, drop)[i] = Reader("options", None, Append(taken, <<name, Attached(line, i, o)>>)))
  /\ (o = Len(line[i].letters) => At(line, drop)[i] = Reader("options", name, taken))

LEMMA OwnerReads ==
  ASSUME NEW line \in Seq(Line!Argument), NEW i, NEW o, NEW taken, NEW D, Within(line, i, o, taken, D),
         o <= Len(line[i].letters), NEW name, name = Line!ByShort(line[i].letters[o]), name \in OwnerNames
  PROVE  OwnerRead(line, i, o, taken, D, name)
<1> DEFINE acc == At(line, D)[i - 1]
           arg == line[i]
           w == arg.letters
           dropped == Dropped(D, i)
           front == LeftBefore(arg, o, dropped)
           letter == w[o]
           post == Attached(line, i, o)
           b == Reader("options", None, Taken(acc))
           whole == Remains(w, dropped)
           c == Line!Cluster(whole)
<1>1. InCluster(acc, arg, o, taken, dropped) /\ o \in 1..(Len(w) + 1)
  BY DEF Within
<1>2. /\ i \in 1..Len(line) /\ arg \in Line!Argument /\ arg.kind = "cluster" /\ w \in Seq(STRING)
      /\ o - 1 \in 0..Len(w) /\ <<i, 0>> \notin D
      /\ front \in Seq(STRING) /\ \A k \in dropped : k \in 1..(o - 1)
  BY WithinIs
<1>3. o \in 1..Len(w) /\ o \in 0..Len(w) /\ o \notin dropped /\ \A k \in 1..Len(w) : k > o => k \notin dropped
  <2>1. o \in 1..Len(w)
    BY <1>1, <1>2
  <2> HIDE DEF dropped
  <2> QED BY <1>2, <2>1
<1>4. letter \in STRING /\ Line!ByShort(letter) = name
  BY <1>2, <1>3
<1>5. post \in Seq(STRING) /\ (o < Len(w) => post # <<>>) /\ (o = Len(w) => post = <<>>)
  <2>1. post = SubSeq(w, o + 1, Len(w))
    BY DEF Attached
  <2>2. w \in Seq(STRING) /\ o \in 1..Len(w)
    BY <1>2, <1>3
  <2> HIDE DEF w, post
  <2>3. post \in Seq(STRING) /\ Len(post) = Len(w) - o
    BY <2>1, <2>2
  <2>4. Len(w) \in Nat /\ o \in Nat
    BY <2>2
  <2>5. o < Len(w) => Len(post) # 0
    BY <2>3, <2>4
  <2>6. o = Len(w) => Len(post) = 0
    BY <2>3, <2>4
  <2> QED BY <2>3, <2>5, <2>6
<1>6. whole = (front \o <<letter>>) \o post
  <2>1. w \in Seq(STRING) /\ o \in 0..Len(w) /\ o \in 1..Len(w) /\ o \notin dropped
        /\ \A k \in 1..Len(w) : k > o => k \notin dropped
    BY <1>2, <1>3
  <2>2. front = Left(w, dropped)[o - 1] /\ whole = Left(w, dropped)[Len(w)]
        /\ letter = w[o] /\ post = SubSeq(w, o + 1, Len(w))
    BY DEF LeftBefore, Remains, Attached
  <2> HIDE DEF w, dropped, front, letter, post, whole
  <2> DEFINE p == Left(w, dropped)
  <2>3. Leaves(p, w, dropped)
    BY <2>1, LeftIs
  <2>4. p[Len(w)] = p[o] \o SubSeq(w, o + 1, Len(w))
    BY <2>1, LeftKept
  <2> HIDE DEF p
  <2>5. p[o] = Append(p[o - 1], w[o])
    BY <2>1, <2>3 DEF Leaves
  <2>6. front \o <<letter>> = Append(front, letter)
    BY <1>2, <1>4, LettersGrow DEF w, dropped, front, letter
  <2> QED BY <2>2, <2>4, <2>5, <2>6 DEF p
<1>7. Joins(STRING, whole, front, letter, post)
  <2> HIDE DEF front, letter, post, whole
  <2> QED BY <1>2, <1>4, <1>5, <1>6, JoinedIs
<1>8. whole \in Seq(STRING) /\ whole # <<>>
  <2>1. whole \in Seq(STRING) /\ Len(whole) = (Len(front) + 1) + Len(post)
    BY <1>7 DEF Joins
  <2>2. Len(front) \in Nat /\ Len(post) \in Nat
    BY <1>2, <1>5
  <2> HIDE DEF whole, front, post
  <2>3. Len(whole) # 0
    BY <2>1, <2>2
  <2> QED BY <2>1, <2>3
<1>9. Piece(line, D, i) = <<c>>
  <2>1. Piece(line, D, i) = ClusterOf(whole)
    BY <1>2, PieceCluster
  <2> QED BY <1>8, <2>1 DEF ClusterOf
<1>10. c \in Line!Argument /\ c.kind = "cluster" /\ c.letters = whole
  <2> HIDE DEF whole
  <2> QED BY <1>8, ClusterIs
<1> HIDE DEF c
<1>11. At(line, D)[i] = Line!GetoptsStep(acc, c)
  BY <1>2, <1>9, <1>10, AtOne
<1>12. /\ AreFlags(front) /\ taken = Taken(acc) \o FlagsOf(front) /\ Agrees(acc, "options", Taken(acc))
  BY <1>1 DEF InCluster
<1> HIDE DEF acc, front, letter, post, whole, w, arg, dropped
<1>13. /\ b \in Readers /\ b.at = "options" /\ b.pending = None /\ b.taken = Taken(acc)
       /\ Line!GetoptsStep(acc, c) = Line!TakeCluster(b, c.letters)
  BY <1>10, <1>12, StepsFrom
<1> HIDE DEF b
<1>14. name \notin Line!Flags /\ name # None
  BY NamesApart DEF OwnerNames
<1>15. Line!TakeCluster(b, whole) =
           IF Line!ByShort(letter) = None THEN Line!Failed
           ELSE IF post # <<>>
             THEN Reader(b.at, b.pending,
                         Append(b.taken \o FlagsOf(front), <<Line!ByShort(letter), post>>))
             ELSE Reader(b.at, Line!ByShort(letter), b.taken \o FlagsOf(front))
  <2>1. b \in Readers /\ front \in Seq(STRING) /\ AreFlags(front)
    BY <1>2, <1>12, <1>13
  <2>2. letter \in STRING /\ Line!ByShort(letter) \notin Line!Flags /\ post \in Seq(STRING)
    BY <1>4, <1>5, <1>14
  <2> QED BY <1>6, <2>1, <2>2, ClusterOwner
<1>16. At(line, D)[i] = IF post # <<>> THEN Reader("options", None, Append(taken, <<name, post>>))
                        ELSE Reader("options", name, taken)
  BY <1>4, <1>10, <1>11, <1>12, <1>13, <1>14, <1>15
<1>17. <<c>> # <<>>
  OBVIOUS
<1>18. (o < Len(line[i].letters) => post # <<>>) /\ (o = Len(line[i].letters) => post = <<>>)
  BY <1>5 DEF w, arg
<1> QED BY <1>5, <1>9, <1>16, <1>17, <1>18 DEF OwnerRead, post

Stays(taken, name) == name \in Line!Repeatable \/ ~Repeats(taken, name)

LEMMA KeptPlaces ==
  ASSUME NEW line \in Seq(Line!Argument), NEW i, NEW o, NEW taken, NEW D, Within(line, i, o, taken, D)
  PROVE  /\ i \in 1..Len(line) /\ Behind(line, i, D) /\ SameBelow(D, D, i)
         /\ Placed(line, i + 1, 0, D)
         /\ i + 1 \in 1..Len(line) => Placed(line, i + 2, 0, D)
<1>1. /\ i \in 1..Len(line) /\ line[i].letters \in Seq(STRING) /\ o - 1 \in 0..Len(line[i].letters)
      /\ Placed(line, i, o, D) /\ Behind(line, i, D)
  BY WithinIs
<1>2. o \in Nat
  <2>1. o \in 1..(Len(line[i].letters) + 1)
    BY DEF Within
  <2> QED BY <1>1, <2>1
<1>3. {} \subseteq {i} \X Nat /\ {} \subseteq {i, i + 1} \X Nat /\ D \cup {} = D
  OBVIOUS
<1>4. SameBelow(D, D \cup {}, i) /\ Placed(line, i + 1, 0, D \cup {})
  BY <1>1, <1>2, <1>3, DropsOne
<1>5. i + 1 \in 1..Len(line) => Placed(line, i + 2, 0, D \cup {})
  BY <1>1, <1>2, <1>3, DropsTwo
<1> QED BY <1>1, <1>3, <1>4, <1>5

LEMMA OwnerStaysAttached ==
  ASSUME NEW line \in Seq(Line!Argument), NEW i, NEW o, NEW taken, NEW D, Within(line, i, o, taken, D),
         o < Len(line[i].letters), NEW name, name = Line!ByShort(line[i].letters[o]),
         name \in OwnerNames, Stays(taken, name)
  PROVE  Between(line, i + 1, "options", Append(taken, <<name, Attached(line, i, o)>>), D)
<1> DEFINE pair == <<name, Attached(line, i, o)>>
<1>0. o <= Len(line[i].letters)
  <2>1. line[i].letters \in Seq(STRING) /\ o \in 1..(Len(line[i].letters) + 1)
    BY WithinIs DEF Within
  <2> QED BY <2>1
<1>1. /\ Attached(line, i, o) \in Seq(STRING)
      /\ At(line, D)[i] = Reader("options", None, Append(taken, pair))
  <2>1. OwnerRead(line, i, o, taken, D, name)
    BY <1>0, OwnerReads
  <2> QED BY <2>1 DEF OwnerRead
<1>2. pair \in Pair /\ pair[1] = name
  BY <1>1, NamesApart DEF Pair
<1>3. taken \in Seq(Pair) /\ Once(taken)
  BY DEF Within, InCluster
<1> HIDE DEF pair
<1>4. Agrees(Reader("options", None, Append(taken, pair)), "options", Append(taken, pair))
  BY <1>2, <1>3, TakenAgrees DEF Stays
<1> DEFINE more == Append(taken, pair)
<1> HIDE DEF more
<1>5. Agrees(At(line, D)[i], "options", more)
  BY <1>1, <1>4 DEF more
<1>6. Between(line, i + 1, "options", more, D)
  BY <1>5, KeptPlaces, ClusterExcused, MovesOne
<1> QED BY <1>6 DEF more, pair

LEMMA OwnerStaysAlone ==
  ASSUME NEW line \in Seq(Line!Argument), NEW i, NEW o, NEW taken, NEW D, Within(line, i, o, taken, D),
         o = Len(line[i].letters), NEW name, name = Line!ByShort(line[i].letters[o]),
         name \in Line!Optional, Stays(taken, name)
  PROVE  Between(line, i + 1, "options", Append(taken, <<name, None>>), D)
<1> DEFINE pair == <<name, None>>
           more == Append(taken, pair)
           r == Reader("options", name, taken)
<1>0. o <= Len(line[i].letters)
  <2>1. line[i].letters \in Seq(STRING)
    BY WithinIs
  <2> QED BY <2>1
<1>1. At(line, D)[i] = r
  <2>1. name \in OwnerNames
    BY DEF OwnerNames
  <2>2. OwnerRead(line, i, o, taken, D, name)
    BY <1>0, <2>1, OwnerReads
  <2> QED BY <2>2 DEF OwnerRead
<1>2. pair \in Pair /\ pair[1] = name /\ name # None
  BY NamesApart DEF Pair, OwnerNames
<1>3. taken \in Seq(Pair) /\ Once(taken)
  BY DEF Within, InCluster
<1>4. Taken(r) = more
  <2>1. r.pending = name /\ r.taken = taken
    BY ReaderFields
  <2> HIDE DEF r
  <2> QED BY <1>2, <2>1 DEF Taken
<1> HIDE DEF pair
<1>5. more \in Seq(Pair) /\ Once(more)
  BY <1>2, <1>3, AppendOnce DEF Stays
<1> HIDE DEF more
<1>6. Agrees(r, "options", more)
  BY <1>3, <1>4, <1>5, AgreesWith
<1> HIDE DEF r
<1>7. Agrees(At(line, D)[i], "options", more)
  BY <1>1, <1>6
<1>8. Between(line, i + 1, "options", more, D)
  BY <1>7, KeptPlaces, ClusterExcused, MovesOne
<1> QED BY <1>8 DEF more, pair

LEMMA OwnerStaysWithNext ==
  ASSUME NEW line \in Seq(Line!Argument), NEW i, NEW o, NEW taken, NEW D, Within(line, i, o, taken, D),
         o = Len(line[i].letters), NEW name, name = Line!ByShort(line[i].letters[o]),
         name \in OwnerNames, Stays(taken, name),
         i + 1 \in 1..Len(line), line[i + 1].kind = "word"
  PROVE  Between(line, i + 2, "options", Append(taken, <<name, line[i + 1].word>>), D)
<1> DEFINE value == line[i + 1].word
           pair == <<name, value>>
           more == Append(taken, pair)
<1>0. o <= Len(line[i].letters) /\ line[i + 1] \in Line!Argument /\ <<i + 1, 0>> \notin D
  <2>1. line[i].letters \in Seq(STRING) /\ \A k \in Nat : <<i + 1, k>> \notin D
    BY WithinIs
  <2> QED BY <2>1, LineHas
<1>1. At(line, D)[i] = Reader("options", name, taken) /\ Piece(line, D, i) # <<>>
  <2>1. OwnerRead(line, i, o, taken, D, name)
    BY <1>0, OwnerReads
  <2> QED BY <2>1 DEF OwnerRead
<1>3. taken \in Seq(Pair) /\ Once(taken)
  BY DEF Within, InCluster
<1>4. /\ pair \in Pair
      /\ Line!GetoptsStep(Reader("options", name, taken), line[i + 1]) = Reader("options", None, more)
  BY <1>0, <1>3, WordTaken
<1>5. pair[1] = name
  OBVIOUS
<1>6. At(line, D)[i + 1] = Reader("options", None, more)
  <2>1. i \in Nat
    BY KeptPlaces
  <2>2. Piece(line, D, i + 1) = <<line[i + 1]>> /\ (i + 1) - 1 = i
    BY <1>0, <2>1, PieceKept
  <2>3. At(line, D)[i + 1] = Line!GetoptsStep(At(line, D)[(i + 1) - 1], line[i + 1])
    BY <1>0, <2>2, AtOne
  <2> QED BY <1>1, <1>4, <2>2, <2>3
<1> HIDE DEF pair
<1>7. Agrees(Reader("options", None, more), "options", more)
  BY <1>3, <1>4, <1>5, TakenAgrees DEF Stays
<1> HIDE DEF more
<1>8. Agrees(At(line, D)[i + 1], "options", more)
  BY <1>6, <1>7
<1>9. HasOwner(line, D, i + 1) /\ Excused(line, D, i + 1)
  <2>1. i \in Nat /\ i >= 1 /\ (i + 1) - 1 = i
    BY KeptPlaces
  <2> QED BY <1>1, <2>1 DEF HasOwner, Excused
<1>10. Between(line, i + 2, "options", more, D)
  BY <1>8, <1>9, KeptPlaces, ClusterExcused, MovesTwo
<1> QED BY <1>10 DEF more, pair

-----------------------------------------------------------------------------
(* The recovery, step by step                                              *)

(* Where getopts is while the recovery is between two arguments. *)
Place == IF ended THEN "ended" ELSE "options"

(* Between two arguments, or at a letter of a cluster. *)
LineAt(line, i, o, place, taken, drop) ==
  IF o = 0 THEN Between(line, i, place, taken, drop)
  ELSE place = "options" /\ Within(line, i, o, taken, drop)

(* The inductive invariant: what is left so far brings getopts to where     *)
(* the recovery is, with what it has kept; and it ends at the end.         *)
LineInv ==
  /\ args \in Seq(Line!Argument)
  /\ LineAt(args, index, offset, Place, recovered, ignored)
  /\ (action # None => offset = 0 /\ index > Len(args))

LEMMA LineStarts ==
  ASSUME NEW line \in Seq(Line!Argument), Line!Start(line)
  PROVE  LineInv
<1> DEFINE none == <<>>
<1>1. At(line, {})[0] = Reader("options", None, none)
  BY AtStarts, StartsToRead
<1>2. none \in Seq(Pair) /\ Once(none)
  <2>1. none \in Seq(Pair) /\ DOMAIN none = {}
    <3> HIDE DEF Pair
    <3> QED OBVIOUS
  <2> HIDE DEF none
  <2> QED BY <2>1 DEF Once
<1>3. args = line /\ index = 1 /\ offset = 0 /\ ended = FALSE /\ recovered = none /\ ignored = {}
      /\ action = None
  BY DEF Line!Start
<1> HIDE DEF none
<1>4. Agrees(At(line, {})[1 - 1], "options", none)
  <2>1. Agrees(Reader("options", None, none), "options", none)
    BY <1>2, AgreesPlainly
  <2>2. 1 - 1 = 0
    OBVIOUS
  <2> QED BY <1>1, <2>1, <2>2
<1>5. Placed(line, 1, 0, {}) /\ Behind(line, 1, {})
  BY DEF Placed, Behind
<1>6. 1 \in 1..(Len(line) + 1)
  OBVIOUS
<1>7. Between(line, 1, "options", none, {})
  BY <1>4, <1>5, <1>6 DEF Between
<1> QED BY <1>3, <1>7 DEF LineInv, LineAt, Place

LEMMA RetainIs ==
  ASSUME NEW name, NEW value, NEW positions, Line!Retain(name, value, positions)
  PROVE  \/ /\ name \notin Line!Repeatable /\ Repeats(recovered, name)
            /\ recovered' = recovered /\ ignored' = ignored \cup positions
         \/ /\ Stays(recovered, name)
            /\ recovered' = Append(recovered, <<name, value>>) /\ ignored' = ignored
BY DEF Line!Retain, Line!Ignore, Repeats, Stays

LEMMA FollowingIs ==
  ASSUME args \in Seq(Line!Argument), index \in 1..Len(args)
  PROVE  /\ Line!Following = "word" =>
              index + 1 \in 1..Len(args) /\ args[index + 1].kind = "word"
         /\ Line!Following = "garbage" =>
              index + 1 \in 1..Len(args) /\ args[index + 1].kind = "garbage" /\ NextIs(args, index, "garbage")
         /\ Line!Following \notin {"word", "garbage"} => ~NextIs(args, index, "word")
<1>1. Len(args) \in Nat /\ index \in Nat /\ index >= 1
  OBVIOUS
<1>2. index < Len(args) <=> index + 1 \in 1..Len(args)
  BY <1>1
<1> QED BY <1>2 DEF Line!Following, NextIs

LEMMA Advanced ==
  ASSUME LineInv, NEW n, Line!Advance(n), action = None,
         Between(args, index + n, Place, recovered', ignored')
  PROVE  LineInv'
<1>1. args' = args /\ index' = index + n /\ offset' = 0 /\ ended' = ended /\ action' = None
  BY DEF Line!Advance
<1>2. Place' = Place
  BY <1>1 DEF Place
<1>3. LineAt(args, index + n, 0, Place, recovered', ignored')
  BY DEF LineAt
<1>4. args \in Seq(Line!Argument)
  BY DEF LineInv
<1> QED BY <1>1, <1>2, <1>3, <1>4 DEF LineInv

LEMMA AtArgumentIs ==
  ASSUME LineInv, Line!AtArgument
  PROVE  /\ args \in Seq(Line!Argument) /\ index \in 1..Len(args) /\ args[index] \in Line!Argument
         /\ action = None /\ offset = 0
         /\ Between(args, index, Place, recovered, ignored)
         /\ Agrees(At(args, ignored)[index - 1], Place, recovered)
<1>1. args \in Seq(Line!Argument) /\ action = None /\ offset = 0 /\ index <= Len(args)
      /\ Between(args, index, Place, recovered, ignored)
  BY DEF LineInv, LineAt, Line!AtArgument
<1>2. index \in 1..Len(args)
  <2>1. index \in 1..(Len(args) + 1)
    BY <1>1 DEF Between
  <2> QED BY <1>1, <2>1
<1>3. args[index] \in Line!Argument
  BY <1>1, <1>2, LineHas
<1> QED BY <1>1, <1>2, <1>3 DEF Between

LEMMA StepIgnoreArgument ==
  ASSUME LineInv, Line!IgnoreArgument
  PROVE  LineInv'
<1>1. Line!AtArgument /\ Line!Advance(1) /\ recovered' = recovered
      /\ ignored' = ignored \cup {<<index, 0>>}
      /\ (args[index].kind \in {"garbage", "word"} \/ ended)
  BY DEF Line!IgnoreArgument, Line!Ignore, Line!This, Line!Arg
<1>2. /\ args \in Seq(Line!Argument) /\ index \in 1..Len(args) /\ args[index] \in Line!Argument
      /\ action = None /\ Between(args, index, Place, recovered, ignored)
      /\ Agrees(At(args, ignored)[index - 1], Place, recovered)
  BY <1>1, AtArgumentIs
<1>3. args[index].kind \in {"long", "cluster"} => Reason(args, ignored, index)
  <2> SUFFICES ASSUME args[index].kind \in {"long", "cluster"} PROVE Reason(args, ignored, index)
    OBVIOUS
  <2>1. Place = "ended" /\ args[index].kind # "word"
    BY <1>1 DEF Place
  <2>2. Lost(Line!GetoptsStep(At(args, ignored)[index - 1], args[index]))
    BY <1>2, <2>1, EndedLost
  <2> QED BY <2>2 DEF Reason
<1>4. Between(args, index + 1, Place, recovered', ignored')
  BY <1>1, <1>2, <1>3, IgnoresOne
<1> QED BY <1>1, <1>2, <1>4, Advanced

LEMMA StepEndOptions ==
  ASSUME LineInv, Line!EndOptions
  PROVE  LineInv'
<1>1. /\ Line!AtArgument /\ args[index].kind = "end" /\ ~ended /\ ended' = TRUE /\ index' = index + 1
      /\ args' = args /\ offset' = offset /\ recovered' = recovered /\ ignored' = ignored
      /\ action' = action
  BY DEF Line!EndOptions, Line!Arg
<1>2. /\ args \in Seq(Line!Argument) /\ index \in 1..Len(args) /\ args[index] \in Line!Argument
      /\ action = None /\ offset = 0 /\ Between(args, index, Place, recovered, ignored)
      /\ Agrees(At(args, ignored)[index - 1], Place, recovered)
  BY <1>1, AtArgumentIs
<1>3. Place = "options" /\ Place' = "ended"
  BY <1>1 DEF Place
<1>4. Agrees(Line!GetoptsStep(At(args, ignored)[index - 1], args[index]), "ended", recovered)
  BY <1>1, <1>2, <1>3, EndAgrees
<1>5. Between(args, index + 1, "ended", recovered, ignored)
  BY <1>1, <1>2, <1>4, KeepsOne
<1> QED BY <1>1, <1>2, <1>3, <1>5 DEF LineInv, LineAt

LEMMA StepLongOption ==
  ASSUME LineInv, Line!LongOption
  PROVE  LineInv'
<1> DEFINE arg == args[index]
           acc == At(args, ignored)[index - 1]
<1>1. Line!AtArgument /\ arg.kind = "long" /\ ~ended
  BY DEF Line!LongOption, Line!Arg
<1>2. /\ args \in Seq(Line!Argument) /\ index \in 1..Len(args) /\ arg \in Line!Argument
      /\ action = None /\ Between(args, index, Place, recovered, ignored)
      /\ Agrees(acc, Place, recovered)
  BY <1>1, AtArgumentIs
<1>3. Place = "options"
  BY <1>1 DEF Place
<1>r. recovered \in Seq(Pair) /\ Once(recovered)
  BY <1>2 DEF Agrees
<1>a. Lost(Line!GetoptsStep(acc, arg)) => Reason(args, ignored, index)
  BY DEF Reason
<1>4. CASE /\ (arg.name \notin Line!Known \/ (arg.name \in Line!Flags /\ arg.value # None))
           /\ Line!Ignore(Line!This) /\ Line!Advance(1)
  <2>1. Lost(Line!GetoptsStep(acc, arg))
    BY <1>1, <1>2, <1>3, <1>4, LongFails
  <2>2. recovered' = recovered /\ ignored' = ignored \cup {<<index, 0>>}
    BY <1>4 DEF Line!Ignore, Line!This
  <2>3. Between(args, index + 1, Place, recovered', ignored')
    BY <1>2, <1>a, <2>1, <2>2, IgnoresOne
  <2> QED BY <1>2, <1>4, <2>3, Advanced
<1>5. CASE Takes(arg) /\ Line!Retain(arg.name, arg.value, Line!This) /\ Line!Advance(1)
  <2> DEFINE pair == <<arg.name, arg.value>>
             r == Line!GetoptsStep(acc, arg)
  <2>1. pair \in Pair /\ r = Reader("options", None, Append(recovered, pair)) /\ pair[1] = arg.name
    BY <1>1, <1>2, <1>3, <1>5, LongTakes
  <2> HIDE DEF pair, r
  <2>2. CASE /\ arg.name \notin Line!Repeatable /\ Repeats(recovered, arg.name)
             /\ recovered' = recovered /\ ignored' = ignored \cup Line!This
    <3>1. Lost(r)
      BY <1>r, <2>1, <2>2, TakenLost
    <3>2. ignored' = ignored \cup {<<index, 0>>}
      BY <2>2 DEF Line!This
    <3>3. Between(args, index + 1, Place, recovered', ignored')
      BY <1>2, <1>a, <2>2, <3>1, <3>2, IgnoresOne DEF r
    <3> QED BY <1>2, <1>5, <3>3, Advanced
  <2>3. CASE /\ Stays(recovered, arg.name)
             /\ recovered' = Append(recovered, pair) /\ ignored' = ignored
    <3>1. Agrees(r, "options", Append(recovered, pair))
      BY <1>r, <2>1, <2>3, TakenAgrees DEF Stays
    <3>2. Agrees(r, Place, recovered')
      BY <1>3, <2>3, <3>1
    <3>3. Between(args, index + 1, Place, recovered', ignored')
      BY <1>1, <1>2, <2>3, <3>2, KeepsOne DEF r
    <3> QED BY <1>2, <1>5, <3>3, Advanced
  <2> QED BY <1>5, <2>2, <2>3, RetainIs DEF pair
<1>6. CASE arg.name \in Line!Valued /\ arg.value = None /\ Line!SeparateValue(arg.name, Line!This)
  <2> DEFINE r == Line!GetoptsStep(acc, arg)
  <2>1. r = Reader("options", arg.name, recovered)
    BY <1>1, <1>2, <1>3, <1>6, LongWaits
  <2>2. r.pending = arg.name
    BY <2>1, ReaderFields
  <2>3. arg.name \in OwnerNames /\ arg.name \in Line!Known
    BY <1>6, NamesApart DEF OwnerNames
  <2> HIDE DEF r
  <2>4. CASE /\ Line!Following = "word" /\ Line!Advance(2)
             /\ Line!Retain(arg.name, args[index + 1].word, Line!This \cup {<<index + 1, 0>>})
    <3> DEFINE word == args[index + 1].word
               pair == <<arg.name, word>>
    <3>1. index + 1 \in 1..Len(args) /\ args[index + 1].kind = "word"
      BY <1>2, <2>4, FollowingIs
    <3>a. args[index + 1] \in Line!Argument
      BY <1>2, <3>1, LineHas
    <3>2. /\ pair \in Pair
          /\ Line!GetoptsStep(r, args[index + 1]) = Reader("options", None, Append(recovered, pair))
      BY <1>r, <2>1, <2>3, <3>1, <3>a, WordTaken
    <3>b. pair[1] = arg.name
      OBVIOUS
    <3> HIDE DEF pair
    <3>3. CASE /\ arg.name \notin Line!Repeatable /\ Repeats(recovered, arg.name)
               /\ recovered' = recovered /\ ignored' = ignored \cup (Line!This \cup {<<index + 1, 0>>})
      <4>1. Lost(r)
        BY <1>r, <2>1, <2>3, <3>3, WaitingLost
      <4>2. ignored' = ignored \cup {<<index, 0>>, <<index + 1, 0>>}
        BY <3>3 DEF Line!This
      <4>3. Reason(args, ignored, index)
        BY <1>a, <4>1 DEF r
      <4>4. Between(args, index + 2, Place, recovered', ignored')
        BY <1>2, <3>1, <3>3, <4>2, <4>3, IgnoresTwo
      <4> QED BY <1>2, <2>4, <4>4, Advanced
    <3>4. CASE /\ Stays(recovered, arg.name)
               /\ recovered' = Append(recovered, pair) /\ ignored' = ignored
      <4>1. Agrees(Reader("options", None, Append(recovered, pair)), "options", Append(recovered, pair))
        BY <1>r, <3>2, <3>4, <3>b, TakenAgrees DEF Stays
      <4>2. Agrees(Line!GetoptsStep(r, args[index + 1]), Place, recovered')
        BY <1>3, <3>2, <3>4, <4>1
      <4>3. Between(args, index + 2, Place, recovered', ignored')
        BY <1>1, <1>2, <3>1, <3>4, <4>2, KeepsTwo DEF r
      <4> QED BY <1>2, <2>4, <4>3, Advanced
    <3> QED BY <2>4, <3>3, <3>4, RetainIs DEF pair
  <2>5. CASE /\ Line!Following = "garbage" /\ Line!Ignore(Line!This \cup {<<index + 1, 0>>})
             /\ Line!Advance(2)
    <3>1. index + 1 \in 1..Len(args) /\ args[index + 1].kind = "garbage" /\ NextIs(args, index, "garbage")
      BY <1>2, <2>5, FollowingIs
    <3>2. recovered' = recovered /\ ignored' = ignored \cup {<<index, 0>>, <<index + 1, 0>>}
      BY <2>5 DEF Line!This, Line!Ignore
    <3>3. Reason(args, ignored, index)
      BY <3>1 DEF Reason
    <3>4. Between(args, index + 2, Place, recovered', ignored')
      BY <1>2, <3>1, <3>2, <3>3, IgnoresTwo
    <3> QED BY <1>2, <2>5, <3>4, Advanced
  <2>6. CASE /\ Line!Following \notin {"word", "garbage"} /\ Line!Ignore(Line!This) /\ Line!Advance(1)
    <3>1. ~NextIs(args, index, "word")
      BY <1>2, <2>6, FollowingIs
    <3>2. recovered' = recovered /\ ignored' = ignored \cup {<<index, 0>>}
      BY <2>6 DEF Line!This, Line!Ignore
    <3>3. Reason(args, ignored, index)
      BY <1>6, <2>2, <3>1 DEF Reason, r
    <3>4. Between(args, index + 1, Place, recovered', ignored')
      BY <1>2, <3>2, <3>3, IgnoresOne
    <3> QED BY <1>2, <2>6, <3>4, Advanced
  <2> QED BY <1>6, <2>4, <2>5, <2>6 DEF Line!SeparateValue
<1> QED BY <1>4, <1>5, <1>6 DEF Line!LongOption, Line!Arg, Takes

LEMMA AtLetterIs ==
  ASSUME LineInv, Line!AtLetter
  PROVE  /\ args \in Seq(Line!Argument) /\ action = None /\ Place = "options"
         /\ Within(args, index, offset, recovered, ignored)
         /\ recovered \in Seq(Pair) /\ Once(recovered)
<1>1. args \in Seq(Line!Argument) /\ action = None /\ offset # 0 /\ Place = "options"
      /\ Within(args, index, offset, recovered, ignored)
  BY DEF LineInv, LineAt, Line!AtLetter
<1>2. recovered \in Seq(Pair) /\ Once(recovered)
  BY <1>1 DEF Within, InCluster
<1> QED BY <1>1, <1>2

LEMMA StepEnterCluster ==
  ASSUME LineInv, Line!EnterCluster
  PROVE  LineInv'
<1>1. /\ Line!AtArgument /\ args[index].kind = "cluster" /\ ~ended /\ offset' = 1
      /\ args' = args /\ index' = index /\ ended' = ended /\ recovered' = recovered
      /\ ignored' = ignored /\ action' = action
  BY DEF Line!EnterCluster, Line!Arg
<1>2. /\ args \in Seq(Line!Argument) /\ index \in 1..Len(args)
      /\ action = None /\ Between(args, index, Place, recovered, ignored)
  BY <1>1, AtArgumentIs
<1>3. Place = "options" /\ Place' = "options"
  BY <1>1 DEF Place
<1>4. Within(args, index, 1, recovered, ignored)
  BY <1>1, <1>2, <1>3, Enters
<1> QED BY <1>1, <1>2, <1>3, <1>4 DEF LineInv, LineAt

LEMMA StepLeaveCluster ==
  ASSUME LineInv, Line!LeaveCluster
  PROVE  LineInv'
<1>1. /\ Line!AtLetter /\ offset > Len(args[index].letters) /\ Line!Advance(1)
      /\ recovered' = recovered /\ ignored' = ignored
  BY DEF Line!LeaveCluster, Line!Arg
<1>2. /\ args \in Seq(Line!Argument) /\ action = None /\ Place = "options"
      /\ Within(args, index, offset, recovered, ignored)
  BY <1>1, AtLetterIs
<1>3. Between(args, index + 1, Place, recovered', ignored')
  BY <1>1, <1>2, ClusterEnds
<1> QED BY <1>1, <1>2, <1>3, Advanced

LEMMA WithinFollows ==
  ASSUME NEW line \in Seq(Line!Argument), NEW i, NEW o, NEW taken, NEW D, Within(line, i, o, taken, D),
         o <= Len(line[i].letters)
  PROVE  /\ i \in 1..Len(line) /\ o \in 1..Len(line[i].letters) /\ o + 1 # 0
         /\ (o < Len(line[i].letters) \/ o = Len(line[i].letters))
<1>1. i \in 1..Len(line) /\ line[i].letters \in Seq(STRING) /\ o \in 1..(Len(line[i].letters) + 1)
  BY WithinIs DEF Within
<1> QED BY <1>1

(* An option at the end of a cluster, with what stands behind it. *)
LEMMA LetterSeparate ==
  ASSUME LineInv, Line!AtLetter, offset = Len(args[index].letters),
         NEW name, name = Line!ByShort(args[index].letters[offset]), name \in OwnerNames,
         name \in Line!Valued \/ Line!Following \in {"word", "garbage"},
         NEW here, here = Rest(args, index, offset), Line!SeparateValue(name, here)
  PROVE  LineInv'
<1> DEFINE r == Line!GetoptsStep(At(args, ignored)[index - 1], args[index])
<1>1. /\ args \in Seq(Line!Argument) /\ action = None /\ Place = "options"
      /\ Within(args, index, offset, recovered, ignored)
  BY AtLetterIs
<1>b. offset <= Len(args[index].letters)
  <2>1. args[index].letters \in Seq(STRING)
    BY <1>1, WithinIs
  <2> QED BY <2>1
<1>2. index \in 1..Len(args)
  BY <1>1, <1>b, WithinFollows
<1>a. Lost(r) => Reason(args, ignored, index)
  BY DEF Reason
<1>4. CASE /\ Line!Following = "word" /\ Line!Advance(2)
           /\ Line!Retain(name, args[index + 1].word, here \cup {<<index + 1, 0>>})
  <2>1. index + 1 \in 1..Len(args) /\ args[index + 1].kind = "word"
    BY <1>1, <1>2, <1>4, FollowingIs
  <2>2. CASE /\ name \notin Line!Repeatable /\ Repeats(recovered, name)
             /\ recovered' = recovered /\ ignored' = ignored \cup (here \cup {<<index + 1, 0>>})
    <3>1. Lost(r)
      BY <1>1, <1>b, <2>2, LetterMistaken
    <3>2. Reason(args, ignored, index)
      BY <1>a, <3>1
    <3>3. Between(args, index + 2, Place, recovered', ignored')
      BY <1>1, <1>b, <2>1, <2>2, <3>2, OwnerGoesTwo
    <3> QED BY <1>1, <1>4, <3>3, Advanced
  <2>3. CASE /\ Stays(recovered, name)
             /\ recovered' = Append(recovered, <<name, args[index + 1].word>>) /\ ignored' = ignored
    <3>1. Between(args, index + 2, "options", Append(recovered, <<name, args[index + 1].word>>), ignored)
      BY <1>1, <2>1, <2>3, OwnerStaysWithNext
    <3>2. Between(args, index + 2, Place, recovered', ignored')
      BY <1>1, <2>3, <3>1
    <3> QED BY <1>1, <1>4, <3>2, Advanced
  <2> QED BY <1>4, <2>2, <2>3, RetainIs
<1>5. CASE /\ Line!Following = "garbage" /\ Line!Ignore(here \cup {<<index + 1, 0>>})
           /\ Line!Advance(2)
  <2>1. index + 1 \in 1..Len(args) /\ args[index + 1].kind = "garbage" /\ NextIs(args, index, "garbage")
    BY <1>1, <1>2, <1>5, FollowingIs
  <2>2. recovered' = recovered /\ ignored' = ignored \cup (here \cup {<<index + 1, 0>>})
    BY <1>5 DEF Line!Ignore
  <2>3. Reason(args, ignored, index)
    BY <2>1 DEF Reason
  <2>4. Between(args, index + 2, Place, recovered', ignored')
    BY <1>1, <1>b, <2>1, <2>2, <2>3, OwnerGoesTwo
  <2> QED BY <1>1, <1>5, <2>4, Advanced
<1>6. CASE /\ Line!Following \notin {"word", "garbage"} /\ Line!Ignore(here) /\ Line!Advance(1)
  <2>1. ~NextIs(args, index, "word")
    BY <1>1, <1>2, <1>6, FollowingIs
  <2>2. recovered' = recovered /\ ignored' = ignored \cup here
    BY <1>6 DEF Line!Ignore
  <2>3. Lost(r) \/ r.pending \in Line!Valued
    BY <1>1, <1>6, LetterAwaits
  <2>4. Reason(args, ignored, index)
    BY <1>a, <2>1, <2>3 DEF Reason
  <2>5. Between(args, index + 1, Place, recovered', ignored')
    BY <1>1, <1>b, <2>2, <2>4, OwnerGoes
  <2> QED BY <1>1, <1>6, <2>5, Advanced
<1> QED BY <1>4, <1>5, <1>6 DEF Line!SeparateValue

LEMMA StepClusterLetter ==
  ASSUME LineInv, Line!ClusterLetter
  PROVE  LineInv'
<1> DEFINE letters == args[index].letters
           name == Line!ByShort(letters[offset])
           here == Rest(args, index, offset)
           r == Line!GetoptsStep(At(args, ignored)[index - 1], args[index])
<1>1. Line!AtLetter /\ offset <= Len(letters)
  BY DEF Line!ClusterLetter, Line!Arg
<1>2. /\ args \in Seq(Line!Argument) /\ action = None /\ Place = "options"
      /\ Within(args, index, offset, recovered, ignored)
      /\ recovered \in Seq(Pair) /\ Once(recovered)
  BY <1>1, AtLetterIs
<1>3. offset + 1 # 0
  BY <1>1, <1>2, WithinFollows
<1>a. Lost(r) => Reason(args, ignored, index)
  BY DEF Reason
<1>m. name = None \/ (name \notin Line!Repeatable /\ Repeats(recovered, name)) => Lost(r)
  BY <1>1, <1>2, LetterMistaken
<1>4. CASE /\ name = None \/ name \in Line!Flags
           /\ (IF name = None THEN Line!Ignore({<<index, offset>>})
               ELSE Line!Retain(name, None, {<<index, offset>>}))
           /\ offset' = offset + 1
           /\ UNCHANGED <<args, index, ended, action>>
  <2>0. /\ args' = args /\ index' = index /\ action' = None /\ Place' = "options"
        /\ offset' = offset + 1
    BY <1>2, <1>4 DEF Place
  <2>1. ASSUME Within(args, index, offset + 1, recovered', ignored') PROVE LineInv'
    BY <1>2, <1>3, <2>0, <2>1 DEF LineInv, LineAt
  <2>2. CASE name = None
    <3>1. recovered' = recovered /\ ignored' = ignored \cup {<<index, offset>>}
      BY <1>4, <2>2 DEF Line!Ignore
    <3>2. Within(args, index, offset + 1, recovered', ignored')
      BY <1>1, <1>2, <1>m, <2>2, <3>1, LetterGoes
    <3> QED BY <2>1, <3>2
  <2>3. CASE name # None
    <3>0. name \in Line!Flags /\ Line!Retain(name, None, {<<index, offset>>})
      BY <1>4, <2>3
    <3> HIDE DEF name
    <3>1. CASE /\ name \notin Line!Repeatable /\ Repeats(recovered, name)
               /\ recovered' = recovered /\ ignored' = ignored \cup {<<index, offset>>}
      <4>1. Lost(r)
        BY <1>m, <3>1
      <4>2. Within(args, index, offset + 1, recovered', ignored')
        BY <1>1, <1>2, <3>1, <4>1, LetterGoes
      <4> QED BY <2>1, <4>2
    <3>2. CASE /\ Stays(recovered, name)
               /\ recovered' = Append(recovered, <<name, None>>) /\ ignored' = ignored
      <4>1. ~Repeats(recovered, name)
        BY <3>0, <3>2, NamesApart DEF Stays
      <4>2. Within(args, index, offset + 1, Append(recovered, <<name, None>>), ignored)
        BY <1>1, <1>2, <3>0, <4>1, LetterStays DEF name
      <4>3. Within(args, index, offset + 1, recovered', ignored')
        BY <3>2, <4>2
      <4> QED BY <2>1, <4>3
    <3> QED BY <3>0, <3>1, <3>2, RetainIs
  <2> QED BY <2>2, <2>3
<1>g. ASSUME recovered' = recovered, ignored' = ignored \cup here, Line!Advance(1), Lost(r)
      PROVE  LineInv'
  <2>1. Between(args, index + 1, "options", recovered, ignored \cup here)
    BY <1>1, <1>2, <1>a, <1>g, OwnerGoes
  <2>2. Between(args, index + 1, Place, recovered', ignored')
    BY <1>2, <1>g, <2>1
  <2> QED BY <1>2, <1>g, <2>2, Advanced
<1>5. CASE /\ name \in Line!Valued \cup Line!Optional
           /\ offset < Len(letters)
           /\ Line!Retain(name, SubSeq(letters, offset + 1, Len(letters)), here)
           /\ Line!Advance(1)
  <2> DEFINE value == Attached(args, index, offset)
  <2>0. name \in OwnerNames /\ Line!Retain(name, value, here)
    BY <1>5 DEF OwnerNames, Attached
  <2>1. CASE /\ name \notin Line!Repeatable /\ Repeats(recovered, name)
             /\ recovered' = recovered /\ ignored' = ignored \cup here
    BY <1>5, <1>g, <1>m, <2>1
  <2>2. CASE /\ Stays(recovered, name)
             /\ recovered' = Append(recovered, <<name, value>>) /\ ignored' = ignored
    <3>1. Between(args, index + 1, "options", Append(recovered, <<name, value>>), ignored)
      BY <1>2, <1>5, <2>0, <2>2, OwnerStaysAttached
    <3>2. Between(args, index + 1, Place, recovered', ignored')
      BY <1>2, <2>2, <3>1
    <3> QED BY <1>2, <1>5, <3>2, Advanced
  <2> HIDE DEF name, here, value
  <2> QED BY <2>0, <2>1, <2>2, RetainIs
<1>6. CASE /\ name \in Line!Valued
           /\ offset = Len(letters)
           /\ Line!SeparateValue(name, here)
  <2>1. name \in OwnerNames
    BY <1>6 DEF OwnerNames
  <2> QED BY <1>1, <1>6, <2>1, LetterSeparate
<1>7. CASE /\ name \in Line!Optional
           /\ offset = Len(letters)
           /\ Line!Following \in {"word", "garbage"}
           /\ Line!SeparateValue(name, here)
  <2>1. name \in OwnerNames
    BY <1>7 DEF OwnerNames
  <2> QED BY <1>1, <1>7, <2>1, LetterSeparate
<1>8. CASE /\ name \in Line!Optional
           /\ offset = Len(letters)
           /\ Line!Retain(name, None, here) /\ Line!Advance(1)
  <2>1. CASE /\ name \notin Line!Repeatable /\ Repeats(recovered, name)
             /\ recovered' = recovered /\ ignored' = ignored \cup here
    BY <1>8, <1>g, <1>m, <2>1
  <2>2. CASE /\ Stays(recovered, name)
             /\ recovered' = Append(recovered, <<name, None>>) /\ ignored' = ignored
    <3>1. Between(args, index + 1, "options", Append(recovered, <<name, None>>), ignored)
      BY <1>2, <1>8, <2>2, OwnerStaysAlone
    <3>2. Between(args, index + 1, Place, recovered', ignored')
      BY <1>2, <2>2, <3>1
    <3> QED BY <1>2, <1>8, <3>2, Advanced
  <2>3. Line!Retain(name, None, here)
    BY <1>8
  <2> HIDE DEF name, here
  <2> QED BY <2>1, <2>2, <2>3, RetainIs
<1> QED BY <1>4, <1>5, <1>6, <1>7, <1>8 DEF Line!ClusterLetter, Line!Arg, Rest

LEMMA StepDecide ==
  ASSUME LineInv, Line!Decide
  PROVE  LineInv'
<1>1. /\ offset = 0 /\ index > Len(args) /\ args' = args /\ index' = index /\ offset' = offset
      /\ ended' = ended /\ recovered' = recovered /\ ignored' = ignored
  BY DEF Line!Decide
<1>2. Place' = Place
  BY <1>1 DEF Place
<1> QED BY <1>1, <1>2 DEF LineInv

LEMMA StepLine ==
  ASSUME LineInv, Line!OptionsNext
  PROVE  LineInv'
BY StepIgnoreArgument, StepEndOptions, StepLongOption, StepEnterCluster, StepLeaveCluster,
   StepClusterLetter, StepDecide DEF Line!OptionsNext

-----------------------------------------------------------------------------
(* At the end of the line                                                  *)

(* What is no text is lost wherever it is read. *)
LEMMA GarbageFails ==
  ASSUME NEW acc \in Readers, NEW arg \in Line!Argument, arg.kind = "garbage"
  PROVE  Lost(Line!GetoptsStep(acc, arg))
<1>1. CASE acc.at = "failed"
  BY <1>1, StepFailed DEF Lost
<1>2. CASE acc.pending \in Line!Valued
  BY <1>2, StepWaiting, FailedIs DEF Lost
<1>3. CASE acc.at # "failed" /\ acc.pending \notin Line!Valued
  <2>1. Line!GetoptsStep(acc, arg) = Line!Failed
    BY <1>3, StepOther
  <2> QED BY <2>1, FailedIs DEF Lost
<1> QED BY <1>1, <1>2, <1>3

(* The positions left when the ones of an option are put back. *)
LEMMA PutBack ==
  ASSUME NEW D, NEW E, NEW p \in Nat, D \subseteq Nat \X Nat,
         E = D \ {q \in D : q[1] = p \/ (q[1] = p + 1 /\ args[p + 1].kind = "garbage")}
  PROVE  /\ \A m \in Nat : <<p, m>> \notin E
         /\ args[p + 1].kind = "garbage" => \A m \in Nat : <<p + 1, m>> \notin E
         /\ SameBelow(D, E, p)
         /\ args[p + 1].kind # "garbage" =>
              \A k, m \in Nat : k # p => (<<k, m>> \in D <=> <<k, m>> \in E)
<1>1. \A k, m \in Nat : <<k, m>> \in E <=>
        (<<k, m>> \in D /\ ~(k = p \/ (k = p + 1 /\ args[p + 1].kind = "garbage")))
  OBVIOUS
<1> QED BY <1>1 DEF SameBelow

(* An option that has a reason fails when it is put back. *)
LEMMA FailsBack ==
  ASSUME args \in Seq(Line!Argument), NEW D, Placed(args, Len(args) + 1, 0, D),
         Behind(args, Len(args) + 1, D), NEW p \in 1..Len(args), Reason(args, D, p),
         NEW E, E = D \ {q \in D : q[1] = p \/ (q[1] = p + 1 /\ args[p + 1].kind = "garbage")}
  PROVE  At(args, E)[Len(args)].pending \in Line!Valued \/ Lost(At(args, E)[Len(args)])
<1> DEFINE r == Line!GetoptsStep(At(args, D)[p - 1], args[p])
<1>0. p \in Nat /\ Len(args) \in Nat /\ args[p] \in Line!Argument
  BY LineHas
<1>1. D \subseteq Nat \X Nat
  BY DEF Placed
<1>2. /\ \A m \in Nat : <<p, m>> \notin E
      /\ args[p + 1].kind = "garbage" => \A m \in Nat : <<p + 1, m>> \notin E
      /\ SameBelow(D, E, p)
      /\ args[p + 1].kind # "garbage" =>
           \A k, m \in Nat : k # p => (<<k, m>> \in D <=> <<k, m>> \in E)
  BY <1>0, <1>1, PutBack
<1>3. At(args, E)[p] = r
  <2>1. Piece(args, E, p) = <<args[p]>>
    BY <1>2, PieceWhole
  <2>2. At(args, E)[p] = Line!GetoptsStep(At(args, E)[p - 1], args[p])
    BY <1>0, <2>1, AtOne
  <2>3. p - 1 \in 0..Len(args) /\ p - 1 < p /\ p \in 1..(Len(args) + 1)
    OBVIOUS
  <2>4. At(args, D)[p - 1] = At(args, E)[p - 1]
    BY <1>2, <2>3, BelowAgrees
  <2> QED BY <2>2, <2>4
<1>4. CASE NextIs(args, p, "garbage")
  <2>1. p + 1 \in 1..Len(args) /\ args[p + 1].kind = "garbage" /\ (p + 1) - 1 = p
    BY <1>4 DEF NextIs
  <2>2. args[p + 1] \in Line!Argument
    BY <2>1, LineHas
  <2>3. Piece(args, E, p + 1) = <<args[p + 1]>>
    BY <1>2, <2>1, PieceWhole
  <2>4. At(args, E)[p + 1] = Line!GetoptsStep(At(args, E)[(p + 1) - 1], args[p + 1])
    BY <2>1, <2>2, <2>3, AtOne
  <2>5. At(args, E)[(p + 1) - 1] \in Readers
    BY <2>1, AtIs
  <2>6. Lost(At(args, E)[p + 1])
    BY <2>1, <2>2, <2>4, <2>5, GarbageFails
  <2>7. p + 1 \in 0..Len(args)
    BY <2>1
  <2> QED BY <2>6, <2>7, LostToTheEnd
<1>5. CASE Lost(r)
  <2>1. p \in 0..Len(args) /\ Lost(At(args, E)[p])
    BY <1>3, <1>5
  <2> QED BY <2>1, LostToTheEnd
<1>6. CASE ~NextIs(args, p, "garbage") /\ r.pending \in Line!Valued /\ ~NextIs(args, p, "word")
  <2>1. At(args, E)[p].pending \in Line!Valued
    BY <1>3, <1>6
  <2>2. \A k \in 1..Len(args) : k = p + 1 => args[k].kind # "word"
    BY <1>6 DEF NextIs
  <2>3. ASSUME NEW k \in 1..Len(args), k > p + 1 PROVE HasOwner(args, E, k)
    <3>1. k < Len(args) + 1 /\ k # p /\ k \in Nat /\ k - 1 \in Nat /\ k - 1 # p
          /\ p + 1 \in 1..Len(args)
      BY <2>3
    <3>2. args[p + 1].kind # "garbage"
      BY <1>6, <3>1 DEF NextIs
    <3>3. \A j, m \in Nat : j # p => (<<j, m>> \in D <=> <<j, m>> \in E)
      BY <1>2, <3>2
    <3>4. HasOwner(args, D, k)
      BY <3>1 DEF Behind
    <3>5. \A m \in Nat : <<k - 1, m>> \in D <=> <<k - 1, m>> \in E
      BY <3>1, <3>3
    <3>6. Piece(args, D, k - 1) = Piece(args, E, k - 1)
      BY <3>5, PieceAgree
    <3>7. <<k, 0>> \in D <=> <<k, 0>> \in E
      BY <3>1, <3>3
    <3> QED BY <3>4, <3>6, <3>7 DEF HasOwner
  <2> QED BY <2>1, <2>2, <2>3, WaitsInVain
<1> QED BY <1>4, <1>5, <1>6 DEF Reason

(* The line that is read to its end. *)
LEMMA LineHolds ==
  ASSUME LineInv
  PROVE  LineIsRecovered
<1> SUFFICES ASSUME action # None PROVE LineIsRecovered
  BY DEF LineIsRecovered, Line!LineIsRecovered
<1> DEFINE n == Len(args)
           r == At(args, ignored)[n]
           kept == Line!Getopts(Line!Without(ignored))
<1>1. args \in Seq(Line!Argument) /\ n \in Nat /\ offset = 0 /\ index > n
      /\ Between(args, index, Place, recovered, ignored)
  BY DEF LineInv, LineAt
<1>2. index = n + 1 /\ index - 1 = n
  BY <1>1 DEF Between
<1>3. /\ Placed(args, n + 1, 0, ignored) /\ Behind(args, n + 1, ignored)
      /\ Agrees(r, Place, recovered)
  BY <1>1, <1>2 DEF Between
<1>4. kept.at # "failed" /\ kept.taken = recovered
  <2>1. r \in Readers /\ ~Lost(r) /\ r.pending \notin Line!Valued /\ recovered = Taken(r)
    BY <1>3 DEF Agrees, Lost
  <2>2. kept = GetoptsOf(r)
    BY <1>1, GetoptsEnds
  <2>3. GetoptsOf(r).at # "failed" /\ GetoptsOf(r).taken = Taken(r)
    BY <2>1, EndIs
  <2> QED BY <2>1, <2>2, <2>3
<1>5. ASSUME NEW p \in {q[1] : q \in ignored}, args[p].kind \in {"long", "cluster"}
      PROVE  Line!Getopts(Line!Without(ignored \ Line!Together(p))).at = "failed"
  <2> DEFINE E == ignored \ Line!Together(p)
             end == At(args, E)[n]
  <2>1. PICK q \in ignored : p = q[1]
    BY <1>5
  <2>2. p \in 1..n /\ q[2] \in Nat /\ q = <<p, q[2]>>
    BY <1>3, <2>1 DEF Placed
  <2>3. Dropped(ignored, p) # {}
    BY <2>1, <2>2 DEF Dropped
  <2>4. Excused(args, ignored, p)
    BY <1>1, <1>3, <2>2 DEF Behind
  <2>5. Reason(args, ignored, p)
    BY <1>5, <2>3, <2>4 DEF Excused
  <2>6. E = ignored \ {s \in ignored :
              s[1] = p \/ (s[1] = p + 1 /\ args[p + 1].kind = "garbage")}
    BY DEF Line!Together
  <2> HIDE DEF E
  <2>7. end.pending \in Line!Valued \/ Lost(end)
    BY <1>1, <1>3, <2>2, <2>5, <2>6, FailsBack
  <2>8. end \in Readers
    BY <1>1, ReadsToTheEnd
  <2>9. Line!Getopts(Line!Without(E)) = GetoptsOf(end)
    BY <1>1, GetoptsEnds
  <2>10. GetoptsOf(end).at = "failed"
    BY <2>7, <2>8, EndIs
  <2>11. Line!Getopts(Line!Without(E)).at = "failed"
    BY <2>9, <2>10
  <2> QED BY <2>11 DEF E
<1> QED BY <1>4, <1>5 DEF LineIsRecovered, Line!LineIsRecovered

(* Every line of the model begins, and goes on, as the invariant says. *)
LEMMA LineInit ==
  ASSUME Init
  PROVE  LineInv
<1>1. PICK case \in Cases : \E line \in case.lines : Line!Start(line)
  BY DEF Init
<1>2. PICK line \in case.lines : Line!Start(line)
  BY <1>1
<1>3. line \in Seq(Line!Argument)
  BY <1>2, LineAssumption
<1> QED BY <1>2, <1>3, LineStarts

LEMMA LineNext ==
  ASSUME LineInv, [Next]_vars
  PROVE  LineInv'
<1>1. CASE ReadLine
  BY <1>1, StepLine DEF ReadLine
<1>2. CASE UNCHANGED lineVars
  BY <1>2 DEF lineVars, LineInv, Place
<1>3. CASE Begin \/ LoadSettings \/ EditAFile \/ ReloadSettings \/ FinishCheck
  <2>1. UNCHANGED lineVars
    BY <1>3 DEF Begin, LoadSettings, EditAFile, ReloadSettings, FinishCheck
  <2> QED BY <1>2, <2>1
<1>4. CASE UNCHANGED vars
  <2>1. UNCHANGED lineVars
    BY <1>4 DEF vars
  <2> QED BY <1>2, <2>1
<1> QED BY <1>1, <1>3, <1>4 DEF Next

(* A line with mistakes is read as if they were not on it: what is left    *)
(* when everything recover_options warned of is taken out is a line that   *)
(* getopts accepts, with the options and values that were kept, and each   *)
(* option that was dropped would have made it fail.  For every command     *)
(* line of the model's arguments.                                          *)
THEOREM LinesAreRecovered == Spec => []LineIsRecovered
<1>1. Init => LineInv
  BY LineInit
<1>2. LineInv /\ [Next]_vars => LineInv'
  BY LineNext
<1>3. LineInv => LineIsRecovered
  BY LineHolds
<1> QED BY <1>1, <1>2, <1>3, PTL DEF Spec
=============================================================================
