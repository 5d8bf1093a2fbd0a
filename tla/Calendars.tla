----------------------------- MODULE Calendars -----------------------------
(***************************************************************************)
(* The calendar of the quotas (src/oar/kao/quotas.py, class Calendar): the *)
(* rules that are in force by periods of the week, or once from a date to  *)
(* another. Dates are local times and Week divides them; the wording of    *)
(* the configuration ("08:00-19:00 mon-fri") is an entry for each of the   *)
(* intervals it stands for.                                                *)
(***************************************************************************)
EXTENDS Integers, SequencesExt

CONSTANTS
  Week,     \* 7 * 86400
  Period,   \* QUOTAS_PERIOD
  Hour      \* 3600

ASSUME WeekAssumption == Week \in Nat \ {0} /\ Period \in Nat /\ Hour \in Nat \ {0}

-----------------------------------------------------------------------------
(* To read the configuration *)

(* alphanum_to_int: a number or a part of ALL, in halves, without its      *)
(* fraction; -2 halves, that is -1, is no limit                            *)
AlphanumToInt(v, all) == IF v.all THEN (v.halves * all) \div 2 ELSE v.halves \div 2

(* The work is in hours *)
QuotasRulesFromJson(rules, all) ==
  {[rule EXCEPT !.res = AlphanumToInt(@, all), !.jobs = AlphanumToInt(@, all),
                !.work = Hour * AlphanumToInt(@, all)] : rule \in rules}

ByBegin(periods) == SortSeq(periods, LAMBDA p, q : p.b < q.b)

(* periodical_fromJson: an entry may go beyond the end of the week *)
Entries(entry) ==
  LET over == (entry.b + entry.d) % Week
  IN  IF entry.b + entry.d > Week
      THEN <<[entry EXCEPT !.b = 0, !.d = over], [entry EXCEPT !.d = @ - over]>>
      ELSE <<entry>>

(* The gaps between periods are filled with the default rules *)
Fill(periods, rules) ==
  LET step(st, p) ==
        IF st.t >= Week THEN st
        ELSE [t |-> p.b + p.d,
              gaps |-> IF st.t # p.b
                       THEN Append(st.gaps, [b |-> st.t, d |-> p.b - st.t, rules |-> rules])
                       ELSE st.gaps]
      end == FoldLeft(step, [t |-> 0, gaps |-> <<>>], periods)
  IN  IF end.t # Week
      THEN Append(end.gaps, [b |-> end.t, d |-> Week - end.t, rules |-> rules])
      ELSE end.gaps

(* oneshot_fromJson; the begin and the end of all of them are only a filter*)
Oneshots(entries) ==
  SortSeq([k \in DOMAIN entries |->
             [b |-> entries[k].b, e |-> entries[k].e, rules |-> entries[k].rules]],
          LAMBDA o, p : o.b < p.b)

(* Calendar.__init__; without default, that is 0, the gaps are left *)
Calendar(conf) ==
  LET periods == ByBegin(FlattenSeq([k \in DOMAIN conf.periodical |-> Entries(conf.periodical[k])]))
  IN  [periods |-> IF conf.default = 0 THEN periods
                   ELSE ByBegin(periods \o Fill(periods, conf.default)),
       oneshots |-> Oneshots(conf.oneshot)]

-----------------------------------------------------------------------------
(* To ask it. The calendar remembers op, the index of the last period, and *)
(* period_end (end).                                                       *)

(* oneshot_at: the duration left before the oneshot ends, or begins; 0 if  *)
(* none matters.                                                           *)
OneshotAt(calendar, t, remaining, rules) ==
  LET shots  == calendar.oneshots
      during == {k \in DOMAIN shots : shots[k].b <= t /\ t <= shots[k].e}
      before == {k \in DOMAIN shots : t < shots[k].b /\ shots[k].b < t + remaining}
      first  == Min(during \cup before)
  IN  IF during \cup before = {} THEN [remaining |-> 0, rules |-> -1]
      ELSE IF first \in during THEN [remaining |-> shots[first].e - t, rules |-> shots[first].rules]
      ELSE [remaining |-> shots[first].b - t, rules |-> rules]

(* A oneshot prevails, unless it has no duration left *)
WithOneshot(calendar, t, remaining, rules) ==
  LET o == OneshotAt(calendar, t, remaining, rules)
  IN  IF o.remaining # 0 THEN o ELSE [remaining |-> remaining, rules |-> rules]

(* The loop of periodical_rules_at: the first period that begins at this   *)
(* time of the week or later, and else the last one.                       *)
PeriodAt(calendar, t) ==
  LET later == {k \in DOMAIN calendar.periods :
                  calendar.periods[k].b >= t /\ t <= calendar.periods[k].b + calendar.periods[k].d - 1}
  IN  IF later = {} THEN Len(calendar.periods) ELSE Min(later)

(* rules_at and periodical_rules_at *)
RulesAt(calendar, t) ==
  LET now    == t % Week
      op     == PeriodAt(calendar, now)
      period == calendar.periods[op]
      at     == WithOneshot(calendar, t, period.d - now, period.rules)
  IN  [op |-> op, end |-> t - now + Period, rules |-> at.rules, remaining |-> at.remaining]

(* Mutant of NextRules: a oneshot is not looked for *)
NextRulesNoOneshot(calendar, cal, t) ==
  LET op     == (cal.op % Len(calendar.periods)) + 1
      period == calendar.periods[op]
  IN  IF t >= cal.end THEN [cal EXCEPT !.rules = 0, !.remaining = 0]
      ELSE [cal EXCEPT !.op = op, !.rules = period.rules, !.remaining = period.d]

(* next_rules; nothing (0) after the end of the period *)
NextRules(calendar, cal, t) ==
  LET op     == (cal.op % Len(calendar.periods)) + 1
      period == calendar.periods[op]
      at     == WithOneshot(calendar, t, period.d, period.rules)
  IN  IF t >= cal.end THEN [cal EXCEPT !.rules = 0, !.remaining = 0]
      ELSE [cal EXCEPT !.op = op, !.rules = at.rules, !.remaining = at.remaining]

-----------------------------------------------------------------------------
(* The rules in force at a date: those of the oneshot it is in, or of its  *)
(* entry of the week, or the default ones.                                 *)
InForce(conf, t) ==
  LET shots == {k \in DOMAIN conf.oneshot : conf.oneshot[k].b <= t /\ t < conf.oneshot[k].e}
      weekly == {k \in DOMAIN conf.periodical :
                   \E w \in {t % Week, (t % Week) + Week} :
                     conf.periodical[k].b <= w /\ w < conf.periodical[k].b + conf.periodical[k].d}
  IN  IF shots # {} THEN conf.oneshot[Min(shots)].rules
      ELSE IF weekly # {} THEN conf.periodical[Min(weekly)].rules
      ELSE conf.default

=============================================================================
