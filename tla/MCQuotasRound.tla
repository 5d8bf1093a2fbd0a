---------------------------- MODULE MCQuotasRound ----------------------------
(* Two hosts of two cores behind a switch, for TLC. *)
EXTENDS QuotasRound

MCLevels ==
  [switch |-> <<{1, 2, 3, 4}>>, host |-> <<{1, 2}, {3, 4}>>, core |-> <<{1}, {2}, {3}, {4}>>]

Level(name, n) == [level |-> name, nb |-> n]

All(levels) == [levels |-> levels, from |-> {1, 2, 3, 4}]

Alternative(walltime, groups) == [walltime |-> walltime, groups |-> groups]

OneHost == <<Alternative(1, <<All(<<Level("host", 1)>>)>>)>>

OneCore == <<Alternative(1, <<All(<<Level("switch", 1), Level("host", 1), Level("core", 1)>>)>>)>>

(* A core of each host, or a host for longer *)
Moldable == <<Alternative(2, <<All(<<Level("host", 2), Level("core", 1)>>)>>),
              Alternative(3, <<All(<<Level("host", 1)>>)>>)>>

TwoGroups == <<Alternative(2, <<[levels |-> <<Level("core", 1)>>, from |-> {1, 2}],
                                [levels |-> <<Level("host", 1), Level("core", 2)>>,
                                 from |-> {3, 4}]>>)>>

Number(n) == [halves |-> 2 * n, all |-> FALSE]

PartOfAll(halves) == [halves |-> halves, all |-> TRUE]

Rule(type, project, user, res, number, work) ==
  [queue |-> "*", project |-> project, type |-> type, user |-> user,
   res |-> Number(res), jobs |-> Number(number), work |-> Number(work)]

Kind(user, project, types, description) ==
  [user |-> user, project |-> project, queue |-> "default", types |-> types,
   description |-> description]

NoCalendar(rules) ==
  [mode |-> "default_not_dead", calendar |-> FALSE, quotas |-> rules, rules |-> <<>>, default |-> 0,
   periodical |-> <<>>, oneshot |-> <<>>]

Always(rules) ==
  [mode |-> "default_not_dead", calendar |-> TRUE, quotas |-> {}, rules |-> <<rules>>, default |-> 1,
   periodical |-> <<>>, oneshot |-> <<>>]

AliceHasTwo == Rule("*", "*", "alice", 2, -1, -1)

FewBesteffort == Rule("besteffort", "*", "*", 1, -1, -1)

TwoJobs == Rule("*", "*", "*", -1, 2, -1)

OneJobOfProject == Rule("*", "proj", "*", -1, 1, -1)

EachHasTwo == Rule("*", "*", "/", 2, -1, -1)

(* A work of one hour, that is of five resources for a second here *)
LittleWork == Rule("*", "*", "alice", -1, -1, 1)

(* 0.5*ALL *)
HalfOfAll == [Rule("*", "*", "alice", 0, -1, -1) EXCEPT !.res = PartOfAll(1)]

(* Some rules in the beginning and at the end of the week *)
Weekly ==
  [mode |-> "default_not_dead", calendar |-> TRUE, quotas |-> {}, rules |-> <<{AliceHasTwo, TwoJobs}, {OneJobOfProject}>>,
   default |-> 1, periodical |-> <<[b |-> 4, d |-> 4, rules |-> 2]>>, oneshot |-> <<>>]

(* Other rules for two seconds *)
Holiday ==
  [mode |-> "default_not_dead", calendar |-> TRUE, quotas |-> {}, rules |-> <<{AliceHasTwo}, {OneJobOfProject, FewBesteffort}>>,
   default |-> 1, periodical |-> <<>>, oneshot |-> <<[b |-> 8, e |-> 10, rules |-> 2]>>]

(* Two seconds with the security time: in the periods of both calendars    *)
ShortKinds ==
  {Kind(user, "proj", types, description) :
     user \in {"alice", "bob"}, types \in {{}, {"besteffort"}}, description \in {OneHost, OneCore}}

(* Three or four seconds: longer than some of the periods *)
LongKinds ==
  {Kind("alice", "proj", {}, OneHost), Kind("alice", "none", {}, Moldable),
   Kind("bob", "proj", {"besteffort"}, Moldable), Kind("bob", "proj", {}, TwoGroups),
   Kind("alice", "none", {"no_quotas"}, TwoGroups), Kind("bob", "proj", {}, OneCore)}

Nobody == <<>>

Somebody(walltime) ==
  0 :> [job |-> [user |-> "alice", project |-> "proj", queue |-> "default", types |-> {},
                 noQuotas |-> FALSE, rqts |-> <<>>],
        place |-> [start |-> Now - 1, walltime |-> walltime, res |-> {1}]]

Triples(kinds) == {<<a, b, c>> : a \in kinds, b \in kinds, c \in kinds}

Scenarios_(confs, kinds, runnings, suspected) ==
  [conf : confs, kinds : Triples(kinds), running : runnings, suspected : suspected]

MCScenarios ==
  Scenarios_({NoCalendar({AliceHasTwo, TwoJobs}), NoCalendar({OneJobOfProject, FewBesteffort}),
              NoCalendar({EachHasTwo}), NoCalendar({LittleWork}), Always({AliceHasTwo, TwoJobs}),
              Always({FewBesteffort, LittleWork})},
             LongKinds, {Nobody, Somebody(3)}, {0})
  \cup Scenarios_({NoCalendar({HalfOfAll}),
                   [NoCalendar({HalfOfAll}) EXCEPT !.mode = "default"]},
                  LongKinds, {Nobody}, {0, 3})
  \cup Scenarios_({Weekly, Holiday}, ShortKinds \cup LongKinds, {Nobody, Somebody(2)}, {0})

=============================================================================
