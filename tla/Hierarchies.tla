---------------------------- MODULE Hierarchies ----------------------------
(***************************************************************************)
(* The resources a request is given among those that are available         *)
(* (src/oar/lib/hierarchy.py and find_resource_hierarchies_job). The       *)
(* levels of the hierarchy (network_address, resource_id...) are sequences *)
(* of blocks, in the order of the resources; a block is a set of resources.*)
(*                                                                         *)
(* A request is a sequence of groups: the blocks wanted at each level, from*)
(* the top, and the resources that have the properties wanted.             *)
(***************************************************************************)
EXTENDS Integers, SequencesExt

CONSTANTS
  Resources,
  Levels     \* for the name of a level, its blocks

-----------------------------------------------------------------------------
(* extract_n_scattered_block_itv: the first blocks that are wholly free *)
Extract(itvs, blocks, n) ==
  LET full == SelectSeq(blocks, LAMBDA x : x \subseteq itvs)
  IN  IF Len(full) < n THEN {} ELSE UNION Range(SubSeq(full, 1, n))

(* keep_no_empty_scat_bks *)
KeepNoEmpty(itvs, blocks) == SelectSeq(blocks, LAMBDA x : x \cap itvs # {})

(* The blocks of the last level, cut by one of the level above *)
Below(blocks, x) == KeepNoEmpty(x, [k \in DOMAIN blocks |-> x \cap blocks[k]])

(* find_resource_n_h: the first blocks in which the levels below are found *)
FindNH(itvs, hy, rqts) ==
  LET bottom == Len(hy)
      find[h \in 1..bottom, top \in Seq(SUBSET Resources)] ==
        LET inside(x) ==
              IF h = bottom - 1 THEN Extract(itvs, Below(hy[bottom], x), rqts[bottom])
              ELSE find[h + 1, SelectSeq(hy[h + 1], LAMBDA sub : sub \subseteq x)]
            avail == KeepNoEmpty(itvs, top)
            won == SelectSeq([k \in DOMAIN avail |-> inside(avail[k])], LAMBDA r : r # {})
        IN  IF Len(won) < rqts[h] THEN {} ELSE UNION Range(SubSeq(won, 1, rqts[h]))
  IN  find[1, hy[1]]

(* find_resource_hierarchies_scattered *)
FindScattered(itvs, hy, rqts) ==
  IF Len(hy) = 1 THEN Extract(itvs, hy[1], rqts[1]) ELSE FindNH(itvs, hy, rqts)

(* A group of a request *)
FindGroup(itvs, group) ==
  FindScattered(group.from \cap itvs,
                [h \in DOMAIN group.levels |-> Levels[group.levels[h].level]],
                [h \in DOMAIN group.levels |-> group.levels[h].nb])

(* find_resource_hierarchies_job: two groups may be given the same resources *)
FindResources(itvs, groups) ==
  LET found == {FindGroup(itvs, group) : group \in Range(groups)}
  IN  IF {} \in found THEN {} ELSE UNION found

-----------------------------------------------------------------------------
(* What a group asks for: each block given at a level, or the whole when   *)
(* it is the first one, holds as many blocks of the next level as asked,   *)
(* and those of the last level are given whole.                            *)
Given(blocks, x, res) == {b \in Range(blocks) : b \cap x \cap res # {}}

Satisfies(res, group) ==
  LET hy(h) == Levels[group.levels[h].level]
  IN  /\ res \subseteq group.from
      /\ \A h \in DOMAIN group.levels :
           \A x \in IF h = 1 THEN {res} ELSE Given(hy(h - 1), res, res) :
             Cardinality(Given(hy(h), x, res)) = group.levels[h].nb
      /\ \A b \in Given(hy(Len(group.levels)), res, res) : b \subseteq res

=============================================================================
