------------------------------ MODULE JobData ------------------------------
(***************************************************************************)
(* What the schedulers read about the waiting jobs (get_data_jobs and what *)
(* it calls, src/oar/lib/job_handling.py): one query joins a job, its      *)
(* alternatives (moldable), their groups of resources and the levels of    *)
(* each group, one row for each level; the rows are read in their order.   *)
(*                                                                         *)
(* A description is what has been submitted: a sequence of alternatives,   *)
(* each a walltime and groups of resources. The properties of a job and of *)
(* a group are the set of resources that have them.                        *)
(***************************************************************************)
EXTENDS Integers, SequencesExt

CONSTANT Security   \* job_security_time, a part of every walltime

-----------------------------------------------------------------------------
(* The query *)

(* The rows of a group *)
GroupRows(job, m, walltime, g, group) ==
  [k \in DOMAIN group.levels |->
     [job |-> job, mld |-> <<job, m>>, walltime |-> walltime, group |-> <<job, m, g>>,
      from |-> group.from, level |-> group.levels[k]]]

MoldableRows(job, m, alternative) ==
  FlattenSeq([g \in DOMAIN alternative.groups |->
                GroupRows(job, m, alternative.walltime, g, alternative.groups[g])])

(* By the ids of the moldable and of the group, and the order of the levels *)
Rows(descriptions) ==
  FlattenSeq([job \in DOMAIN descriptions |->
                FlattenSeq([m \in DOMAIN descriptions[job] |->
                              MoldableRows(job, m, descriptions[job][m])])])

-----------------------------------------------------------------------------
(* The loop of get_data_jobs *)

None == <<>>

Nothing == [job |-> 0, mld |-> None, walltime |-> 0, group |-> None,
            jrg |-> <<>>, rqts |-> <<>>, data |-> <<>>]

(* The job of the rows before is complete. Its last group is appended twice *)
JobIsComplete(st) ==
  Append(st.data, Append(st.rqts, [walltime |-> st.walltime, groups |-> Append(st.jrg, Last(st.jrg))]))

(* One row: a new job, a new alternative, a new group, or a level more *)
AddRow(st, row) ==
  LET newJob == row.job # st.job
      newMld == ~newJob /\ row.mld # st.mld
      jrg    == IF newJob \/ newMld THEN <<>> ELSE st.jrg
  IN  [job |-> row.job, mld |-> row.mld, group |-> row.group,
       walltime |-> IF newJob \/ newMld THEN row.walltime + Security ELSE st.walltime,
       jrg  |-> IF row.group # st.group
                THEN Append(jrg, [levels |-> <<row.level>>, from |-> row.from])
                ELSE [jrg EXCEPT ![Len(jrg)].levels = Append(@, row.level)],
       rqts |-> IF newJob THEN <<>>
                ELSE IF newMld THEN Append(st.rqts, [walltime |-> st.walltime, groups |-> st.jrg])
                ELSE st.rqts,
       data |-> IF newJob /\ st.job # 0 THEN JobIsComplete(st) ELSE st.data]

(* After the last row. The last job has its last group once *)
LastJobIsComplete(st) ==
  Append(st.data, Append(st.rqts, [walltime |-> st.walltime, groups |-> st.jrg]))

(* mld_res_rqts of each job *)
MldResRqts(descriptions) == LastJobIsComplete(FoldLeft(AddRow, Nothing, Rows(descriptions)))

-----------------------------------------------------------------------------
(* get_jobs_types: no_quotas is a mark and not a type any more *)
TypesOf(types) == [types |-> types \ {"no_quotas"}, noQuotas |-> "no_quotas" \in types]

(* set_jobs_cache_keys: the walltime and the groups, printed *)
CacheKey(rqt) == <<rqt.walltime, rqt.groups>>

(* get_waiting_jobs and get_data_jobs; kinds are what is in the database   *)
DataJobs(kinds) ==
  LET rqts == MldResRqts([j \in DOMAIN kinds |-> kinds[j].description])
  IN  [j \in DOMAIN kinds |->
         [user |-> kinds[j].user, project |-> kinds[j].project, queue |-> kinds[j].queue,
          types |-> TypesOf(kinds[j].types).types, noQuotas |-> TypesOf(kinds[j].types).noQuotas,
          rqts |-> rqts[j]]]

=============================================================================
