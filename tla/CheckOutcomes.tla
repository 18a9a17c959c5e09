---------------------------- MODULE CheckOutcomes ----------------------------
(***************************************************************************)
(* The timeline of an asset whose provider is not always up to answering:  *)
(* a resource works, breaks and disappears, its check makes a status of    *)
(* what the provider says, and the status is recorded unless it stands     *)
(* for a failed check.                                                     *)
(***************************************************************************)
EXTENDS StatusTimeline, CheckAdapters

CONSTANTS
  Browsed,     \* bound: the checks of assets whose metadata changes and whose
               \* page is read
  MaxChanges,  \* bound: changes of the resource's condition
  MaxFaults    \* bound: answers that are not to the point

VARIABLES
  check,      \* the asset's check, fixed
  condition,  \* the resource's condition
  clear,      \* ghost: the condition that the last proper answer showed
  changes, faults

outcomeVars == <<vars, check, condition, clear, changes, faults>>

Conditions == {"healthy", "faulty", "absent"}
Failures == {"denied", "failed", "malformed"}
Faults == Failures \cup {"unlisted", "stateless"}

ASSUME OutcomesAssumption ==
  /\ \A c \in Checks : \A a \in DOMAIN Lane : c[a] \in Statuses \cup Diagnostics
  /\ Statuses \cap Diagnostics = {}
  /\ {MaxChanges, MaxFaults} \subseteq Nat

OutcomesTypeOK ==
  /\ TypeOK
  /\ check \in Checks
  /\ condition \in Conditions
  /\ clear \in Conditions \cup {"none"}
  /\ changes \in 0..MaxChanges
  /\ faults \in 0..MaxFaults

OutcomesInit ==
  /\ Init
  /\ check \in Checks
  /\ condition \in Conditions
  /\ clear = "none"
  /\ changes = 0
  /\ faults = 0

\* A provider says that a resource is gone, or answers without it.
Proper == {condition} \cup (IF condition = "absent" THEN {"unlisted"} ELSE {})

Answer(a) ==
  /\ \/ a \in Proper /\ clear' = condition /\ UNCHANGED faults
     \/ /\ a \in Faults \ Proper
        /\ a = "stateless" => condition # "absent"
        /\ faults < MaxFaults
        /\ faults' = faults + 1
        /\ UNCHANGED clear
  /\ UNCHANGED <<check, condition, changes>>

\* run_status_check: what the check made of the answer is recorded.
Result(a) ==
  \/ check[a] \in Diagnostics /\ Fail
  \/ /\ check[a] \notin Diagnostics
     /\ \E moved \in BOOLEAN :
          (moved => check \in Browsed) /\ Observe(check[a], moved)

Check == \E a \in DOMAIN Lane : Answer(a) /\ Result(a)

Change ==
  /\ changes < MaxChanges
  /\ changes' = changes + 1
  /\ condition' \in Conditions \ {condition}
  /\ UNCHANGED <<vars, check, clear, faults>>

\* The status on the asset's page: that of the state row, unless the last
\* check failed or there was none.
ShownStatus ==
  IF failing \/ KnownStatus = Error THEN "unknown" ELSE KnownStatus

\* Mutant: the list goes by the newest row of the log alone.
NewestRowStatus ==
  IF log = <<>> \/ Last(log).status = Error THEN "unknown" ELSE Last(log).status

\* The status in the list of assets: the newest row's, overruled by the state.
ListedStatus ==
  IF history = <<>> THEN NewestRowStatus ELSE ShownStatus

Read ==
  /\ check \in Browsed
  /\ Turn
  /\ UNCHANGED <<check, condition, clear, changes, faults>>

OutcomesNext == Check \/ Change \/ Read

OutcomesSpec == OutcomesInit /\ [][OutcomesNext]_outcomeVars

-----------------------------------------------------------------------------
(* The checks that a property leaves out, by what is wrong with them. *)

\* A request that failed passes for a state of the resource.
Alarming ==
  {AwsBucket, AwsSecurity, AwsIdentity, AwsKey, AwsKeyAlias, AwsBareAlias,
   AwsTrail, AwsConfigRule, AwsRecorder, AwsDetector, AwsSecurityHub,
   AwsInspector, AwsMacie, AwsFirewallPolicy, VultrAccountPages}

\* An answer with nothing about the resource passes for one with its state.
Credulous ==
  {AwsEcsTask, AwsVault, AwsSnapshot, AwsApplicationServices, AwsRestApi,
   AwsEventRule, AwsStateMachine, AwsSecret, AwsSecurityHub, LinodeVolume,
   UpCloudServer, UpCloudVolume, VultrStatusPage, HetznerBucket,
   DigitalOceanSpace}

\* Nothing in the answer is about the one resource.
Collective ==
  {AwsBucket, AwsKeyAlias, AwsCostSignal, VultrAccountList,
   VultrAccountPages, VultrStatusPage}

\* Whether the resource exists is all that is checked.
Existence ==
  {AwsElasticIp, AwsClassicLoadBalancer, AwsSecurityGroup, AwsRouting,
   AwsMetric, AwsZone, AwsZoneRecord, AwsRepository, AwsImage,
   AwsApplication, AwsProject, AwsRestApi, AwsQueue, AwsParameter,
   AwsLightsailPresence, AwsLightsailAddress, AwsIdentity, LinodeVolume,
   VultrBandwidth, VultrBalancerConfiguration, HetznerCatalog,
   HetznerRecordSet, HetznerMetrics, HetznerBucket, DigitalOceanVolume,
   DigitalOceanSnapshot, DigitalOceanReservedIp, DigitalOceanRegistry,
   DigitalOceanVpc, DigitalOceanDomain, DigitalOceanSpace}

\* The provider's word for a broken resource passes for a failed check, or the
\* check never comes to read it.
Blind ==
  {AwsVolume, AwsAmi, AwsLogGroup, AwsSnapshot, AwsEnvironment,
   AwsLightsailDisk, UpCloudServer, UpCloudVolume, VultrFileSystem,
   VultrAccountAccess, DigitalOceanCluster, DigitalOceanCertificate}

\* A resource without a state passes for a working one.
Optimistic ==
  {AwsNetwork, AwsAttachment, AwsEdge, AwsDistribution, AwsAccessControl,
   AwsWebAcl, AwsAccelerator, AwsTaskDefinition, AwsPipeline, AwsSearchDomain,
   AwsVault, AwsPlan, AwsApplicationServices, AwsEventRule, AwsStateMachine,
   AwsLightsail, AwsSecret, AwsSecurityHub, AwsFirewallPolicy, AwsCostMonitor,
   VultrSnapshot, VultrObjectStorage, VultrRegistryContent, VultrPlan,
   VultrLoadBalancer, VultrNetwork, VultrRule, VultrProfile, VultrAction,
   HetznerAddress}

Inattentive == Existence \cup Blind \cup Optimistic \cup Collective

\* What is told of a resource that is there and in order.
Working == {"healthy", "detached"}

-----------------------------------------------------------------------------
(* Properties *)

\* Whatever a provider outage, revoked credentials or a body of another shape
\* make of the checks in between, they change nothing that the timeline tells,
\* but for the checks that take them for states.
FailuresStaySilent ==
  [][\A a \in Failures :
       Answer(a) /\ Result(a) =>
         \/ KnownStatus' = KnownStatus
         \/ check \in Alarming
         \/ a = "malformed" /\ check \in Credulous]_outcomeVars

\* A resource that is gone is never told to be in order, by any sequence of
\* answers, unless it is by one that is not about it.
GoneIsNoRecovery ==
  [][KnownStatus' # KnownStatus /\ KnownStatus' \in Working =>
       \/ condition # "absent"
       \/ check \in Collective
       \/ /\ check \in Credulous
          /\ \E a \in {"unlisted", "malformed"} : Answer(a) /\ Result(a)]_outcomeVars

\* An outage that a check has seen stays told while it lasts, whatever answers
\* follow, and the shown timeline does not begin with a period in order.
OutagesStayTold ==
  clear = "faulty" /\ condition = "faulty"
  /\ check \notin Inattentive =>
    /\ KnownStatus \notin Working \cup {Error}
    /\ AlertTimeline # <<>> => Head(AlertTimeline).status \notin Working

\* The list and the asset's page show one status, and unless it is "unknown",
\* the timeline begins with it: the three are computed from different rows.
ConsoleAgrees ==
  /\ ListedStatus = ShownStatus
  /\ LET entries == PageTimeline IN
     ~failing /\ entries # <<>> => Head(entries).status = ListedStatus
=============================================================================
