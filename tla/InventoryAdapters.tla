-------------------------- MODULE InventoryAdapters --------------------------
(***************************************************************************)
(* How each provider collection becomes asset rows: one definition per     *)
(* collector, in the traits that decide what a sync may import, mark and   *)
(* revive.  The metadata that a collector selects is abstracted, and so is *)
(* the loop over regions and parents: InventorySync reads one collection.  *)
(*                                                                         *)
(*   pages     how the end of the collection is found: a cursor, a cursor *)
(*             whose total is compared at the end ("counted"), totals and    *)
(*             page numbers, links, a short page, a single response; or      *)
(*             "first": only the first page is ever read                     *)
(*   details   what a failed request for the details or the children of a    *)
(*             listed resource does: it fails the read ("required"), the     *)
(*             record is kept but nothing is marked ("kept"), what it would  *)
(*             have listed is lost and nothing is marked ("dropped"), the    *)
(*             row is left alone ("skipped"), or nothing ("ignored")         *)
(*   scope     whose rows a complete collection is compared with: all of     *)
(*             the account, or those of its region or parent                 *)
(*   marks     rows that a complete collection lacks are marked              *)
(*   initial   monitoring of a new row                                       *)
(*   scheduled the type is in the list of types whose new rows get a task    *)
(*   revives   which listed rows become active again: none, those marked     *)
(*             as gone, or "always" all of them                              *)
(*   saves     rows are marked through save(), not by a bulk update          *)
(*   gap       how a sync without the optional credentials disables rows     *)
(***************************************************************************)

\* Every combination of traits.
Traits ==
  [pages: {"cursor", "counted", "totals", "links", "short", "single", "first"},
   details: {"required", "kept", "dropped", "skipped", "ignored"},
   scope: {"account", "region", "parent"},
   marks: BOOLEAN,
   initial: {"active", "disabled"},
   scheduled: BOOLEAN,
   revives: {"never", "gone", "always"},
   saves: BOOLEAN,
   gap: {"none", "bulk", "save"}]

Collection ==
  [pages |-> "cursor", details |-> "required", scope |-> "account",
   marks |-> TRUE, initial |-> "active", scheduled |-> TRUE,
   revives |-> "gone", saves |-> FALSE, gap |-> "none"]

\* A collection of each enabled region, compared with the region's rows.  A
\* region that is disabled later is not read again.
Regional == [Collection EXCEPT !.scope = "region"]

\* An operation without a paginator in the client library, which is external,
\* is called once: it gives the first page, or everything if it has no pages.
Unpaged(family) == [family EXCEPT !.pages = "first"]
Single(family) == [family EXCEPT !.pages = "single"]

WithDetails(family, outcome) == [family EXCEPT !.details = outcome]
Unscheduled(family) == [family EXCEPT !.scheduled = FALSE]

-----------------------------------------------------------------------------
(* AWS: network, CloudWatch, backups *)

\* Any operation that the client library has no paginator for.
AwsUnpaged == Unpaged(Regional)

AwsNetworkCollection == Regional
AwsNetworkItem == AwsNetworkCollection
AwsVpnConnection == Single(AwsNetworkCollection)
AwsVolumeAttachment == AwsNetworkCollection

AwsAlarm == Regional
AwsMetric == Regional
AwsLogGroup == Regional

AwsBackup == [Regional EXCEPT !.saves = TRUE]
AwsBackupVault == WithDetails(AwsBackup, "ignored")
AwsRecoveryPoint == [AwsBackup EXCEPT !.scope = "parent", !.details = "dropped"]
AwsBackupPlan == WithDetails(AwsBackup, "ignored")
AwsBackupJob == AwsBackup
AwsSnapshot == AwsBackup

(* AWS: edge.  The regions of a family are read before any row is written. *)

AwsEdge == Collection
AwsHostedZone == AwsEdge
AwsDistribution == AwsEdge
AwsWebAcl == Unpaged(AwsEdge)
AwsAccelerator == AwsEdge
AwsCertificate == AwsEdge

(* AWS: Lightsail.  Its regions are read before any row is written; only   *)
(* bucket and instance details may fail.                                   *)

AwsLightsail == WithDetails(Collection, "ignored")
AwsLightsailRecord == WithDetails(AwsLightsail, "dropped")
AwsLightsailContainer ==
  [WithDetails(AwsLightsail, "dropped") EXCEPT !.initial = "disabled",
                                               !.scheduled = FALSE]
AwsLightsailAutoSnapshot == WithDetails(AwsLightsail, "dropped")

(* AWS: containers.  Children fail with any of their parents. *)

AwsContainer == Regional
AwsEcrRepository == AwsContainer
AwsEcrImage == AwsContainer
AwsTaskDefinition == AwsContainer
AwsEcsDeployment == AwsContainer
AwsEksCluster == AwsContainer
AwsEksChild == AwsContainer
AwsAppRunnerService == Unpaged(AwsContainer)
\* The newest operations of a service are its deployments.
AwsAppRunnerDeployment == Unpaged(AwsContainer)

(* AWS: data services *)

AwsDataService == Unscheduled(Regional)
AwsRdsCluster == AwsDataService
AwsCacheCluster == AwsDataService
AwsCacheReplicationGroup == AwsDataService
AwsServerlessCache == AwsDataService
AwsMemoryDb == AwsDataService
AwsOpenSearch == Single(AwsDataService)
AwsEfs == AwsDataService
AwsFsx == AwsDataService

(* AWS: application services.  A collection with a warning marks nothing. *)

AwsApplication == WithDetails(Unscheduled(Regional), "kept")
AwsApi == AwsApplication
AwsEventBus == Unpaged(AwsApplication)
\* The rules of the buses on the first page.
AwsEventRule == Unpaged(WithDetails(AwsApplication, "dropped"))
AwsSchedule == AwsApplication
AwsPipe == AwsApplication
AwsTopic == AwsApplication
\* A queue without its attributes becomes another row, named by its URL.
AwsQueue == WithDetails(AwsApplication, "dropped")
AwsStateMachine == AwsApplication
AwsWorkgroup == Unpaged(AwsApplication)
AwsDataCatalog == AwsApplication
AwsStack == AwsApplication

(* AWS: delivery.  Builds and executions are a window of a history. *)

AwsDelivery == Unscheduled(Regional)
AwsBeanstalkApplication == Single(AwsDelivery)
AwsBeanstalkEnvironment == AwsDelivery
AwsBuildProject == AwsDelivery
AwsHistory == [Unpaged(AwsDelivery) EXCEPT !.marks = FALSE]
AwsBuild == WithDetails(AwsHistory, "dropped")
AwsPipeline == AwsDelivery
AwsExecution == WithDetails(AwsHistory, "dropped")

(* AWS: secrets and parameters *)

AwsConfiguration == WithDetails(Unscheduled(Regional), "kept")
AwsSecret == AwsConfiguration
AwsParameter == AwsConfiguration

(* AWS: account operations, read once for the account *)

AwsAccountOperation == [Unscheduled(Collection) EXCEPT !.revives = "always"]
AwsHealthEvent == AwsAccountOperation
AwsAdvisorCheck == Single(AwsAccountOperation)
\* The signal of a day is a resource of its own.
AwsCostSignal == Single(AwsAccountOperation)
AwsCostAnomaly == AwsAccountOperation

(* AWS: security and governance.  Every update sets the row to active. *)

AwsSecurity ==
  [WithDetails(Unscheduled(Regional), "kept") EXCEPT !.revives = "always"]
AwsIam == [AwsSecurity EXCEPT !.scope = "account"]
AwsKmsKey == AwsSecurity
AwsKmsAlias == AwsSecurity
AwsTrail == Single(AwsSecurity)
AwsConfigRule == AwsSecurity
AwsConfigRecorder == Single(AwsSecurity)
AwsDetector == AwsSecurity
AwsSecurityHub == Single(AwsSecurity)
AwsInspector == Single(AwsSecurity)
AwsMacie == Single(AwsSecurity)
AwsFirewallPolicy == AwsSecurity

(* AWS: the first families, read in the account's own region *)

AwsAsset == [Collection EXCEPT !.revives = "never"]
AwsServer == AwsAsset
AwsVolume == AwsAsset
AwsRds == AwsAsset
AwsLambda == AwsAsset
AwsTable == WithDetails(AwsAsset, "skipped")
AwsBucket == Single(WithDetails(AwsAsset, "ignored"))
AwsAcmCertificate == WithDetails(AwsAsset, "skipped")
AwsEbsSnapshot == AwsAsset
AwsElasticIp == Single(AwsAsset)
AwsLoadBalancer == WithDetails(AwsAsset, "ignored")
AwsSecurityGroup == AwsAsset
\* Clusters are listed without pages; a service or task that its description
\* lacks is left alone.
AwsService == Unpaged(WithDetails(AwsAsset, "skipped"))
AwsTask == Unpaged(WithDetails(AwsAsset, "skipped"))

-----------------------------------------------------------------------------
(* DigitalOcean *)

DigitalOcean == [Collection EXCEPT !.pages = "links"]
DoServer == DigitalOcean
DoBackup == DigitalOcean
DoItem == DigitalOcean
DoReservedIp == DoItem
DoCluster == DoItem
DoNatGateway == DoItem
DoDomain == DoItem
DoSpace == [Single(DoItem) EXCEPT !.gap = "bulk"]

(* Hetzner *)

Hetzner == [Collection EXCEPT !.pages = "totals"]
HetznerServer == [Hetzner EXCEPT !.revives = "never"]
HetznerVolume == HetznerServer
HetznerCatalog == [Hetzner EXCEPT !.initial = "disabled"]
\* A secondary zone withholds the record sets of every zone.
HetznerRecordSet == Hetzner
HetznerBucket == [Single(Hetzner) EXCEPT !.gap = "save"]

(* Linode, UpCloud *)

Linode == [Collection EXCEPT !.pages = "short", !.revives = "never"]
LinodeServer == Linode
LinodeVolume == Linode

UpCloud == [Single(Collection) EXCEPT !.revives = "never"]
UpCloudServer == UpCloud
UpCloudVolume == UpCloud

(* Vultr *)

Vultr == [Collection EXCEPT !.saves = TRUE]
VultrAsset == [Vultr EXCEPT !.revives = "never"]
VultrServer == VultrAsset
VultrDatabase == VultrAsset
VultrVolume == VultrAsset
VultrCompute == Unscheduled(Vultr)
VultrBackup == Vultr
VultrComputePlan == [VultrCompute EXCEPT !.initial = "disabled"]
VultrNetwork == Vultr
VultrRule == Unscheduled(VultrNetwork)
VultrRecord == VultrNetwork
VultrPlatform == [Vultr EXCEPT !.pages = "counted"]
VultrNodePool == VultrPlatform
VultrRegistryContent == Unscheduled(VultrPlatform)
VultrCatalog == Unscheduled(VultrPlatform)

-----------------------------------------------------------------------------
\* One of each kind: many collectors have the same traits.
AllFamilies ==
  {AwsUnpaged, AwsNetworkCollection, AwsNetworkItem, AwsVpnConnection,
   AwsVolumeAttachment, AwsAlarm, AwsMetric, AwsLogGroup, AwsBackupVault,
   AwsRecoveryPoint, AwsBackupPlan, AwsBackupJob, AwsSnapshot,
   AwsHostedZone, AwsDistribution, AwsWebAcl, AwsAccelerator,
   AwsCertificate, AwsLightsail, AwsLightsailRecord, AwsLightsailContainer,
   AwsLightsailAutoSnapshot, AwsContainer, AwsEcrRepository, AwsEcrImage,
   AwsTaskDefinition, AwsEcsDeployment, AwsEksCluster, AwsEksChild,
   AwsAppRunnerService, AwsAppRunnerDeployment, AwsDataService,
   AwsRdsCluster, AwsCacheCluster, AwsCacheReplicationGroup,
   AwsServerlessCache, AwsMemoryDb, AwsOpenSearch, AwsEfs, AwsFsx,
   AwsApplication, AwsApi, AwsEventBus, AwsEventRule, AwsSchedule, AwsPipe,
   AwsTopic, AwsQueue, AwsStateMachine, AwsWorkgroup, AwsDataCatalog,
   AwsStack, AwsDelivery, AwsBeanstalkApplication, AwsBeanstalkEnvironment,
   AwsBuildProject, AwsHistory, AwsBuild, AwsPipeline, AwsExecution,
   AwsConfiguration, AwsSecret, AwsParameter, AwsAccountOperation,
   AwsHealthEvent, AwsAdvisorCheck, AwsCostSignal, AwsCostAnomaly,
   AwsSecurity, AwsIam, AwsKmsKey, AwsKmsAlias, AwsTrail, AwsConfigRule,
   AwsConfigRecorder, AwsDetector, AwsSecurityHub, AwsInspector, AwsMacie,
   AwsFirewallPolicy, AwsAsset, AwsServer, AwsVolume, AwsRds, AwsLambda,
   AwsTable, AwsBucket, AwsAcmCertificate, AwsEbsSnapshot, AwsElasticIp,
   AwsLoadBalancer, AwsSecurityGroup, AwsService, AwsTask, DigitalOcean,
   DoServer, DoBackup, DoItem, DoReservedIp, DoCluster, DoNatGateway,
   DoDomain, DoSpace, Hetzner, HetznerServer, HetznerVolume,
   HetznerCatalog, HetznerRecordSet, HetznerBucket, Linode, LinodeServer,
   LinodeVolume, UpCloud, UpCloudServer, UpCloudVolume, Vultr, VultrAsset,
   VultrServer, VultrDatabase, VultrVolume, VultrCompute, VultrBackup,
   VultrComputePlan, VultrNetwork, VultrRule, VultrRecord, VultrPlatform,
   VultrNodePool, VultrRegistryContent, VultrCatalog}
=============================================================================
