---------------------------- MODULE CheckAdapters ----------------------------
(***************************************************************************)
(* What the status checks of each provider make of an answer.  A check is  *)
(* a record from kinds of answers to normalised statuses:                  *)
(*   healthy, faulty   the resource, with the provider's word for a        *)
(*                     working or a broken one                             *)
(*   absent            the provider's error for a resource that is gone    *)
(*   unlisted          a good answer without the resource                  *)
(*   denied            rejected credentials                                *)
(*   failed            a server error, a timeout or an unreadable body     *)
(*   malformed         an object with none of the expected fields          *)
(*   stateless         the resource, without its state                     *)
(* The words of the checks are reduced to "healthy", "detached" (there,    *)
(* but not in use), "faulty", "gone" (missing or deleted), "unknown" (a    *)
(* state that is not understood, or no data), "partial", "provider_error"  *)
(* and the diagnostics.  A check of something that only exists or not maps *)
(* "faulty" to "healthy".                                                  *)
(***************************************************************************)

\* NON_ALERTING_STATUSES: a failed check, not the asset's health.
Diagnostics ==
  {"invalid_access_token", "error", "not_found", "credentials_unavailable",
   "unsupported", "external_health_unavailable"}

\* What most checks have in common.
Lane ==
  [healthy |-> "healthy", faulty |-> "faulty", absent |-> "not_found",
   unlisted |-> "error", denied |-> "invalid_access_token",
   failed |-> "error", malformed |-> "error", stateless |-> "error"]

\* A check for which a resource in any state, or without one, is there.
Presence(check) == [check EXCEPT !.faulty = "healthy", !.stateless = "healthy"]

\* A check that takes any answer for one about the resource.
AnyAnswer(check) ==
  [check EXCEPT !.unlisted = "healthy", !.malformed = "healthy",
                !.stateless = "healthy"]

-----------------------------------------------------------------------------
(* Amazon Web Services: the first checks *)

Aws == Lane
AwsVolume == [Aws EXCEPT !.faulty = "error"]
\* Every request is inside a handler of its own that goes on.
AwsBucket == [answer \in DOMAIN Lane |-> "healthy"]
AwsElasticIp == [Presence(Aws) EXCEPT !.stateless = "detached"]
\* Mutant: the state is not read.
UnreadLoadBalancer == [Aws EXCEPT !.faulty = "healthy", !.stateless = "unknown"]
AwsLoadBalancer == [Aws EXCEPT !.stateless = "unknown"]
\* A classic one has no state: its check tells it "active".
AwsClassicLoadBalancer == Presence(Aws)
AwsSecurityGroup == Presence(Aws)
AwsEcsService == [Aws EXCEPT !.stateless = "unknown"]
AwsEcsTask ==
  [Aws EXCEPT !.absent = "faulty", !.unlisted = "faulty",
              !.malformed = "faulty", !.stateless = "unknown"]
AwsCertificate == Aws

(* Network and compute *)
AwsNetwork == [Aws EXCEPT !.unlisted = "not_found", !.stateless = "healthy"]
AwsAmi == [AwsNetwork EXCEPT !.faulty = "error"]
\* Among them flow logs, ACTIVE whether or not their delivery fails.
AwsRouting == Presence(AwsNetwork)
AwsAttachment == AwsNetwork
AwsInstanceHealth == [AwsNetwork EXCEPT !.stateless = "unknown"]

(* Observability.  The log group's check asks a client for CloudWatch, which
   has no operation that lists log groups. *)
AwsObservability == Aws
AwsAlarm == [AwsObservability EXCEPT !.unlisted = "not_found"]
AwsMetric ==
  [Presence(AwsObservability) EXCEPT !.unlisted = "unknown",
                                     !.stateless = "unknown"]
AwsLogGroup == [answer \in DOMAIN Lane |-> "error"]

(* Edge *)
AwsEdge == [Aws EXCEPT !.stateless = "healthy"]
AwsZone == Presence(AwsEdge)
AwsZoneRecord == [AwsZone EXCEPT !.unlisted = "not_found"]
AwsDistribution == AwsEdge
AwsAccessControl == AwsEdge
AwsWebAcl == AwsEdge
AwsAccelerator == AwsEdge

(* Containers *)
AwsContainers == Aws
AwsRepository == [Presence(AwsContainers) EXCEPT !.unlisted = "not_found"]
\* Mutant: an empty list passes for the image.
AnyImage == [AwsRepository EXCEPT !.unlisted = "healthy"]
AwsImage == AwsRepository
AwsTaskDefinition == [AwsContainers EXCEPT !.stateless = "healthy"]
AwsDeployment == [AwsContainers EXCEPT !.unlisted = "not_found"]
AwsCluster == AwsContainers
AwsAppRunner == AwsContainers

(* Delivery.  An environment is asked for its Status before its Health, and a
   broken one is "Ready" as well. *)
AwsDelivery == [Aws EXCEPT !.stateless = "unknown"]
AwsApplication == [Presence(AwsDelivery) EXCEPT !.unlisted = "not_found"]
AwsEnvironment ==
  [AwsDelivery EXCEPT !.faulty = "healthy", !.unlisted = "not_found"]
AwsProject == [Presence(AwsDelivery) EXCEPT !.unlisted = "not_found"]
AwsBuild == [AwsDelivery EXCEPT !.unlisted = "not_found"]
AwsPipeline == [AwsDelivery EXCEPT !.stateless = "healthy"]
AwsExecution == AwsDelivery

(* Databases and file systems *)
AwsDataServices == [Aws EXCEPT !.unlisted = "not_found", !.denied = "error"]
AwsDatabase == AwsDataServices
AwsSearchDomain ==
  [AwsDataServices EXCEPT !.unlisted = "error", !.stateless = "healthy"]
AwsFileSystem == AwsDataServices

(* Backup *)
AwsBackup == Aws
AwsVault == AnyAnswer(AwsBackup)
AwsPlan == [AwsBackup EXCEPT !.stateless = "healthy"]
AwsRecoveryPoint == AwsBackup
AwsJob == AwsBackup
AwsSnapshot ==
  [AwsBackup EXCEPT !.faulty = "error", !.absent = "gone", !.unlisted = "gone",
                    !.malformed = "gone"]

(* Application services *)
AwsApplicationServices == AnyAnswer(Aws)
AwsRestApi == Presence(AwsApplicationServices)
AwsEventRule == AwsApplicationServices
AwsQueue == Presence(Aws)
AwsStateMachine == AwsApplicationServices
AwsStack == [Aws EXCEPT !.unlisted = "not_found", !.stateless = "unknown"]

(* Secrets and parameters *)
AwsConfiguration == [Aws EXCEPT !.stateless = "healthy"]
AwsSecret == AnyAnswer(AwsConfiguration)
AwsParameter == [Presence(AwsConfiguration) EXCEPT !.unlisted = "not_found"]

(* Lightsail *)
AwsLightsail == [Aws EXCEPT !.stateless = "healthy"]
\* A disk or a snapshot in state "error".
AwsLightsailDisk == [AwsLightsail EXCEPT !.faulty = "error"]
AwsLightsailPresence == Presence(AwsLightsail)
AwsLightsailAddress == [AwsLightsailPresence EXCEPT !.stateless = "detached"]

(* Security: a failed check has a status that alerts. *)
AwsSecurity ==
  [Aws EXCEPT !.absent = "gone", !.unlisted = "faulty",
              !.denied = "provider_error", !.failed = "faulty",
              !.malformed = "faulty", !.stateless = "faulty"]
AwsIdentity == Presence(AwsSecurity)
AwsKey == AwsSecurity
\* An alias whose key is known: it is the key that is asked for.
AwsKeyAlias ==
  [AwsSecurity EXCEPT !.absent = "healthy", !.unlisted = "healthy"]
AwsBareAlias == [AwsSecurity EXCEPT !.unlisted = "gone"]
AwsTrail ==
  [AwsSecurity EXCEPT !.unlisted = "unknown", !.malformed = "unknown",
                      !.stateless = "unknown"]
AwsConfigRule ==
  [AwsSecurity EXCEPT !.unlisted = "gone", !.stateless = "unknown"]
AwsRecorder == [AwsSecurity EXCEPT !.unlisted = "gone"]
AwsDetector == AwsSecurity
AwsSecurityHub == AnyAnswer(AwsSecurity)
AwsInspector == [AwsSecurity EXCEPT !.unlisted = "gone"]
AwsMacie == AwsSecurity
AwsFirewallPolicy == [AwsSecurity EXCEPT !.stateless = "healthy"]

(* Account operations *)
AwsAccount == [Aws EXCEPT !.absent = "gone", !.unlisted = "gone"]
AwsHealthEvent == [AwsAccount EXCEPT !.stateless = "unknown"]
AwsTrustedAdvisor ==
  [AwsAccount EXCEPT !.unlisted = "error", !.stateless = "unknown"]
AwsCostSignal == [Presence(AwsAccount) EXCEPT !.unlisted = "healthy"]
AwsCostMonitor == [AwsAccount EXCEPT !.stateless = "healthy"]
\* Whatever anomaly is listed, the asset is degraded.
AwsCostAnomaly ==
  [AwsAccount EXCEPT !.healthy = "faulty", !.stateless = "faulty"]

-----------------------------------------------------------------------------
(* Linode and UpCloud *)
LinodeServer == Lane
\* Attached if the answer names a server, and detached otherwise.
LinodeVolume ==
  [Lane EXCEPT !.faulty = "healthy", !.unlisted = "detached",
               !.malformed = "detached", !.stateless = "detached"]
UpCloudServer ==
  [Lane EXCEPT !.faulty = "error", !.unlisted = "unknown",
               !.malformed = "unknown", !.stateless = "unknown"]
UpCloudVolume == UpCloudServer

-----------------------------------------------------------------------------
(* Vultr *)
\* Mutant: a request that fails passes for a server that does not run.
UnreachableServer == [Lane EXCEPT !.failed = "faulty"]
VultrServer == Lane
VultrVolume == Lane
VultrBareMetal == [Lane EXCEPT !.stateless = "unknown"]
VultrSnapshot == [Lane EXCEPT !.stateless = "healthy"]
VultrBandwidth == [Presence(Lane) EXCEPT !.unlisted = "unknown"]
\* What no documented request can tell.
Unsupported == [answer \in DOMAIN Lane |-> "unsupported"]
VultrFileSystem == Unsupported
VultrCluster == Lane
VultrNodePool == VultrCluster
VultrObjectStorage == [Lane EXCEPT !.stateless = "healthy"]
VultrRegistryContent == VultrObjectStorage
VultrInference == VultrCluster
VultrPlan == VultrObjectStorage
\* Asked twice, for itself and for its health: one state of the two will do.
VultrLoadBalancer == [Lane EXCEPT !.stateless = "healthy"]
VultrBalancerHealth == [Lane EXCEPT !.stateless = "unknown"]
VultrBalancerConfiguration == Presence(Lane)
VultrDatabase == [Lane EXCEPT !.stateless = "unknown"]
VultrNetwork == [Lane EXCEPT !.stateless = "healthy"]
VultrRule == [Lane EXCEPT !.stateless = "healthy"]
\* Account operations: a request that failed has one status, whatever its code.
VultrAccountFailure == [Lane EXCEPT !.absent = "error", !.denied = "error"]
VultrProfile == [VultrAccountFailure EXCEPT !.stateless = "healthy"]
\* The state of the whole collection, whichever of its members the asset is.
VultrAccountList ==
  [VultrProfile EXCEPT !.absent = "healthy", !.unlisted = "healthy"]
\* ... when the answer is that to a later page.
VultrAccountPages ==
  [VultrAccountList EXCEPT !.denied = "partial", !.failed = "partial",
                           !.malformed = "partial"]
VultrAccountAccess == Unsupported
VultrAction == VultrProfile
VultrStatusPage ==
  [VultrAccountFailure EXCEPT !.unlisted = "healthy", !.malformed = "healthy",
                              !.stateless = "unknown"]

-----------------------------------------------------------------------------
(* Hetzner *)
Hetzner == [Lane EXCEPT !.stateless = "unknown"]
HetznerAddress == [Lane EXCEPT !.stateless = "detached"]
HetznerCatalog == Presence(Lane)
HetznerRecordSet == [Lane EXCEPT !.faulty = "healthy"]
HetznerMetrics ==
  [Lane EXCEPT !.faulty = "healthy", !.unlisted = "unknown",
               !.stateless = "unknown"]
HetznerAction == Hetzner
\* A bucket is asked for with HEAD: the answer has no body.
HetznerBucket == Presence(AnyAnswer(Lane))

-----------------------------------------------------------------------------
(* DigitalOcean.  A state of "error" is passed on as it is. *)
DigitalOceanServer == Lane
DigitalOceanVolume == [Lane EXCEPT !.faulty = "healthy"]
DigitalOceanDatabase == Lane
DigitalOceanSnapshot == [Lane EXCEPT !.faulty = "healthy"]
DigitalOceanBackup == Lane
DigitalOceanReservedIp == [Presence(Lane) EXCEPT !.stateless = "detached"]
DigitalOceanFirewall == Lane
DigitalOceanApp == Lane
DigitalOceanRegistry == Presence(Lane)
DigitalOceanCluster == [Lane EXCEPT !.faulty = "error"]
DigitalOceanNodePool == Lane
DigitalOceanVpc == [Lane EXCEPT !.faulty = "healthy"]
DigitalOceanGateway == Lane
DigitalOceanDomain == Presence(Lane)
DigitalOceanCertificate == [Lane EXCEPT !.faulty = "error"]
DigitalOceanSpace == Presence(AnyAnswer(Lane))

-----------------------------------------------------------------------------
Checks ==
  {Aws, AwsVolume, AwsBucket, AwsElasticIp, AwsLoadBalancer,
   AwsClassicLoadBalancer, AwsSecurityGroup, AwsEcsService, AwsEcsTask,
   AwsCertificate, AwsNetwork, AwsAmi, AwsRouting, AwsAttachment,
   AwsInstanceHealth, AwsAlarm, AwsMetric, AwsLogGroup, AwsEdge, AwsZone,
   AwsZoneRecord, AwsDistribution, AwsAccessControl, AwsWebAcl, AwsAccelerator,
   AwsContainers, AwsRepository, AwsImage, AwsTaskDefinition, AwsDeployment,
   AwsCluster, AwsAppRunner, AwsDelivery, AwsApplication, AwsEnvironment,
   AwsProject, AwsBuild, AwsPipeline, AwsExecution, AwsDataServices,
   AwsDatabase, AwsSearchDomain, AwsFileSystem, AwsBackup, AwsVault, AwsPlan,
   AwsRecoveryPoint, AwsJob, AwsSnapshot, AwsApplicationServices, AwsRestApi,
   AwsEventRule, AwsQueue, AwsStateMachine, AwsStack, AwsSecret, AwsParameter,
   AwsLightsail, AwsLightsailDisk, AwsLightsailPresence, AwsLightsailAddress,
   AwsSecurity, AwsIdentity, AwsKey, AwsKeyAlias, AwsBareAlias, AwsTrail,
   AwsConfigRule, AwsRecorder, AwsDetector, AwsSecurityHub, AwsInspector,
   AwsMacie, AwsFirewallPolicy, AwsAccount, AwsHealthEvent, AwsTrustedAdvisor,
   AwsCostSignal, AwsCostMonitor, AwsCostAnomaly, LinodeServer, LinodeVolume,
   UpCloudServer, UpCloudVolume, VultrServer, VultrVolume, VultrBareMetal,
   VultrSnapshot, VultrBandwidth, VultrFileSystem, VultrCluster, VultrNodePool,
   VultrObjectStorage, VultrRegistryContent, VultrInference, VultrPlan,
   VultrLoadBalancer, VultrBalancerHealth, VultrBalancerConfiguration,
   VultrDatabase, VultrNetwork, VultrRule, VultrProfile, VultrAccountList,
   VultrAccountPages, VultrAccountAccess, VultrAction, VultrStatusPage,
   Hetzner, HetznerAddress, HetznerCatalog, HetznerRecordSet, HetznerMetrics,
   HetznerAction, HetznerBucket, DigitalOceanServer, DigitalOceanVolume,
   DigitalOceanDatabase, DigitalOceanSnapshot, DigitalOceanBackup,
   DigitalOceanReservedIp, DigitalOceanFirewall, DigitalOceanApp,
   DigitalOceanRegistry, DigitalOceanCluster, DigitalOceanNodePool,
   DigitalOceanVpc, DigitalOceanGateway, DigitalOceanDomain,
   DigitalOceanCertificate, DigitalOceanSpace}
=============================================================================
