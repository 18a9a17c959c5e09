-------------------------- MODULE CheckOutcomesProofs --------------------------
(***************************************************************************)
(* Proofs about CheckOutcomes, for every check of every provider and any   *)
(* bounds: what the table of CheckAdapters says of each group of checks    *)
(* (the first part, check by check), that the composition implements the   *)
(* specification of StatusTimeline, and what follows for an asset that is  *)
(* checked by one of them.                                                 *)
(***************************************************************************)
EXTENDS CheckOutcomes, StatusTimelineProofs

-----------------------------------------------------------------------------
(* What the checks make of the answers *)

Kinds == {"healthy", "faulty", "absent", "unlisted",
          "denied", "failed", "malformed", "stateless"}

\* What is no answer becomes a diagnostic, and so does, if the check is Firm,
\* an answer with nothing about the resource.
Silent(c) == c.denied \in Diagnostics /\ c.failed \in Diagnostics
Firm(c) == Silent(c) /\ c.malformed \in Diagnostics

\* Without the resource there is no status of a working one, nor is there, if
\* the check is Wary, without a word about it.
Sober(c) ==
  c.absent \notin Working /\ c.denied \notin Working /\ c.failed \notin Working
Wary(c) ==
  Sober(c) /\ c.unlisted \notin Working /\ c.malformed \notin Working

\* A broken resource has a status of its own, and no answer but that of a
\* working one passes for it.
Attentive(c) ==
  /\ c.faulty \notin Diagnostics /\ c.faulty \notin Working
  /\ c.unlisted \notin Working /\ c.stateless \notin Working
  /\ c.denied \notin Working /\ c.failed \notin Working
  /\ c.malformed \notin Working

LEMMA Words ==
  /\ {"invalid_access_token", "error", "not_found", "unsupported"}
       \subseteq Diagnostics
  /\ "healthy" \notin Diagnostics /\ "faulty" \notin Diagnostics
  /\ Diagnostics \cap Working = {}
  /\ {"faulty", "gone", "unknown", "partial", "provider_error"} \cap Working = {}
BY DEF Diagnostics, Working

LEMMA LaneIs ==
  /\ Lane = [k \in Kinds |-> Lane[k]]
  /\ Lane.healthy = "healthy" /\ Lane.faulty = "faulty"
  /\ Lane.absent = "not_found" /\ Lane.unlisted = "error"
  /\ Lane.denied = "invalid_access_token" /\ Lane.failed = "error"
  /\ Lane.malformed = "error" /\ Lane.stateless = "error"
BY DEF Lane, Kinds

LEMMA SilentChecks ==
  \A c \in Checks \ Alarming : Silent(c) /\ (c \notin Credulous => Firm(c))
<1>1. /\ Firm(Aws) /\ Firm(AwsVolume) /\ Firm(AwsElasticIp)
      /\ Firm(AwsLoadBalancer) /\ Firm(AwsClassicLoadBalancer)
      /\ Firm(AwsSecurityGroup) /\ Firm(AwsEcsService) /\ Silent(AwsEcsTask)
      /\ Firm(AwsCertificate)
  BY LaneIs, Words DEF Firm, Silent, Kinds, Aws, AwsVolume, AwsElasticIp,
                       Presence, AwsLoadBalancer, AwsClassicLoadBalancer,
                       AwsSecurityGroup, AwsEcsService, AwsEcsTask,
                       AwsCertificate
<1>2. /\ Firm(AwsNetwork) /\ Firm(AwsAmi) /\ Firm(AwsRouting)
      /\ Firm(AwsAttachment) /\ Firm(AwsInstanceHealth)
  BY LaneIs, Words DEF Firm, Silent, Kinds, AwsNetwork, Aws, AwsAmi, AwsRouting,
                       Presence, AwsAttachment, AwsInstanceHealth
<1>3. /\ Firm(AwsAlarm) /\ Firm(AwsMetric) /\ Firm(AwsLogGroup)
  BY LaneIs, Words DEF Firm, Silent, Kinds, AwsAlarm, AwsObservability, Aws,
                       AwsMetric, Presence, AwsLogGroup
<1>4. /\ Firm(AwsEdge) /\ Firm(AwsZone) /\ Firm(AwsZoneRecord)
      /\ Firm(AwsDistribution) /\ Firm(AwsAccessControl) /\ Firm(AwsWebAcl)
      /\ Firm(AwsAccelerator)
  BY LaneIs, Words DEF Firm, Silent, Kinds, AwsEdge, Aws, AwsZone, Presence,
                       AwsZoneRecord, AwsDistribution, AwsAccessControl,
                       AwsWebAcl, AwsAccelerator
<1>5. /\ Firm(AwsContainers) /\ Firm(AwsRepository) /\ Firm(AwsImage)
      /\ Firm(AwsTaskDefinition) /\ Firm(AwsDeployment) /\ Firm(AwsCluster)
      /\ Firm(AwsAppRunner)
  BY LaneIs, Words DEF Firm, Silent, Kinds, AwsContainers, Aws, AwsRepository,
                       Presence, AwsImage, AwsTaskDefinition, AwsDeployment,
                       AwsCluster, AwsAppRunner
<1>6. /\ Firm(AwsDelivery) /\ Firm(AwsApplication) /\ Firm(AwsEnvironment)
      /\ Firm(AwsProject) /\ Firm(AwsBuild) /\ Firm(AwsPipeline)
      /\ Firm(AwsExecution)
  BY LaneIs, Words DEF Firm, Silent, Kinds, AwsDelivery, Aws, AwsApplication,
                       Presence, AwsEnvironment, AwsProject, AwsBuild,
                       AwsPipeline, AwsExecution
<1>7. /\ Firm(AwsDataServices) /\ Firm(AwsDatabase) /\ Firm(AwsSearchDomain)
      /\ Firm(AwsFileSystem)
  BY LaneIs, Words DEF Firm, Silent, Kinds, AwsDataServices, Aws, AwsDatabase,
                       AwsSearchDomain, AwsFileSystem
<1>8. /\ Firm(AwsBackup) /\ Silent(AwsVault) /\ Firm(AwsPlan)
      /\ Firm(AwsRecoveryPoint) /\ Firm(AwsJob) /\ Silent(AwsSnapshot)
  BY LaneIs, Words DEF Firm, Silent, Kinds, AwsBackup, Aws, AwsVault, AnyAnswer,
                       AwsPlan, AwsRecoveryPoint, AwsJob, AwsSnapshot
<1>9. /\ Silent(AwsApplicationServices) /\ Silent(AwsRestApi)
      /\ Silent(AwsEventRule) /\ Firm(AwsQueue) /\ Silent(AwsStateMachine)
      /\ Firm(AwsStack)
  BY LaneIs, Words DEF Silent, Firm, Kinds, AwsApplicationServices, AnyAnswer,
                       Aws, AwsRestApi, Presence, AwsEventRule, AwsQueue,
                       AwsStateMachine, AwsStack
<1>10. /\ Silent(AwsSecret) /\ Firm(AwsParameter)
  BY LaneIs, Words DEF Silent, Firm, Kinds, AwsSecret, AnyAnswer,
                       AwsConfiguration, Aws, AwsParameter, Presence
<1>11. /\ Firm(AwsLightsail) /\ Firm(AwsLightsailDisk)
       /\ Firm(AwsLightsailPresence) /\ Firm(AwsLightsailAddress)
  BY LaneIs, Words DEF Firm, Silent, Kinds, AwsLightsail, Aws, AwsLightsailDisk,
                       AwsLightsailPresence, Presence, AwsLightsailAddress
<1>12. /\ Firm(AwsAccount) /\ Firm(AwsHealthEvent) /\ Firm(AwsTrustedAdvisor)
       /\ Firm(AwsCostSignal) /\ Firm(AwsCostMonitor) /\ Firm(AwsCostAnomaly)
  BY LaneIs, Words DEF Firm, Silent, Kinds, AwsAccount, Aws, AwsHealthEvent,
                       AwsTrustedAdvisor, AwsCostSignal, Presence,
                       AwsCostMonitor, AwsCostAnomaly
<1>13. /\ Firm(LinodeServer) /\ Silent(LinodeVolume) /\ Silent(UpCloudServer)
       /\ Silent(UpCloudVolume)
  BY LaneIs, Words DEF Firm, Silent, Kinds, LinodeServer, LinodeVolume,
                       UpCloudServer, UpCloudVolume
<1>14. /\ Firm(VultrServer) /\ Firm(VultrVolume) /\ Firm(VultrBareMetal)
       /\ Firm(VultrSnapshot) /\ Firm(VultrBandwidth) /\ Firm(VultrFileSystem)
       /\ Firm(VultrCluster) /\ Firm(VultrNodePool)
       /\ Firm(VultrObjectStorage) /\ Firm(VultrRegistryContent)
  BY LaneIs, Words DEF Firm, Silent, Kinds, VultrServer, VultrVolume,
                       VultrBareMetal, VultrSnapshot, VultrBandwidth, Presence,
                       VultrFileSystem, Unsupported, VultrCluster,
                       VultrNodePool, VultrObjectStorage, VultrRegistryContent
<1>15. /\ Firm(VultrInference) /\ Firm(VultrPlan) /\ Firm(VultrLoadBalancer)
       /\ Firm(VultrBalancerHealth) /\ Firm(VultrBalancerConfiguration)
       /\ Firm(VultrDatabase) /\ Firm(VultrNetwork) /\ Firm(VultrRule)
       /\ Firm(VultrProfile) /\ Firm(VultrAccountList)
  BY LaneIs, Words DEF Firm, Silent, Kinds, VultrInference, VultrCluster,
                       VultrPlan, VultrObjectStorage, VultrLoadBalancer,
                       VultrBalancerHealth, VultrBalancerConfiguration,
                       Presence, VultrDatabase, VultrNetwork, VultrRule,
                       VultrProfile, VultrAccountFailure, VultrAccountList
<1>16. /\ Firm(VultrAccountAccess) /\ Firm(VultrAction)
       /\ Silent(VultrStatusPage)
  BY LaneIs, Words DEF Firm, Silent, Kinds, VultrAccountAccess, Unsupported,
                       VultrAction, VultrProfile, VultrAccountFailure,
                       VultrStatusPage
<1>17. /\ Firm(Hetzner) /\ Firm(HetznerAddress) /\ Firm(HetznerCatalog)
       /\ Firm(HetznerRecordSet) /\ Firm(HetznerMetrics)
       /\ Firm(HetznerAction) /\ Silent(HetznerBucket)
  BY LaneIs, Words DEF Firm, Silent, Kinds, Hetzner, HetznerAddress,
                       HetznerCatalog, Presence, HetznerRecordSet,
                       HetznerMetrics, HetznerAction, HetznerBucket, AnyAnswer
<1>18. /\ Firm(DigitalOceanServer) /\ Firm(DigitalOceanVolume)
       /\ Firm(DigitalOceanDatabase) /\ Firm(DigitalOceanSnapshot)
       /\ Firm(DigitalOceanBackup) /\ Firm(DigitalOceanReservedIp)
       /\ Firm(DigitalOceanFirewall) /\ Firm(DigitalOceanApp)
       /\ Firm(DigitalOceanRegistry) /\ Firm(DigitalOceanCluster)
  BY LaneIs, Words DEF Firm, Silent, Kinds, DigitalOceanServer,
                       DigitalOceanVolume, DigitalOceanDatabase,
                       DigitalOceanSnapshot, DigitalOceanBackup,
                       DigitalOceanReservedIp, Presence, DigitalOceanFirewall,
                       DigitalOceanApp, DigitalOceanRegistry,
                       DigitalOceanCluster
<1>19. /\ Firm(DigitalOceanNodePool) /\ Firm(DigitalOceanVpc)
       /\ Firm(DigitalOceanGateway) /\ Firm(DigitalOceanDomain)
       /\ Firm(DigitalOceanCertificate) /\ Silent(DigitalOceanSpace)
  BY LaneIs, Words DEF Firm, Silent, Kinds, DigitalOceanNodePool,
                       DigitalOceanVpc, DigitalOceanGateway, DigitalOceanDomain,
                       Presence, DigitalOceanCertificate, DigitalOceanSpace,
                       AnyAnswer
<1>20. \A c : Firm(c) => Silent(c)
  BY DEF Firm
<1> QED BY <1>1, <1>2, <1>3, <1>4, <1>5, <1>6, <1>7, <1>8, <1>9, <1>10, <1>11,
           <1>12, <1>13, <1>14, <1>15, <1>16, <1>17, <1>18, <1>19, <1>20
  DEF Checks, Alarming, Credulous

LEMMA SoberChecks ==
  \A c \in Checks \ Collective : Sober(c) /\ (c \notin Credulous => Wary(c))
<1>1. /\ Wary(Aws) /\ Wary(AwsVolume) /\ Wary(AwsElasticIp)
      /\ Wary(AwsLoadBalancer) /\ Wary(AwsClassicLoadBalancer)
      /\ Wary(AwsSecurityGroup) /\ Wary(AwsEcsService) /\ Sober(AwsEcsTask)
      /\ Wary(AwsCertificate)
  BY LaneIs, Words DEF Wary, Sober, Kinds, Aws, AwsVolume, AwsElasticIp,
                       Presence, AwsLoadBalancer, AwsClassicLoadBalancer,
                       AwsSecurityGroup, AwsEcsService, AwsEcsTask,
                       AwsCertificate
<1>2. /\ Wary(AwsNetwork) /\ Wary(AwsAmi) /\ Wary(AwsRouting)
      /\ Wary(AwsAttachment) /\ Wary(AwsInstanceHealth)
  BY LaneIs, Words DEF Wary, Sober, Kinds, AwsNetwork, Aws, AwsAmi, AwsRouting,
                       Presence, AwsAttachment, AwsInstanceHealth
<1>3. /\ Wary(AwsAlarm) /\ Wary(AwsMetric) /\ Wary(AwsLogGroup)
  BY LaneIs, Words DEF Wary, Sober, Kinds, AwsAlarm, AwsObservability, Aws,
                       AwsMetric, Presence, AwsLogGroup
<1>4. /\ Wary(AwsEdge) /\ Wary(AwsZone) /\ Wary(AwsZoneRecord)
      /\ Wary(AwsDistribution) /\ Wary(AwsAccessControl) /\ Wary(AwsWebAcl)
      /\ Wary(AwsAccelerator)
  BY LaneIs, Words DEF Wary, Sober, Kinds, AwsEdge, Aws, AwsZone, Presence,
                       AwsZoneRecord, AwsDistribution, AwsAccessControl,
                       AwsWebAcl, AwsAccelerator
<1>5. /\ Wary(AwsContainers) /\ Wary(AwsRepository) /\ Wary(AwsImage)
      /\ Wary(AwsTaskDefinition) /\ Wary(AwsDeployment) /\ Wary(AwsCluster)
      /\ Wary(AwsAppRunner)
  BY LaneIs, Words DEF Wary, Sober, Kinds, AwsContainers, Aws, AwsRepository,
                       Presence, AwsImage, AwsTaskDefinition, AwsDeployment,
                       AwsCluster, AwsAppRunner
<1>6. /\ Wary(AwsDelivery) /\ Wary(AwsApplication) /\ Wary(AwsEnvironment)
      /\ Wary(AwsProject) /\ Wary(AwsBuild) /\ Wary(AwsPipeline)
      /\ Wary(AwsExecution)
  BY LaneIs, Words DEF Wary, Sober, Kinds, AwsDelivery, Aws, AwsApplication,
                       Presence, AwsEnvironment, AwsProject, AwsBuild,
                       AwsPipeline, AwsExecution
<1>7. /\ Wary(AwsDataServices) /\ Wary(AwsDatabase) /\ Wary(AwsSearchDomain)
      /\ Wary(AwsFileSystem)
  BY LaneIs, Words DEF Wary, Sober, Kinds, AwsDataServices, Aws, AwsDatabase,
                       AwsSearchDomain, AwsFileSystem
<1>8. /\ Wary(AwsBackup) /\ Sober(AwsVault) /\ Wary(AwsPlan)
      /\ Wary(AwsRecoveryPoint) /\ Wary(AwsJob) /\ Sober(AwsSnapshot)
  BY LaneIs, Words DEF Wary, Sober, Kinds, AwsBackup, Aws, AwsVault, AnyAnswer,
                       AwsPlan, AwsRecoveryPoint, AwsJob, AwsSnapshot
<1>9. /\ Sober(AwsApplicationServices) /\ Sober(AwsRestApi)
      /\ Sober(AwsEventRule) /\ Wary(AwsQueue) /\ Sober(AwsStateMachine)
      /\ Wary(AwsStack)
  BY LaneIs, Words DEF Sober, Wary, Kinds, AwsApplicationServices, AnyAnswer,
                       Aws, AwsRestApi, Presence, AwsEventRule, AwsQueue,
                       AwsStateMachine, AwsStack
<1>10. /\ Sober(AwsSecret) /\ Wary(AwsParameter)
  BY LaneIs, Words DEF Sober, Wary, Kinds, AwsSecret, AnyAnswer,
                       AwsConfiguration, Aws, AwsParameter, Presence
<1>11. /\ Wary(AwsLightsail) /\ Wary(AwsLightsailDisk)
       /\ Wary(AwsLightsailPresence) /\ Wary(AwsLightsailAddress)
  BY LaneIs, Words DEF Wary, Sober, Kinds, AwsLightsail, Aws, AwsLightsailDisk,
                       AwsLightsailPresence, Presence, AwsLightsailAddress
<1>12. /\ Wary(AwsSecurity) /\ Wary(AwsIdentity) /\ Wary(AwsKey)
       /\ Wary(AwsBareAlias) /\ Wary(AwsTrail) /\ Wary(AwsConfigRule)
       /\ Wary(AwsRecorder) /\ Wary(AwsDetector) /\ Sober(AwsSecurityHub)
  BY LaneIs, Words DEF Wary, Sober, Kinds, AwsSecurity, Aws, AwsIdentity,
                       Presence, AwsKey, AwsBareAlias, AwsTrail, AwsConfigRule,
                       AwsRecorder, AwsDetector, AwsSecurityHub, AnyAnswer
<1>13. /\ Wary(AwsInspector) /\ Wary(AwsMacie) /\ Wary(AwsFirewallPolicy)
  BY LaneIs, Words DEF Wary, Sober, Kinds, AwsInspector, AwsSecurity, Aws,
                       AwsMacie, AwsFirewallPolicy
<1>14. /\ Wary(AwsAccount) /\ Wary(AwsHealthEvent) /\ Wary(AwsTrustedAdvisor)
       /\ Wary(AwsCostMonitor) /\ Wary(AwsCostAnomaly)
  BY LaneIs, Words DEF Wary, Sober, Kinds, AwsAccount, Aws, AwsHealthEvent,
                       AwsTrustedAdvisor, AwsCostMonitor, AwsCostAnomaly
<1>15. /\ Wary(LinodeServer) /\ Sober(LinodeVolume) /\ Sober(UpCloudServer)
       /\ Sober(UpCloudVolume)
  BY LaneIs, Words DEF Wary, Sober, Kinds, LinodeServer, LinodeVolume,
                       UpCloudServer, UpCloudVolume
<1>16. /\ Wary(VultrServer) /\ Wary(VultrVolume) /\ Wary(VultrBareMetal)
       /\ Wary(VultrSnapshot) /\ Wary(VultrBandwidth) /\ Wary(VultrFileSystem)
       /\ Wary(VultrCluster) /\ Wary(VultrNodePool)
       /\ Wary(VultrObjectStorage) /\ Wary(VultrRegistryContent)
  BY LaneIs, Words DEF Wary, Sober, Kinds, VultrServer, VultrVolume,
                       VultrBareMetal, VultrSnapshot, VultrBandwidth, Presence,
                       VultrFileSystem, Unsupported, VultrCluster,
                       VultrNodePool, VultrObjectStorage, VultrRegistryContent
<1>17. /\ Wary(VultrInference) /\ Wary(VultrPlan) /\ Wary(VultrLoadBalancer)
       /\ Wary(VultrBalancerHealth) /\ Wary(VultrBalancerConfiguration)
       /\ Wary(VultrDatabase) /\ Wary(VultrNetwork) /\ Wary(VultrRule)
       /\ Wary(VultrProfile)
  BY LaneIs, Words DEF Wary, Sober, Kinds, VultrInference, VultrCluster,
                       VultrPlan, VultrObjectStorage, VultrLoadBalancer,
                       VultrBalancerHealth, VultrBalancerConfiguration,
                       Presence, VultrDatabase, VultrNetwork, VultrRule,
                       VultrProfile, VultrAccountFailure
<1>18. /\ Wary(VultrAccountAccess) /\ Wary(VultrAction)
  BY LaneIs, Words DEF Wary, Sober, Kinds, VultrAccountAccess, Unsupported,
                       VultrAction, VultrProfile, VultrAccountFailure
<1>19. /\ Wary(Hetzner) /\ Wary(HetznerAddress) /\ Wary(HetznerCatalog)
       /\ Wary(HetznerRecordSet) /\ Wary(HetznerMetrics)
       /\ Wary(HetznerAction) /\ Sober(HetznerBucket)
  BY LaneIs, Words DEF Wary, Sober, Kinds, Hetzner, HetznerAddress,
                       HetznerCatalog, Presence, HetznerRecordSet,
                       HetznerMetrics, HetznerAction, HetznerBucket, AnyAnswer
<1>20. /\ Wary(DigitalOceanServer) /\ Wary(DigitalOceanVolume)
       /\ Wary(DigitalOceanDatabase) /\ Wary(DigitalOceanSnapshot)
       /\ Wary(DigitalOceanBackup) /\ Wary(DigitalOceanReservedIp)
       /\ Wary(DigitalOceanFirewall) /\ Wary(DigitalOceanApp)
       /\ Wary(DigitalOceanRegistry) /\ Wary(DigitalOceanCluster)
  BY LaneIs, Words DEF Wary, Sober, Kinds, DigitalOceanServer,
                       DigitalOceanVolume, DigitalOceanDatabase,
                       DigitalOceanSnapshot, DigitalOceanBackup,
                       DigitalOceanReservedIp, Presence, DigitalOceanFirewall,
                       DigitalOceanApp, DigitalOceanRegistry,
                       DigitalOceanCluster
<1>21. /\ Wary(DigitalOceanNodePool) /\ Wary(DigitalOceanVpc)
       /\ Wary(DigitalOceanGateway) /\ Wary(DigitalOceanDomain)
       /\ Wary(DigitalOceanCertificate) /\ Sober(DigitalOceanSpace)
  BY LaneIs, Words DEF Wary, Sober, Kinds, DigitalOceanNodePool,
                       DigitalOceanVpc, DigitalOceanGateway, DigitalOceanDomain,
                       Presence, DigitalOceanCertificate, DigitalOceanSpace,
                       AnyAnswer
<1>22. \A c : Wary(c) => Sober(c)
  BY DEF Wary
<1> QED BY <1>1, <1>2, <1>3, <1>4, <1>5, <1>6, <1>7, <1>8, <1>9, <1>10, <1>11,
           <1>12, <1>13, <1>14, <1>15, <1>16, <1>17, <1>18, <1>19, <1>20,
           <1>21, <1>22
  DEF Checks, Collective, Credulous

LEMMA AttentiveChecks ==
  \A c \in Checks \ Inattentive : Attentive(c)
<1>1. /\ Attentive(Aws) /\ Attentive(AwsLoadBalancer)
      /\ Attentive(AwsEcsService) /\ Attentive(AwsEcsTask)
      /\ Attentive(AwsCertificate)
  BY LaneIs, Words DEF Attentive, Kinds, Aws, AwsLoadBalancer, AwsEcsService,
                       AwsEcsTask, AwsCertificate
<1>2. Attentive(AwsInstanceHealth)
  BY LaneIs, Words DEF Attentive, Kinds, AwsInstanceHealth, AwsNetwork, Aws
<1>3. Attentive(AwsAlarm)
  BY LaneIs, Words DEF Attentive, Kinds, AwsAlarm, AwsObservability, Aws
<1>4. /\ Attentive(AwsContainers) /\ Attentive(AwsDeployment)
      /\ Attentive(AwsCluster) /\ Attentive(AwsAppRunner)
  BY LaneIs, Words DEF Attentive, Kinds, AwsContainers, Aws, AwsDeployment,
                       AwsCluster, AwsAppRunner
<1>5. /\ Attentive(AwsDelivery) /\ Attentive(AwsBuild)
      /\ Attentive(AwsExecution)
  BY LaneIs, Words DEF Attentive, Kinds, AwsDelivery, Aws, AwsBuild,
                       AwsExecution
<1>6. /\ Attentive(AwsDataServices) /\ Attentive(AwsDatabase)
      /\ Attentive(AwsFileSystem)
  BY LaneIs, Words DEF Attentive, Kinds, AwsDataServices, Aws, AwsDatabase,
                       AwsFileSystem
<1>7. /\ Attentive(AwsBackup) /\ Attentive(AwsRecoveryPoint)
      /\ Attentive(AwsJob)
  BY LaneIs, Words DEF Attentive, Kinds, AwsBackup, Aws, AwsRecoveryPoint,
                       AwsJob
<1>8. Attentive(AwsStack)
  BY LaneIs, Words DEF Attentive, Kinds, AwsStack, Aws
<1>9. /\ Attentive(AwsSecurity) /\ Attentive(AwsKey)
      /\ Attentive(AwsBareAlias) /\ Attentive(AwsTrail)
      /\ Attentive(AwsConfigRule) /\ Attentive(AwsRecorder)
      /\ Attentive(AwsDetector)
  BY LaneIs, Words DEF Attentive, Kinds, AwsSecurity, Aws, AwsKey, AwsBareAlias,
                       AwsTrail, AwsConfigRule, AwsRecorder, AwsDetector
<1>10. /\ Attentive(AwsInspector) /\ Attentive(AwsMacie)
  BY LaneIs, Words DEF Attentive, Kinds, AwsInspector, AwsSecurity, Aws,
                       AwsMacie
<1>11. /\ Attentive(AwsAccount) /\ Attentive(AwsHealthEvent)
       /\ Attentive(AwsTrustedAdvisor) /\ Attentive(AwsCostAnomaly)
  BY LaneIs, Words DEF Attentive, Kinds, AwsAccount, Aws, AwsHealthEvent,
                       AwsTrustedAdvisor, AwsCostAnomaly
<1>12. Attentive(LinodeServer)
  BY LaneIs, Words DEF Attentive, Kinds, LinodeServer
<1>13. /\ Attentive(VultrServer) /\ Attentive(VultrVolume)
       /\ Attentive(VultrBareMetal) /\ Attentive(VultrCluster)
       /\ Attentive(VultrNodePool)
  BY LaneIs, Words DEF Attentive, Kinds, VultrServer, VultrVolume,
                       VultrBareMetal, VultrCluster, VultrNodePool
<1>14. /\ Attentive(VultrInference) /\ Attentive(VultrBalancerHealth)
       /\ Attentive(VultrDatabase)
  BY LaneIs, Words DEF Attentive, Kinds, VultrInference, VultrCluster,
                       VultrBalancerHealth, VultrDatabase
<1>15. /\ Attentive(Hetzner) /\ Attentive(HetznerAction)
  BY LaneIs, Words DEF Attentive, Kinds, Hetzner, HetznerAction
<1>16. /\ Attentive(DigitalOceanServer) /\ Attentive(DigitalOceanDatabase)
       /\ Attentive(DigitalOceanBackup) /\ Attentive(DigitalOceanFirewall)
       /\ Attentive(DigitalOceanApp)
  BY LaneIs, Words DEF Attentive, Kinds, DigitalOceanServer,
                       DigitalOceanDatabase, DigitalOceanBackup,
                       DigitalOceanFirewall, DigitalOceanApp
<1>17. /\ Attentive(DigitalOceanNodePool) /\ Attentive(DigitalOceanGateway)
  BY LaneIs, Words DEF Attentive, Kinds, DigitalOceanNodePool,
                       DigitalOceanGateway
<1> QED BY <1>1, <1>2, <1>3, <1>4, <1>5, <1>6, <1>7, <1>8, <1>9, <1>10, <1>11,
           <1>12, <1>13, <1>14, <1>15, <1>16, <1>17
  DEF Checks, Inattentive, Existence, Blind, Optimistic, Collective

-----------------------------------------------------------------------------
(* The composition *)

LEMMA Answers == DOMAIN Lane = Kinds
BY LaneIs

\* The status that is known after a check.
LEMMA ResultKnown ==
  ASSUME LogTypes, check \in Checks, NEW a \in Kinds, Result(a)
  PROVE  /\ Next
         /\ check[a] \in Diagnostics => KnownStatus' = KnownStatus
         /\ check[a] \notin Diagnostics =>
              check[a] \in Statuses /\ KnownStatus' = check[a]
<1>1. check[a] \in Statuses \cup Diagnostics
  BY OutcomesAssumption, Answers
<1>2. CASE check[a] \in Diagnostics /\ Fail
  <2>1. KnownStatus' = KnownStatus
    BY <1>2, FailChecked, KnownAfter
  <2> QED BY <1>2, <2>1 DEF Next
<1>3. CASE check[a] \notin Diagnostics /\ \E moved \in BOOLEAN : Observe(check[a], moved)
  <2>1. check[a] \in Statuses
    BY <1>1, <1>3
  <2>2. KnownStatus' = check[a]
    BY <1>3, <2>1, ObserveChecked, KnownAfter
  <2> QED BY <1>3, <2>1, <2>2 DEF Next
<1> QED BY <1>2, <1>3 DEF Result

\* What stays or is known, without a check.
LEMMA NoCheck ==
  ASSUME Read \/ Change \/ UNCHANGED outcomeVars
  PROVE  /\ [Next]_vars
         /\ UNCHANGED <<log, failing, history, check, clear>>
         /\ KnownStatus' = KnownStatus
<1>1. UNCHANGED <<log, failing, history, check, clear>> /\ (Turn \/ UNCHANGED vars)
  BY DEF Read, Change, outcomeVars, vars, Turn
<1>2. KnownStatus' = KnownStatus
  <2>1. LastStatus' = LastStatus
    BY <1>1 DEF LastStatus, SelectLastInSeq
  <2> QED BY <1>1, <2>1 DEF KnownStatus
<1> QED BY <1>1, <1>2 DEF Next

OutcomeTypes ==
  /\ check \in Checks
  /\ condition \in Conditions
  /\ clear \in Conditions \cup {"none"}
  /\ changes \in 0..MaxChanges
  /\ faults \in 0..MaxFaults

\* An outage that a check has seen is known until a proper answer shows that
\* it is over.
OutageKnown ==
  clear = "faulty" /\ check \notin Inattentive =>
    KnownStatus \notin Working \cup {Error}

OutcomesInv == TimelineInv /\ OutcomeTypes /\ OutageKnown

LEMMA InitOutcomes == OutcomesInit => OutcomesInv
<1> SUFFICES ASSUME OutcomesInit PROVE OutcomesInv OBVIOUS
<1>1. TimelineInv
  BY InitLog, InitReader DEF OutcomesInit, TimelineInv
<1>2. MaxChanges \in Nat /\ MaxFaults \in Nat
  BY OutcomesAssumption
<1>3. OutcomeTypes
  BY <1>2 DEF OutcomesInit, OutcomeTypes
<1>4. OutageKnown
  BY DEF OutcomesInit, OutageKnown
<1> QED BY <1>1, <1>3, <1>4 DEF OutcomesInv

LEMMA NextOutcomes == OutcomesInv /\ [OutcomesNext]_outcomeVars => OutcomesInv' /\ [Next]_vars
<1> SUFFICES ASSUME OutcomesInv, [OutcomesNext]_outcomeVars
             PROVE  OutcomesInv' /\ [Next]_vars
  OBVIOUS
<1>1. MaxChanges \in Nat /\ MaxFaults \in Nat
  BY OutcomesAssumption
<1>2. LogTypes /\ OutcomeTypes /\ OutageKnown
  BY DEF OutcomesInv, TimelineInv, LogInv
<1>3. ASSUME NEW a \in Kinds, Answer(a), Result(a)
      PROVE  OutcomesInv' /\ [Next]_vars
  <2>1. /\ Next
        /\ check[a] \in Diagnostics => KnownStatus' = KnownStatus
        /\ check[a] \notin Diagnostics =>
             check[a] \in Statuses /\ KnownStatus' = check[a]
    BY <1>2, <1>3, ResultKnown DEF OutcomeTypes
  <2>2. TimelineInv'
    BY <2>1, NextTimeline DEF OutcomesInv
  <2>3. OutcomeTypes'
    BY <1>1, <1>2, <1>3 DEF OutcomeTypes, Answer
  <2>4. OutageKnown'
    <3> SUFFICES ASSUME clear' = "faulty", check \notin Inattentive
                 PROVE  KnownStatus' \notin Working \cup {Error}
      BY <1>3 DEF OutageKnown, Answer
    <3>1. Attentive(check)
      BY <1>2, AttentiveChecks DEF OutcomeTypes
    <3>2. CASE a \in Proper /\ clear' = condition
      <4>1. a = "faulty"
        BY <3>2 DEF Proper
      <4>2. /\ check[a] \in Statuses /\ check[a] \notin Working
            /\ KnownStatus' = check[a]
        BY <2>1, <3>1, <4>1 DEF Attentive
      <4> QED BY <4>2, TimelineAssumption
    <3>3. CASE a \in Faults /\ clear' = clear
      <4>1. check[a] \notin Working
        BY <3>1, <3>3 DEF Attentive, Faults, Failures
      <4>2. KnownStatus \notin Working \cup {Error}
        BY <1>2, <3>3 DEF OutageKnown
      <4>3. Error \notin Statuses
        BY TimelineAssumption
      <4> QED BY <2>1, <4>1, <4>2, <4>3
    <3> QED BY <1>3, <3>2, <3>3 DEF Answer
  <2> QED BY <2>1, <2>2, <2>3, <2>4 DEF OutcomesInv
<1>4. CASE Read \/ Change \/ UNCHANGED outcomeVars
  <2>1. /\ [Next]_vars /\ UNCHANGED <<check, clear>>
        /\ KnownStatus' = KnownStatus
    BY <1>4, NoCheck
  <2>2. TimelineInv'
    BY <2>1, NextTimeline DEF OutcomesInv
  <2>3. OutcomeTypes'
    BY <1>1, <1>2, <1>4 DEF OutcomeTypes, Read, Change, outcomeVars
  <2>4. OutageKnown'
    BY <1>2, <2>1 DEF OutageKnown
  <2> QED BY <2>1, <2>2, <2>3, <2>4 DEF OutcomesInv
<1> QED BY <1>3, <1>4, Answers DEF OutcomesNext, Check

LEMMA OutcomesInvariant == OutcomesSpec => []OutcomesInv
<1> QED BY InitOutcomes, NextOutcomes, PTL DEF OutcomesSpec

-----------------------------------------------------------------------------
(* The theorems *)

\* Every behaviour of an asset that is checked is one of the timeline's: a check
\* records a status or fails, turns of pages are turns of pages, and a change
\* of the resource is not seen.  What StatusTimelineProofs shows holds of it.
THEOREM OutcomesImplementTimeline == OutcomesSpec => Spec
<1>1. OutcomesInit => Init
  BY DEF OutcomesInit
<1> QED BY <1>1, OutcomesInvariant, NextOutcomes, PTL DEF OutcomesSpec, Spec

\* Types of the composition, among them those of the log and of the reader.
THEOREM OutcomesTypeCorrect == OutcomesSpec => []OutcomesTypeOK
<1>1. OutcomesInv => OutcomesTypeOK
  BY DEF OutcomesInv, TimelineInv, LogInv, LogTypes, ReaderInv, TypeOK,
         OutcomeTypes, OutcomesTypeOK
<1> QED BY <1>1, OutcomesInvariant, PTL

\* Whatever a provider outage, revoked credentials or a body of another shape
\* make of a check, run_status_check changes no known status, unless the check
\* is Alarming, or Credulous and the answer had nothing about the resource.
THEOREM FailuresAreSilent == OutcomesSpec => FailuresStaySilent
<1>1. OutcomesInv /\ [OutcomesNext]_outcomeVars =>
        [\A a \in Failures :
           Answer(a) /\ Result(a) =>
             \/ KnownStatus' = KnownStatus
             \/ check \in Alarming
             \/ a = "malformed" /\ check \in Credulous]_outcomeVars
  <2> SUFFICES ASSUME OutcomesInv, NEW a \in Failures, Result(a),
                      check \notin Alarming,
                      ~(a = "malformed" /\ check \in Credulous)
               PROVE  KnownStatus' = KnownStatus
    OBVIOUS
  <2>1. LogTypes /\ check \in Checks
    BY DEF OutcomesInv, OutcomeTypes, TimelineInv, LogInv
  <2>2. Silent(check) /\ (check \notin Credulous => Firm(check))
    BY <2>1, SilentChecks
  <2>3. a \in {"denied", "failed", "malformed"} /\ a \in Kinds
    BY DEF Failures, Kinds
  <2>4. check[a] \in Diagnostics
    BY <2>2, <2>3 DEF Silent, Firm
  <2> QED BY <2>1, <2>3, <2>4, ResultKnown
<1> QED BY <1>1, OutcomesInvariant, PTL DEF OutcomesSpec, FailuresStaySilent

\* No sequence of answers makes the console tell that a resource that is gone
\* is in order, unless its check asks for more than the resource (Collective)
\* or takes an answer with nothing about it for its state (Credulous).
THEOREM GoneStaysGone == OutcomesSpec => GoneIsNoRecovery
<1>1. OutcomesInv /\ [OutcomesNext]_outcomeVars =>
        [KnownStatus' # KnownStatus /\ KnownStatus' \in Working =>
           \/ condition # "absent"
           \/ check \in Collective
           \/ /\ check \in Credulous
              /\ \E a \in {"unlisted", "malformed"} :
                   Answer(a) /\ Result(a)]_outcomeVars
  <2> SUFFICES ASSUME OutcomesInv, [OutcomesNext]_outcomeVars,
                      KnownStatus' # KnownStatus, KnownStatus' \in Working,
                      condition = "absent", check \notin Collective
               PROVE  /\ check \in Credulous
                      /\ \E a \in {"unlisted", "malformed"} : Answer(a) /\ Result(a)
    OBVIOUS
  <2>1. PICK a \in Kinds : Answer(a) /\ Result(a)
    BY NoCheck, Answers DEF OutcomesNext, Check
  <2>2. LogTypes /\ check \in Checks
    BY DEF OutcomesInv, OutcomeTypes, TimelineInv, LogInv
  <2>3. check[a] \in Working
    BY <2>1, <2>2, ResultKnown
  <2>4. a \in {"absent", "unlisted", "denied", "failed", "malformed"}
    BY <2>1 DEF Answer, Proper, Faults, Failures
  <2>5. Sober(check) /\ (check \notin Credulous => Wary(check))
    BY <2>2, SoberChecks
  <2>6. a \in {"unlisted", "malformed"} /\ check \in Credulous
    BY <2>3, <2>4, <2>5 DEF Sober, Wary
  <2> QED BY <2>1, <2>6
<1> QED BY <1>1, OutcomesInvariant, PTL DEF OutcomesSpec, GoneIsNoRecovery

\* An outage that a check has seen stays told while it lasts, in the status
\* of the asset and at the head of the timeline of its alert emails, whatever
\* answers follow, unless the check is Inattentive.
THEOREM OutageStaysTold == OutcomesSpec => []OutagesStayTold
<1>1. OutcomesInv => OutagesStayTold
  <2> SUFFICES ASSUME OutcomesInv, clear = "faulty", check \notin Inattentive
               PROVE  /\ KnownStatus \notin Working \cup {Error}
                      /\ AlertTimeline # <<>> =>
                           Head(AlertTimeline).status \notin Working
    BY DEF OutagesStayTold
  <2>1. KnownStatus \notin Working \cup {Error}
    BY DEF OutcomesInv, OutageKnown
  <2>2. AlertTimeline # <<>> => Head(AlertTimeline).status = KnownStatus
    BY HeadIsKnown DEF OutcomesInv, TimelineInv, AlertTimeline
  <2> QED BY <2>1, <2>2
<1> QED BY <1>1, OutcomesInvariant, PTL

\* The list of assets, the asset's page and the head of its timeline, which
\* are computed from three selections of rows, show one status.
THEOREM OneStatusShown == OutcomesSpec => []ConsoleAgrees
<1>1. OutcomesInv => ConsoleAgrees
  <2> SUFFICES ASSUME OutcomesInv PROVE ConsoleAgrees OBVIOUS
  <2>1. LogInv /\ LogTypes
    BY DEF OutcomesInv, TimelineInv, LogInv
  <2>2. ListedStatus = ShownStatus
    <3> SUFFICES ASSUME history = <<>> PROVE NewestRowStatus = ShownStatus
      BY DEF ListedStatus
    <3>1. Now = 0
      BY EmptySeq DEF Now
    <3>2. Len(log) \in Nat /\ \A i \in 1..Len(log) : log[i].at \in Nat \ {0}
      BY <2>1, LogRows DEF Row
    <3>3. Len(log) = 0
      <4> SUFFICES ASSUME Len(log) # 0 PROVE FALSE OBVIOUS
      <4>1. 1 \in 1..Len(log)
        BY <3>2
      <4>2. log[1].at <= 0 /\ log[1].at \in Nat \ {0}
        BY <2>1, <3>1, <3>2, <4>1 DEF LogInv, Dated
      <4> QED BY <4>2
    <3>4. log = <<>> /\ Telling = {}
      BY <2>1, <3>3, EmptySeq DEF LogTypes, Telling
    <3>5. KnownStatus = Error
      BY <2>1, <3>4, LastTelling
    <3> QED BY <3>4, <3>5 DEF NewestRowStatus, ShownStatus
  <2>3. ASSUME ~failing, PageTimeline # <<>>
        PROVE  Head(PageTimeline).status = ShownStatus
    <3>1. Head(PageTimeline).status = KnownStatus /\ KnownStatus \in Statuses
      BY <2>1, <2>3, HeadIsKnown DEF PageTimeline
    <3> QED BY <2>3, <3>1, TimelineAssumption DEF ShownStatus
  <2> QED BY <2>2, <2>3 DEF ConsoleAgrees
<1> QED BY <1>1, OutcomesInvariant, PTL

\* What is shown of the timelines whatever is recorded (StatusTimelineProofs)
\* holds for the answers of every provider.
THEOREM TimelinesHold ==
  OutcomesSpec => [](EveryPeriodIsTold /\ EntriesDateTheChange /\ PagesMissNothing)
BY OutcomesImplementTimeline, PeriodsTold, ChangesDated, NothingMissed, PTL
=============================================================================
