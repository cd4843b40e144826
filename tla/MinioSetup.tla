----------------------------- MODULE MinioSetup -----------------------------
(***************************************************************************)
(* The MinIO half of setupDependentServices (pkg/dispatcher/minio.go):     *)
(* deployMinio, with the volume and the claim of createPVC, and then       *)
(* getMinioEndpoint, one action per API call.                              *)
(***************************************************************************)
EXTENDS NodeSetTask

MinioFails(g, e, causes) == Return(g, "join", "minio", e, causes)

\* isMinioDeployed: again only the deployment is looked at.
CheckMinio(g) ==
  /\ At(g, "minioCheck")
  /\ \/ Found("minio") /\ Goto(g, "minioEndpoint")
     \/ NotFound("minio") /\ Goto(g, "pvcGet")
     \/ /\ GetBreaks
        /\ MinioFails(g, "ErrGettingDeployment",
                      Wrap(cause, "ErrGettingDeployment", "raw"))
  /\ UNCHANGED pvs

\* createPVC: any error of this Get counts as "no claim yet".
GetPVC(g) ==
  /\ At(g, "pvcGet")
  /\ \/ Found("minio-data") /\ Goto(g, "minioCreate")
     \/ NotFound("minio-data") /\ Goto(g, "pvList")
     \/ GetBreaks /\ Goto(g, "pvList")
  /\ UNCHANGED pvs

\* Mutant: the search for a suitable volume never finds one.
ListPVsFindsNone(g) ==
  At(g, "pvList") /\ Answers /\ UNCHANGED <<objs, pvs>> /\ Goto(g, "pvCreate")

ListPVs(g) ==
  /\ At(g, "pvList")
  /\ UNCHANGED <<objs, pvs>>
  /\ \/ Answers /\ pvs > 0 /\ Goto(g, "pvcCreate")
     \/ Answers /\ pvs = 0 /\ Goto(g, "pvCreate")
     \/ /\ Breaks
        /\ MinioFails(g, "ErrListingPersistentVolumes",
                      Wrap(cause, "ErrListingPersistentVolumes", "raw"))

\* GenerateName: the server picks a fresh name, so this never conflicts.
CreatePV(g) ==
  /\ At(g, "pvCreate")
  /\ UNCHANGED objs
  /\ \/ Answers /\ pvs' = pvs + 1 /\ Goto(g, "pvLog")
     \/ /\ Breaks /\ pvs' \in {pvs, pvs + 1}
        /\ MinioFails(g, "ErrCreatingPersistentVolume",
                      Wrap(cause, "ErrCreatingPersistentVolume", "raw"))

\* The debug line after a successful Create reads existingPV.Name, and
\* existingPV is nil on this path: the argument is evaluated at any log
\* level and the panic ends the process.
LogNewPV(g) ==
  /\ At(g, "pvLog")
  /\ main' = "crashed"
  /\ UNCHANGED <<objs, pvs, faults, pc, errs, cause>>

CreatePVC(g) ==
  /\ At(g, "pvcCreate")
  /\ \/ Created("minio-data") /\ Goto(g, "minioCreate")
     \/ /\ NotCreated("minio-data")
        /\ MinioFails(g, "ErrCreatingPersistentVolumeClaim",
                      Wrap(cause, "ErrCreatingPersistentVolumeClaim", "raw"))
  /\ UNCHANGED pvs

\* Mutant: an existing deployment is taken as created.
CreateMinioIfAbsent(g) ==
  /\ At(g, "minioCreate") /\ Answers /\ objs' = objs \cup {"minio"} /\ Goto(g, "minioWait")
  /\ UNCHANGED pvs

CreateMinioDeployment(g) ==
  /\ At(g, "minioCreate")
  /\ \/ Created("minio") /\ Goto(g, "minioWait")
     \/ /\ NotCreated("minio")
        /\ MinioFails(g, "ErrCreatingDeployment",
                      Wrap(cause, "ErrCreatingDeployment", "raw"))
  /\ UNCHANGED pvs

\* Mutant: the poll does not look at the context.
WaitForMinioOnly(g) ==
  At(g, "minioWait") /\ UNCHANGED <<objs, pvs, faults>> /\ "minio" \in ready /\ Goto(g, "minioSvcGet")

\* ErrTimeout is returned as it stands, with whatever cause it last had.
WaitForMinioDeployment(g) ==
  /\ At(g, "minioWait")
  /\ UNCHANGED <<objs, pvs, faults>>
  /\ \/ ~ctxDone /\ "minio" \in ready /\ Goto(g, "minioSvcGet")
     \/ /\ ctxDone
        /\ MinioFails(g, "ErrWaitingForMinio",
                      Wrap(cause, "ErrWaitingForMinio", "ErrTimeout"))

GetMinioService(g) ==
  /\ At(g, "minioSvcGet")
  /\ \/ Found("minio-service") /\ Goto(g, "minioSvcWait")
     \/ NotFound("minio-service") /\ Goto(g, "minioSvcCreate")
     \/ GetBreaks /\ Goto(g, "minioSvcCreate")
  /\ UNCHANGED pvs

\* createMinioService wraps the failure in ErrCreatingService, and deployMinio
\* wraps that result in ErrCreatingService again: the variable becomes its
\* own cause.
CreateMinioService(g) ==
  /\ At(g, "minioSvcCreate")
  /\ \/ Created("minio-service") /\ Goto(g, "minioSvcWait")
     \/ /\ NotCreated("minio-service")
        /\ MinioFails(g, "ErrCreatingService",
                      Wrap(Wrap(cause, "ErrCreatingService", "raw"),
                           "ErrCreatingService", "ErrCreatingService"))
  /\ UNCHANGED pvs

\* The errors getMinioEndpoint can return for a NodePort service that exists:
\* the Get of the service or the List of the nodes breaks, or the list is empty.
EndpointErrors ==
  { <<"ErrGettingService", Wrap(cause, "ErrGettingService", "raw")>>,
    <<"ErrGettingNodes", Wrap(cause, "ErrGettingNodes", "raw")>>,
    <<"ErrNoNodesFound", cause>> }

EndpointFails(r) ==
  /\ r \in EndpointErrors
  /\ IF r[1] = "ErrNoNodesFound" THEN Answers /\ BareNodes ELSE Breaks

\* nodes.Items[0].Status.Addresses[0] of a node without addresses: the index
\* is out of range, and the panic ends the process.
ReadNodeAddress(g) ==
  /\ At(g, "minioSvcWait") \/ At(g, "minioEndpoint")
  /\ Answers /\ BareNodes
  /\ "minio-service" \in objs
  /\ main' = "crashed"
  /\ UNCHANGED <<objs, pvs, pc, errs, cause>>

WaitForMinioService(g) ==
  /\ At(g, "minioSvcWait")
  /\ UNCHANGED <<objs, pvs>>
  /\ \/ Answers /\ "minio-service" \in reachable /\ Goto(g, "minioEndpoint")
     \/ DialFails("minio-service")
     \/ /\ "minio-service" \in objs
        /\ \E r \in EndpointErrors :
             /\ EndpointFails(r)
             /\ MinioFails(g, "ErrWaitingForMinioService",
                           Wrap(Wrap(r[2], "ErrGettingMinioEndpoint", r[1]),
                                "ErrWaitingForMinioService", "ErrGettingMinioEndpoint"))
     \/ /\ ctxDone /\ UNCHANGED faults
        /\ MinioFails(g, "ErrWaitingForMinioService",
                      Wrap(cause, "ErrWaitingForMinioService", "ErrTimeout"))

\* getMinioEndpoint, for the address that goes into the environment.
GetMinioEndpoint(g) ==
  /\ At(g, "minioEndpoint")
  /\ UNCHANGED pvs
  /\ \/ Found("minio-service") /\ Goto(g, "join")
     \/ /\ NotFound("minio-service")
        /\ Return(g, "join", "minioEp", "ErrGettingService",
                  Wrap(cause, "ErrGettingService", "raw"))
     \/ /\ UNCHANGED objs
        /\ \E r \in EndpointErrors :
             /\ EndpointFails(r)
             /\ r[1] = "ErrNoNodesFound" => "minio-service" \in objs
             /\ Return(g, "join", "minioEp", r[1], r[2])

MinioStep(g) ==
  \/ CheckMinio(g) \/ GetPVC(g) \/ ListPVs(g) \/ CreatePV(g) \/ CreatePVC(g)
  \/ CreateMinioDeployment(g) \/ WaitForMinioDeployment(g) \/ GetMinioService(g)
  \/ CreateMinioService(g) \/ WaitForMinioService(g) \/ GetMinioEndpoint(g)

\* g has created the MinIO deployment and is still installing the rest.
InstallingMinio(g) ==
  pc[g] \in {"minioWait", "minioSvcGet", "minioSvcCreate", "minioSvcWait"}
=============================================================================
