CONSTANTS
  Nil = Nil
  MaxInt = 32767
  MaxIdentifierBytes = 70
  MaxStringValueBytes = 80
  MaxAggregateInputBytes = 700
  MaxAggregateOutputBytes = 1300
  MaxVerifierOutputItems = 3
  MaxVerifierOutputBytes = 250
  MaxAggregateWorkItems = 24
  NotDSLIdentifiers = {9}
  MaxContextualTuples = 2
  MaxContextualAttributes = 3
  MaxMutationItems = 4
  MaxCallerAttributes = 2
  MaxCallerGrants = 2
  MaxCapabilitiesPerGrant = 5
  MaxAuthorizerOutputBytes = 150
  MaxArgumentItems = 2
  MaxEvidenceBytes = 10
  MaxBatchItems = 3
  MaxExplainSteps = 2
  MaxPolicySourceBytes = 20
  MaxPageRequestItems = 10
  MaxPageResponseItems = 5
  MaxEventPageItems = 4
  MaxEventPageBytes = 1200
  MaxStatusComponents = 2
  ByteBase = 16
  Uint16Bytes = 2
  Uint32Bytes = 3
  Uint64Bytes = 4
  NanosPerSecond = 2
  UnixEpoch = 1
  MaxInt64 = 60
  Workloads <- MCWorkloads
  Policies <- MCPolicies
  ActiveSlots <- MCActiveSlots
  Namespace <- MCNamespace
  CursorKey <- MCCursorKey
  Buckets <- MCBuckets
  AttributeKeys <- MCAttributeKeys
  Times <- MCTimes
SPECIFICATION Spec
INVARIANTS IndexesAgree ListingsAreComplete RequestsAreCanonical DecisionsAreEarned RowsRoundTrip
