------------------------------ MODULE Records ------------------------------
(***************************************************************************)
(* The response schemas of src/validation/schemas.ts, and the field maps   *)
(* of src/types.                                                           *)
(***************************************************************************)
EXTENDS Schema, FieldNames

Joined(f, g) ==
  [k \in DOMAIN f \cup DOMAIN g |-> IF k \in DOMAIN f THEN f[k] ELSE g[k]]

\* An object with required and optional fields, other keys let through.
With(required, optional) == Object(Joined(required, optional), "passthrough")
None == [k \in {} |-> Str]
All(keys, s) == [k \in keys |-> s]
Maybe(keys, s) == All(keys, Optional(s))

OAuthTokenResponseSchema ==
  With([access_token |-> Str, expires_in |-> Num],
       Maybe({"token_type", "api_domain", "refresh_token"}, Str))

ZohoRecordSchema ==
  With([id |-> Str],
       Maybe({"createdTime", "modifiedTime", "Created_Time", "Modified_Time"}, Str))

LeadSchema ==
  With([id |-> Str],
       Maybe({"firstName", "lastName", "company", "email", "phone", "mobile",
              "leadStatus", "city", "state", "country", "createdAt",
              "modifiedAt", "First_Name", "Last_Name", "Company", "Email",
              "Phone", "Mobile", "Lead_Status", "City", "State", "Country",
              "Created_Time", "Modified_Time"}, Str))

ContactSchema ==
  With([id |-> Str],
       Maybe({"firstName", "lastName", "email", "phone", "mobile",
              "accountName", "mailingCity", "mailingState", "mailingCountry",
              "createdAt", "modifiedAt", "First_Name", "Last_Name", "Email",
              "Phone", "Mobile", "Account_Name", "Mailing_City",
              "Mailing_State", "Mailing_Country", "Created_Time",
              "Modified_Time"}, Str))

DealSchema ==
  With([id |-> Str],
       Joined(Maybe({"amount", "Amount"}, Num),
              Maybe({"name", "stage", "closingDate", "accountName", "owner",
                     "createdAt", "modifiedAt", "Deal_Name", "Stage",
                     "Closing_Date", "Account_Name", "Owner", "Created_Time",
                     "Modified_Time"}, Str)))

WebhookConfigSchema ==
  With(Joined([events |-> ArrayOf(Str)], All({"name", "url", "module"}, Str)),
       Joined([parameters |-> Optional(RecordOf(Str))],
              Maybe({"description", "httpMethod", "channel"}, Str)))

WebhookResponseSchema ==
  With([id |-> Str],
       Joined([isEnabled |-> Optional(Bool), is_enabled |-> Optional(Bool),
               events |-> Optional(ArrayOf(Str)), parameters |-> Optional(RecordOf(Str))],
              Maybe({"name", "url", "module", "description", "httpMethod", "channel",
                     "createdTime", "modifiedTime", "created_time", "modified_time"}, Str)))

WebhookPayloadSchema ==
  With(None, Joined([ids |-> Optional(ArrayOf(Str)), payload |-> Optional(Unknown)],
                    Maybe({"module", "event", "channel_id"}, Str)))

BulkReadJobResultSchema ==
  With(None, Joined([page |-> Optional(Num), moreRecords |-> Optional(Bool),
                     more_records |-> Optional(Bool)],
                    Maybe({"downloadUrl", "fileType", "download_url", "file_type"}, Str)))

BulkReadJobStatusSchema ==
  With(None, Joined([query |-> Optional(RecordOf(Unknown)),
                     result |-> Optional(BulkReadJobResultSchema)],
                    Maybe({"id", "state", "status", "createdTime", "modifiedTime",
                           "created_time", "modified_time"}, Str)))

BulkWriteJobStatusSchema ==
  With(None, Joined([resource |-> Optional(RecordOf(Unknown)),
                     result |-> Optional(With(None, Maybe({"downloadUrl", "download_url"}, Str)))],
                    Maybe({"id", "status", "operation", "createdTime", "created_time"}, Str)))

ZohoDataResponseSchema(recordSchema) ==
  With(None, [data |-> Optional(ArrayOf(recordSchema)), info |-> Optional(RecordOf(Unknown))])

ZohoActionResponseSchema ==
  With(None, Maybe({"data"}, ArrayOf(
    With(None, Joined([details |-> Optional(RecordOf(Unknown))],
                      Maybe({"status", "code", "message"}, Str))))))

WebhookListResponseSchema == With(None, Maybe({"webhooks"}, ArrayOf(WebhookResponseSchema)))

-----------------------------------------------------------------------------
(* Field names: camel-case names, and the names Zoho has for them.         *)

LEAD_FIELD_MAP ==
  [id |-> "id", firstName |-> "First_Name", lastName |-> "Last_Name",
   company |-> "Company", email |-> "Email", phone |-> "Phone",
   mobile |-> "Mobile", leadStatus |-> "Lead_Status", city |-> "City",
   state |-> "State", country |-> "Country", createdAt |-> "Created_Time",
   modifiedAt |-> "Modified_Time"]

CONTACT_FIELD_MAP ==
  [id |-> "id", firstName |-> "First_Name", lastName |-> "Last_Name",
   email |-> "Email", phone |-> "Phone", mobile |-> "Mobile",
   accountName |-> "Account_Name", createdAt |-> "Created_Time",
   modifiedAt |-> "Modified_Time"]

DEAL_FIELD_MAP ==
  [id |-> "id", dealName |-> "Deal_Name", stage |-> "Stage",
   amount |-> "Amount", closingDate |-> "Closing_Date",
   accountName |-> "Account_Name", contactName |-> "Contact_Name",
   owner |-> "Owner", createdAt |-> "Created_Time",
   modifiedAt |-> "Modified_Time"]

\* The constructors of the record modules: the schema of a module's records
\* and the map of its names.
RecordSchema(module) ==
  CASE module = "Leads" -> LeadSchema
    [] module = "Contacts" -> ContactSchema
    [] module = "Deals" -> DealSchema
FieldMap(module) ==
  CASE module = "Leads" -> LEAD_FIELD_MAP
    [] module = "Contacts" -> CONTACT_FIELD_MAP
    [] module = "Deals" -> DEAL_FIELD_MAP
=============================================================================
