------------------------------ MODULE Schemas -------------------------------
(***************************************************************************)
(* What the services need before they can serve: the PostgreSQL schema each *)
(* one creates with its Alembic migrations, the stores its health endpoint   *)
(* asks, and the containers docker-compose.yml starts before it.  Columns     *)
(* and indexes are left out: a statement is a type, a table with the types    *)
(* and tables it refers to, or a row.                                          *)
(***************************************************************************)
EXTENDS Sequences

(* CREATE TYPE .. EXCEPTION WHEN duplicate_object, and CREATE TABLE unless    *)
(* has_table: both do nothing for a name that exists.                          *)
Enum(name) == [do |-> "type", name |-> name, needs |-> {}]

Table(name, needs) == [do |-> "table", name |-> name, needs |-> needs]

(* INSERT .. WHERE NOT EXISTS. *)
Row(name, table) == [do |-> "row", name |-> name, needs |-> {table}]

Drop(name) == [do |-> "drop", name |-> name, needs |-> {}]

(* DROP SCHEMA .. CASCADE takes the table alembic_version with it, which env.py  *)
(* keeps in the service's own schema (version_table_schema).                       *)
DropSchema == [do |-> "drop_schema", name |-> "schema", needs |-> {}]

Namespace == [do |-> "namespace", name |-> "schema", needs |-> {}]

VersionTable == [do |-> "table", name |-> "alembic_version", needs |-> {}]

(* Alembic records a revision after its statements, in the same transaction.       *)
Stamp(revision) == [do |-> "stamp", name |-> revision, needs |-> {}]

-----------------------------------------------------------------------------
(* The revisions of each service. *)

(* A plausible slip: the lines of an order are created before the order.        *)
OrdersSchemaSwapped ==
    [ up |-> << Enum("order_type"), Enum("order_status"), Enum("payment_status"),
                Table("order_line_items", {"orders"}),
                Table("orders", {"order_type", "order_status", "payment_status"}),
                Table("order_events", {"orders"}) >>,
      down |-> << >> ]

OrdersSchema ==
    [ up |-> << Enum("order_type"), Enum("order_status"), Enum("payment_status"),
                Table("orders", {"order_type", "order_status", "payment_status"}),
                Table("order_line_items", {"orders"}), Table("order_events", {"orders"}) >>,
      down |-> << Drop("order_events"), Drop("order_line_items"), Drop("orders"),
                  Drop("payment_status"), Drop("order_status"), Drop("order_type"),
                  DropSchema >> ]

CustomersTables ==
    << Enum("loyalty_tier"), Enum("ticket_status"), Enum("ticket_priority"),
       Table("customers", {"loyalty_tier"}),
       Table("addresses", {"customers"}), Table("payment_methods", {"customers"}),
       Table("support_tickets", {"customers", "ticket_status", "ticket_priority"}) >>

CustomersSchema ==
    [ up |-> CustomersTables,
      down |-> << Drop("support_tickets"), Drop("payment_methods"), Drop("addresses"),
                  Drop("customers"), Drop("ticket_priority"), Drop("ticket_status"),
                  Drop("loyalty_tier"), DropSchema >> ]

ProductsSchema ==
    [ up |-> << Table("sku_pricing", {}), Table("bulk_discount_tiers", {}),
                Table("promotions", {}), Table("coupon_codes", {"promotions"}) >>,
      down |-> << Drop("coupon_codes"), Drop("promotions"), Drop("bulk_discount_tiers"),
                  Drop("sku_pricing"), DropSchema >> ]

InventoryTables ==
    << Enum("reservation_status"), Enum("movement_type"),
       Table("fulfillment_centers", {}), Table("sku_stock", {"fulfillment_centers"}),
       Table("reservations", {"fulfillment_centers", "reservation_status"}),
       Table("stock_movements", {"fulfillment_centers", "movement_type"}) >>

InventorySchema ==
    [ up |-> InventoryTables,
      down |-> << Drop("stock_movements"), Drop("reservations"), Drop("sku_stock"),
                  Drop("fulfillment_centers"), Drop("movement_type"),
                  Drop("reservation_status"), DropSchema >> ]

FulfillmentSchema ==
    [ up |-> << Enum("fulfillment_job_status"),
                Table("fulfillment_jobs", {"fulfillment_job_status"}),
                Table("pick_lists", {"fulfillment_jobs"}) >>,
      down |-> << Drop("pick_lists"), Drop("fulfillment_jobs"),
                  Drop("fulfillment_job_status"), DropSchema >> ]

ShippingSchema ==
    [ up |-> << Enum("shipment_status"), Table("shipments", {"shipment_status"}),
                Table("tracking_events", {"shipments"}) >>,
      down |-> << Drop("tracking_events"), Drop("shipments"), Drop("shipment_status"),
                  DropSchema >> ]

PaymentsSchema ==
    [ up |-> << Enum("transaction_status"), Table("transactions", {"transaction_status"}) >>,
      down |-> << Drop("transactions"), Drop("transaction_status"), DropSchema >> ]

TaxSchema ==
    [ up |-> << Enum("ledger_status"), Table("tax_rates", {}),
                Table("tax_collected_ledger", {"tax_rates", "ledger_status"}),
                Row("US-CA", "tax_rates"), Row("US-NY", "tax_rates"),
                Row("US-TX", "tax_rates") >>,
      down |-> << Drop("tax_collected_ledger"), Drop("tax_rates"), Drop("ledger_status"),
                  DropSchema >> ]

SuppliersSchema ==
    [ up |-> << Enum("po_status"), Table("suppliers", {}),
                Table("purchase_orders", {"suppliers", "po_status"}),
                Table("po_line_items", {"purchase_orders"}) >>,
      down |-> << Drop("po_line_items"), Drop("purchase_orders"), Drop("suppliers"),
                  Drop("po_status"), DropSchema >> ]

InvoicesTables ==
    << Enum("invoice_status"), Enum("receipt_status"),
       Table("goods_receipts", {"purchase_orders", "receipt_status"}),
       Table("goods_receipt_line_items", {"goods_receipts"}),
       Table("supplier_invoices", {"suppliers", "purchase_orders", "invoice_status"}),
       Table("supplier_invoice_line_items", {"supplier_invoices"}) >>

InvoicesDown ==
    << Drop("supplier_invoice_line_items"), Drop("supplier_invoices"),
       Drop("goods_receipt_line_items"), Drop("goods_receipts"),
       Drop("invoice_status"), Drop("receipt_status") >>

InvoicesSchema == [ up |-> InvoicesTables, down |-> InvoicesDown ]

AccountingSchema ==
    [ up |-> << Enum("account_type"), Table("accounts", {"account_type"}),
                Table("journal_entries", {}),
                Table("ledger_lines", {"journal_entries", "accounts"}) >>,
      down |-> << Drop("ledger_lines"), Drop("journal_entries"), Drop("accounts"),
                  Drop("account_type"), DropSchema >> ]

PayrollTables ==
    << Enum("employment_type"), Enum("payroll_run_status"), Table("departments", {}),
       Table("employees", {"departments", "employment_type"}),
       Table("payroll_runs", {"payroll_run_status"}),
       Table("pay_stubs", {"payroll_runs", "employees"}) >>

PayrollSchema ==
    [ up |-> PayrollTables,
      down |-> << Drop("pay_stubs"), Drop("payroll_runs"), Drop("employees"),
                  Drop("departments"), Drop("payroll_run_status"),
                  Drop("employment_type"), DropSchema >> ]

Revisions(s) ==
    CASE s = "order_service" -> << OrdersSchema >>
      [] s = "customer_service" -> << CustomersSchema >>
      [] s = "product_service" -> << ProductsSchema >>
      [] s = "inventory_service" -> << InventorySchema >>
      [] s = "fulfillment_service" -> << FulfillmentSchema >>
      [] s = "shipping_service" -> << ShippingSchema >>
      [] s = "payment_service" -> << PaymentsSchema >>
      [] s = "tax_service" -> << TaxSchema >>
      [] s = "supplier_service" -> << SuppliersSchema, InvoicesSchema >>
      [] s = "accounting_service" -> << AccountingSchema >>
      [] s = "hr_payroll_service" -> << PayrollSchema >>
      [] OTHER -> << >>

-----------------------------------------------------------------------------
(* What GET /health asks, in this order. *)

Stores == {"postgres", "mongo", "redis"}

GatewayAsks == << "postgres", "mongo", "redis" >>
CustomerAsks == << "postgres", "mongo" >>
ProductAsks == << "postgres", "mongo", "redis" >>
OrderAsks == << "postgres", "redis" >>
InventoryAsks == << "postgres", "redis" >>
FulfillmentAsks == << "postgres", "redis" >>
ShippingAsks == << "postgres" >>
PaymentAsks == << "postgres" >>
TaxAsks == << "postgres" >>
SupplierAsks == << "postgres" >>
AccountingAsks == << "postgres" >>
PayrollAsks == << "postgres" >>
NotificationAsks == << "mongo", "redis" >>
ReportingAsks == << "mongo", "redis" >>

Asks(s) ==
    CASE s = "api_gateway" -> GatewayAsks
      [] s = "customer_service" -> CustomerAsks
      [] s = "product_service" -> ProductAsks
      [] s = "order_service" -> OrderAsks
      [] s = "inventory_service" -> InventoryAsks
      [] s = "fulfillment_service" -> FulfillmentAsks
      [] s = "shipping_service" -> ShippingAsks
      [] s = "payment_service" -> PaymentAsks
      [] s = "tax_service" -> TaxAsks
      [] s = "supplier_service" -> SupplierAsks
      [] s = "accounting_service" -> AccountingAsks
      [] s = "hr_payroll_service" -> PayrollAsks
      [] s = "notification_service" -> NotificationAsks
      [] s = "reporting_service" -> ReportingAsks
      [] OTHER -> << >>

(* The services whose lifespan creates MongoDB indexes before it serves. *)
IndexesMongo ==
    {"customer_service", "product_service", "notification_service", "reporting_service"}

(* depends_on: the containers that must be healthy before one is first started.   *)
DependsOn(s) ==
    CASE s \in Stores -> {}
      [] s \in {"api_gateway", "customer_service", "product_service"} ->
            {"postgres", "mongo", "redis"}
      [] s = "order_service" -> {"postgres", "redis", "customer_service", "product_service"}
      [] s \in {"inventory_service", "shipping_service"} -> {"postgres", "redis"}
      [] s = "fulfillment_service" -> {"postgres", "redis", "shipping_service"}
      [] s \in {"payment_service", "tax_service", "supplier_service", "accounting_service"} ->
            {"postgres"}
      [] s = "hr_payroll_service" -> {"postgres", "accounting_service"}
      [] s = "notification_service" -> {"mongo", "redis"}
      [] s = "reporting_service" -> {"mongo", "redis", "order_service", "product_service"}
      [] s = "website" -> {"api_gateway", "customer_service", "product_service"}
      [] s = "customer_simulator" ->
            {"api_gateway", "order_service", "product_service", "customer_service"}
      [] s = "public_demo_service" -> {"api_gateway", "redis", "order_service"}
      [] s = "supplier_simulator" -> {"api_gateway", "supplier_service"}
=============================================================================
