------------------------------- MODULE Registry -------------------------------
(***************************************************************************)
(* Package registry: the table of the check modules, each under its name.  *)
(***************************************************************************)
EXTENDS Brokers, Certificates, Consul, Databases, Dns, Elasticsearch, Endpoints, Flow, Grpc,
        HAProxy, Patroni, Redis, Smtp, Stores, Streaming

Configs ==
  [cassandra |-> CassandraConfig, certs |-> CertsConfig,
   clickhouse |-> ClickHouseConfig, consul |-> ConsulConfig,
   dns |-> DnsConfig, elasticsearch |-> ElasticsearchConfig,
   etcd |-> EtcdConfig, flow |-> FlowConfig, grpc |-> GrpcConfig,
   haproxy |-> HAProxyConfig, http |-> HttpConfig,
   ingest |-> IngestConfig, kafka |-> KafkaConfig,
   keycloak |-> KeycloakConfig, ldap |-> LdapConfig,
   mediamtx |-> MediaMTXConfig, memcached |-> MemcachedConfig,
   mongodb |-> MongoDBConfig, mysql |-> MySQLConfig,
   nats |-> NatsConfig, ntp |-> NtpConfig, patroni |-> PatroniConfig,
   postgres |-> PostgresConfig, pq |-> PqConfig,
   rabbitmq |-> RabbitMQConfig, redis |-> RedisConfig,
   s3 |-> S3Config, smtp |-> SmtpConfig, stream |-> StreamConfig,
   tcp |-> TcpConfig, tls |-> TlsConfig, vault |-> VaultConfig]

Servers ==
  [cassandra |-> CassandraServer, certs |-> CertsServer,
   clickhouse |-> ClickHouseServer, consul |-> ConsulServer,
   dns |-> DnsServer, elasticsearch |-> ElasticsearchServer,
   etcd |-> EtcdServer, flow |-> FlowServer, grpc |-> GrpcServer,
   haproxy |-> HAProxyServer, http |-> HttpServer,
   ingest |-> IngestServer, kafka |-> KafkaServer,
   keycloak |-> KeycloakServer, ldap |-> LdapServer,
   mediamtx |-> MediaMTXServer, memcached |-> MemcachedServer,
   mongodb |-> MongoDBServer, mysql |-> MySQLServer,
   nats |-> NatsServer, ntp |-> NtpServer, patroni |-> PatroniServer,
   postgres |-> PostgresServer, pq |-> PqServer,
   rabbitmq |-> RabbitMQServer, redis |-> RedisServer,
   s3 |-> S3Server, smtp |-> SmtpServer, stream |-> StreamServer,
   tcp |-> TcpServer, tls |-> TlsServer, vault |-> VaultServer]

Scales ==
  [cassandra |-> CassandraScale, certs |-> CertsScale,
   clickhouse |-> ClickHouseScale, consul |-> ConsulScale,
   dns |-> DnsScale, elasticsearch |-> ElasticsearchScale,
   etcd |-> EtcdScale, flow |-> FlowScale, grpc |-> GrpcScale,
   haproxy |-> HAProxyScale, http |-> HttpScale,
   ingest |-> IngestScale, kafka |-> KafkaScale,
   keycloak |-> KeycloakScale, ldap |-> LdapScale,
   mediamtx |-> MediaMTXScale, memcached |-> MemcachedScale,
   mongodb |-> MongoDBScale, mysql |-> MySQLScale, nats |-> NatsScale,
   ntp |-> NtpScale, patroni |-> PatroniScale,
   postgres |-> PostgresScale, pq |-> PqScale,
   rabbitmq |-> RabbitMQScale, redis |-> RedisScale, s3 |-> S3Scale,
   smtp |-> SmtpScale, stream |-> StreamScale, tcp |-> TcpScale,
   tls |-> TlsScale, vault |-> VaultScale]

RunCheck(check, c, o) ==
  CASE check = "cassandra" -> CassandraRun(c, o)
    [] check = "certs" -> CertsRun(c, o)
    [] check = "clickhouse" -> ClickHouseRun(c, o)
    [] check = "consul" -> ConsulRun(c, o)
    [] check = "dns" -> DnsRun(c, o)
    [] check = "elasticsearch" -> ElasticsearchRun(c, o)
    [] check = "etcd" -> EtcdRun(c, o)
    [] check = "flow" -> FlowRun(c, o)
    [] check = "grpc" -> GrpcRun(c, o)
    [] check = "haproxy" -> HAProxyRun(c, o)
    [] check = "http" -> HttpRun(c, o)
    [] check = "ingest" -> IngestRun(c, o)
    [] check = "kafka" -> KafkaRun(c, o)
    [] check = "keycloak" -> KeycloakRun(c, o)
    [] check = "ldap" -> LdapRun(c, o)
    [] check = "mediamtx" -> MediaMTXRun(c, o)
    [] check = "memcached" -> MemcachedRun(c, o)
    [] check = "mongodb" -> MongoDBRun(c, o)
    [] check = "mysql" -> MySQLRun(c, o)
    [] check = "nats" -> NatsRun(c, o)
    [] check = "ntp" -> NtpRun(c, o)
    [] check = "patroni" -> PatroniRun(c, o)
    [] check = "postgres" -> PostgresRun(c, o)
    [] check = "pq" -> PqRun(c, o)
    [] check = "rabbitmq" -> RabbitMQRun(c, o)
    [] check = "redis" -> RedisRun(c, o)
    [] check = "s3" -> S3Run(c, o)
    [] check = "smtp" -> SmtpRun(c, o)
    [] check = "stream" -> StreamRun(c, o)
    [] check = "tcp" -> TcpRun(c, o)
    [] check = "tls" -> TlsRun(c, o)
    [] check = "vault" -> VaultRun(c, o)
=============================================================================
